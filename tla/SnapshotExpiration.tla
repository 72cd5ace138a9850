------------------------- MODULE SnapshotExpiration -------------------------
(***************************************************************************)
(* Snapshot expiration beside commits, rollbacks and tags: ExpireSnapshots *)
(* and the part of SnapshotManager it uses.                                *)
(*                                                                         *)
(* A file is named by its kind and a number; the number of a data file is  *)
(* that of the commit that wrote it, every other file has the id of the    *)
(* snapshot it was written for.  The two manifest lists of a snapshot are  *)
(* one file here: they are written together, and after a crash between     *)
(* their deletions the next expiration still reads the one that is left.   *)
(***************************************************************************)
EXTENDS Integers, FiniteSets, FiniteSetsExt, TLC

CONSTANTS
    Expirers,    \* processes that call Expire
    RetainMin,   \* snapshot.num-retained.min
    RetainMax,   \* snapshot.num-retained.max
    MaxDeletes,  \* snapshot.expire.limit
    MergeCount,  \* manifest.merge-min-count
    MaxSnapshot, \* bound on snapshot ids
    MaxWrites,   \* bound on commits that write a data file
    MaxTags,     \* bound on tags
    MaxCrashes,  \* bound on crashes of committers and expirers
    RollbackToExpiring, \* TRUE: the target of a rollback may be a snapshot that
                        \* an expiration has begun to remove
    OutrunAttempts      \* TRUE: other commits may publish the snapshot an attempt
                        \* is for, and have it expired, before the attempt ends

ASSUME RetentionAssumption ==
    /\ RetainMin \in Nat \ {0} /\ RetainMax \in Nat /\ RetainMax >= RetainMin
    /\ MaxDeletes \in Nat

VARIABLES
    files,      \* names of the files that exist
    entries,    \* contents of every manifest ever written
    snapshots,  \* snapshot files: id -> what the snapshot names
    tags,       \* tag files: copies of snapshots, with their ids
    latestHint, \* LATEST
    earliestHint, \* EARLIEST, 0 when it is missing
    commit,     \* the commit in flight
    written,    \* data files written so far
    published,  \* history: every snapshot ever published, the bases of attempts
    expire,     \* the Expire call of each expirer
    crashes,    \* crashes so far
    frontier    \* history: the largest end an expirer has begun to delete up to

table == <<files, entries, snapshots, latestHint, earliestHint>>
commits == <<written, published>>
vars == <<table, tags, commit, commits, expire, crashes, frontier>>

Data(n) == <<"data", n>>
List(n) == <<"list", n>>
Delta(n) == <<"delta", n>>
Base(n) == <<"base", n>>
Index(n) == <<"index", n>>
Payload(n) == <<"payload", n>>
NoIndex == <<"index", 0>>

-----------------------------------------------------------------------------
(* SnapshotManager                                                          *)

Ids == DOMAIN snapshots

\* FindLatest: the hint, unless the snapshot after it exists.
FindLatest ==
    IF latestHint > 0 /\ latestHint + 1 \notin Ids THEN latestHint
    ELSE IF Ids = {} THEN 0 ELSE Max(Ids)

\* FindEarliest: the hint, if its snapshot exists.
FindEarliest ==
    IF earliestHint \in Ids THEN earliestHint
    ELSE IF Ids = {} THEN 0 ELSE Min(Ids)

-----------------------------------------------------------------------------
(* Manifests                                                                *)

DataManifests(s) == s.base \cup {s.delta}

IndexManifest(s) == {s.index} \ {NoIndex}

\* FileEntry::MergeEntries: additions and deletions of a file alternate, so it
\* is live when one addition is left over.
MergeEntries(manifests) ==
    {f \in UNION {entries[m].add : m \in manifests} :
        Cardinality({m \in manifests : f \in entries[m].add})
            > Cardinality({m \in manifests : f \in entries[m].del})}

Payloads(index) == IF index = NoIndex THEN {} ELSE entries[index].add

\* Everything a reader of snapshot s opens.
Referenced(s) ==
    {s.list} \cup DataManifests(s) \cup MergeEntries(DataManifests(s))
        \cup IndexManifest(s) \cup Payloads(s.index)

-----------------------------------------------------------------------------
(* Commits                                                                  *)

NoCommit == [kind |-> "none", target |-> 0]

\* The live files of the latest snapshot.
LatestLive ==
    IF FindLatest \in Ids THEN MergeEntries(DataManifests(snapshots[FindLatest])) ELSE {}

Idle == \A e \in Expirers : expire[e].pc = "idle"

\* A writer writes its data file.  Commits and expirations mix freely, while
\* FileStoreCommit asks to keep rollbacks and expirations apart; a rollback to
\* a snapshot of an expiration that died half-way is kept apart too, unless
\* RollbackToExpiring.
StartCommit ==
    /\ commit = NoCommit
    /\ \/ \E k \in {"append", "compact"} :
            /\ written < MaxWrites
            /\ k = "compact" => LatestLive # {}
            /\ commit' = [kind |-> k, target |-> 0]
            /\ written' = written + 1
            /\ files' = files \cup {Data(written + 1)}
       \/ \E t \in Ids :
            /\ Idle /\ (t >= frontier \/ RollbackToExpiring)
            /\ commit' = [kind |-> "rollback", target |-> t]
            /\ UNCHANGED <<written, files>>
       \/ /\ LatestLive # {}
          /\ commit' = [kind |-> "drop", target |-> 0]
          /\ UNCHANGED <<written, files>>
    /\ UNCHANGED <<entries, snapshots, latestHint, earliestHint, tags, published, expire,
                   crashes, frontier>>

\* The writer or committer dies; its data file stays behind.
AbandonCommit ==
    /\ commit # NoCommit /\ crashes < MaxCrashes
    /\ commit' = NoCommit
    /\ crashes' = crashes + 1
    /\ UNCHANGED <<table, tags, commits, expire, frontier>>

\* What the new snapshot adds, deletes and indexes, given the latest one.
Changes(live, index, id) ==
    CASE commit.kind = "append" ->
            {[add |-> {Data(written)}, del |-> {}, index |-> Index(id),
              payloads |-> Payloads(index) \cup {Payload(id)}]}
      [] commit.kind = "compact" ->
            {[add |-> {Data(written)}, del |-> {f}, index |-> Index(id),
              payloads |-> {Payload(id)}] : f \in live}
      [] commit.kind = "drop" ->
            {[add |-> {}, del |-> {f}, index |-> index, payloads |-> {}] : f \in live}
      [] commit.kind = "rollback" ->
            LET t == snapshots[commit.target]
                target == MergeEntries(DataManifests(t))
            IN  {[add |-> target \ live, del |-> live \ target, index |-> t.index,
                  payloads |-> {}]}

\* The snapshots an attempt may be for: the one after the latest, or one that
\* others have published since it read its base, if that has expired again.  A
\* rollback is kept apart from expirations.
AttemptedIds ==
    {i \in {FindLatest + 1} : FindLatest \in Ids \cup {0}} \cup
    {i \in DOMAIN published : OutrunAttempts /\ commit.kind # "rollback"}

\* TryCommitOnce: manifests, index manifest, the snapshot unless there is one of
\* that id and, unless the process dies first, the hint.  A rollback always
\* writes its base anew.
Publish ==
    /\ commit # NoCommit
    /\ \E id \in AttemptedIds \ Ids :
        /\ id <= MaxSnapshot
        /\ LET n == IF id \in DOMAIN published THEN id + MaxSnapshot ELSE id
               last == published[id - 1]
               live == IF id = 1 THEN {} ELSE MergeEntries(DataManifests(last))
               old == IF id = 1 THEN {} ELSE DataManifests(last)
               merge == old # {} /\ (commit.kind = "rollback"
                                     \/ Cardinality(old) >= MergeCount)
           IN  \E c \in Changes(live, IF id = 1 THEN NoIndex ELSE last.index, n) :
                LET manifests == {Delta(n)} \cup {m \in {Base(n)} : merge}
                                    \cup {m \in {Index(n)} : c.index = m}
                    payloads == {f \in {Payload(n)} : c.index = Index(n)}
                    snapshot == [list |-> List(n), delta |-> Delta(n), index |-> c.index,
                                 base |-> IF merge THEN {Base(n)} ELSE old]
                IN  /\ entries' = entries @@
                         [m \in manifests |->
                             CASE m = Delta(n) -> [add |-> c.add, del |-> c.del]
                               [] m = Base(n) -> [add |-> live, del |-> {}]
                               [] m = Index(n) -> [add |-> c.payloads, del |-> {}]]
                    /\ files' = files \cup {List(n)} \cup manifests \cup payloads
                    /\ snapshots' = snapshots @@ (id :> snapshot)
                    /\ published' = (id :> snapshot) @@ published
        /\ \/ latestHint' = id /\ UNCHANGED crashes
           \/ /\ crashes < MaxCrashes /\ crashes' = crashes + 1
              /\ UNCHANGED latestHint
    /\ commit' = NoCommit
    /\ UNCHANGED <<earliestHint, tags, written, expire, frontier>>

-----------------------------------------------------------------------------
(* Tags, which other programs create and delete                             *)

\* Tags are created while nothing is being expired.
CreateTag ==
    /\ Cardinality(tags) < MaxTags /\ Idle
    /\ \E id \in Ids :
        /\ id >= frontier
        /\ tags' = tags \cup {[id |-> id, snapshot |-> snapshots[id]]}
    /\ UNCHANGED <<table, commit, commits, expire, crashes, frontier>>

-----------------------------------------------------------------------------
(* ExpireSnapshots                                                          *)

NoExpire ==
    [pc |-> "idle", earliest |-> 0, end |-> 0, latest |-> 0, begin |-> 0, id |-> 0,
     skip |-> {}, skipData |-> {}, tags |-> {}, snapshot |-> <<>>]

Goto(e, state) == expire' = [expire EXCEPT ![e] = state]

\* Expire: the bounds, and the first snapshot in them that is too young; which
\* one that is depends on the clocks of the committers.
ExpireBounds(e) ==
    /\ expire[e].pc = "idle"
    /\ commit.kind # "rollback"
    /\ FindLatest # 0 /\ FindEarliest # 0
    /\ LET latest == FindLatest
           earliest == FindEarliest
           min == Max({latest - RetainMax + 1, earliest})
           max == Min({latest - RetainMin + 1, earliest + MaxDeletes})
       IN  \E end \in {max} \cup {i \in Ids : min <= i /\ i < max} :
            /\ end > earliest
            /\ Goto(e, [NoExpire EXCEPT !.pc = "load", !.earliest = earliest,
                                        !.end = end, !.latest = latest])
    /\ UNCHANGED <<table, tags, commit, commits, crashes, frontier>>

\* The manifest lists and data manifests of s can be read.
Readable(s) == {s.list} \cup DataManifests(s) \subseteq files

\* GetManifestSkippingSet.
ManifestSkippingSet(kept) ==
    UNION {{s.list} \cup DataManifests(s) \cup IndexManifest(s) \cup Payloads(s.index) :
            s \in kept}

\* Mutant: only the boundary snapshot is protected.
SkipBoundaryOnly(first, later) == MergeEntries(DataManifests(first))

\* GetDataFileSkippingSet: the live files of the first snapshot kept and what
\* the later ones add, files a rollback restored included.
DataFileSkippingSet(first, later) ==
    MergeEntries(DataManifests(first)) \cup UNION {entries[s.delta].add : s \in later}

\* The first steps of ExpireUntil: nothing happens when the boundary is missing
\* or another snapshot has become the latest; whatever cannot be read is an
\* error before any file is deleted.
LoadRetained(e) ==
    LET x == expire[e]
        kept == {snapshots[i] : i \in x.end..x.latest}
    IN  /\ x.pc = "load"
        /\ IF /\ x.end \in Ids /\ FindLatest = x.latest
              /\ x.end..x.latest \subseteq Ids
              /\ \A s \in kept : Readable(s) /\ IndexManifest(s) \subseteq files
           THEN Goto(e, [x EXCEPT
                  !.pc = "range",
                  !.skip = ManifestSkippingSet(kept),
                  !.skipData = DataFileSkippingSet(snapshots[x.end],
                                  {snapshots[i] : i \in x.end + 1..x.latest})])
           ELSE Goto(e, NoExpire)
        /\ UNCHANGED <<table, tags, commit, commits, crashes, frontier>>

\* GetTagSnapshotsToRetain: tags before end, from the last one at or before
\* begin.
TagsToRetain(found, begin, end) ==
    LET before == {t \in found : t.id < end}
        atBegin == {t.id : t \in {u \in before : u.id <= begin}}
    IN  {t \in before : atBegin = {} \/ t.id >= Max(atBegin)}

\* GetTaggedSnapshots lists the tag directory and reads each tag.
TaggedSnapshots == tags

\* The range, behind the last gap, and the tags.
FindRange(e) ==
    LET x == expire[e]
        gaps == {i \in x.earliest..x.end - 1 : i \notin Ids}
        begin == IF gaps = {} THEN x.earliest ELSE Max(gaps) + 1
        kept == {t.snapshot : t \in TagsToRetain(TaggedSnapshots, begin, x.end)}
    IN  /\ x.pc = "range"
        /\ IF \A s \in kept : Readable(s) /\ IndexManifest(s) \subseteq files
           THEN /\ Goto(e, [x EXCEPT !.pc = "data", !.begin = begin, !.id = begin + 1,
                                     !.tags = TaggedSnapshots,
                                     !.skip = @ \cup ManifestSkippingSet(kept)])
                /\ frontier' = Max({frontier, x.end})
           ELSE Goto(e, NoExpire) /\ UNCHANGED frontier
        /\ UNCHANGED <<table, tags, commit, commits, crashes>>

\* Mutant: the tags are forgotten.
NoTag(found, id) == {}

\* The last tag before snapshot id.
PreviousTag(found, id) ==
    {t \in found : t.id < id /\ \A u \in found : u.id < id => u.id <= t.id}

\* GetTaggedDataFiles.
TaggedDataFiles(s) == DataFileSkippingSet(s, {})

\* GetDataFilesToDelete.
DeletedEntries(delta) == entries[delta].del \ entries[delta].add

\* CleanUnusedDataFiles for the delta of the next snapshot, unless its manifest
\* or those of the tag before it cannot be read.
CleanData(e) ==
    LET x == expire[e]
        next == snapshots[x.id]
        previous == {t.snapshot : t \in PreviousTag(x.tags, x.id)}
        tagged == UNION {TaggedDataFiles(s) : s \in previous}
    IN  /\ x.pc = "data" /\ x.id <= x.end
        /\ IF x.id \notin Ids
           THEN /\ Goto(e, [x EXCEPT !.begin = @ + 1, !.id = @ + 1])
                /\ UNCHANGED files
           ELSE /\ Goto(e, [x EXCEPT !.id = @ + 1])
                /\ files' = IF /\ {next.list, next.delta} \subseteq files
                               /\ \A s \in previous : Readable(s)
                            THEN files \ (DeletedEntries(next.delta)
                                            \ (x.skipData \cup tagged))
                            ELSE files
        /\ UNCHANGED <<entries, snapshots, latestHint, earliestHint, tags, commit,
                       commits, crashes, frontier>>

\* Mutant: the delta of the first snapshot kept is not looked at.
StartMetaEarly(e) ==
    /\ expire[e].pc = "data" /\ expire[e].id >= expire[e].end
    /\ Goto(e, [expire[e] EXCEPT !.pc = "meta", !.id = expire[e].begin])
    /\ UNCHANGED <<table, tags, commit, commits, crashes, frontier>>

\* Mutant: the first snapshot of the range is skipped.
StartMetaLate(e) ==
    /\ expire[e].pc = "data" /\ expire[e].id > expire[e].end
    /\ Goto(e, [expire[e] EXCEPT !.pc = "meta", !.id = expire[e].begin + 1])
    /\ UNCHANGED <<table, tags, commit, commits, crashes, frontier>>

\* All deltas are done: the metadata from the start of the range.
StartMeta(e) ==
    /\ expire[e].pc = "data" /\ expire[e].id > expire[e].end
    /\ Goto(e, [expire[e] EXCEPT !.pc = "meta", !.id = expire[e].begin])
    /\ UNCHANGED <<table, tags, commit, commits, crashes, frontier>>

\* CleanUnusedIndexManifest of an expired snapshot: the payloads, then the index
\* manifest itself.
CleanPayloads(e) ==
    LET x == expire[e]
        s == snapshots[x.id]
        unused == s.index \in files /\ s.index \notin x.skip
    IN  /\ x.pc = "meta" /\ x.id < x.end
        /\ IF x.id \notin Ids
           THEN /\ Goto(e, [x EXCEPT !.begin = @ + 1, !.id = @ + 1])
                /\ UNCHANGED files
           ELSE /\ Goto(e, [x EXCEPT !.pc = IF unused THEN "index" ELSE "manifests",
                                     !.snapshot = s])
                /\ files' = files \ {f \in Payloads(s.index) \ x.skip : unused}
        /\ UNCHANGED <<entries, snapshots, latestHint, earliestHint, tags, commit,
                       commits, crashes, frontier>>

CleanIndexManifest(e) ==
    LET x == expire[e]
    IN  /\ x.pc = "index"
        /\ files' = files \ {x.snapshot.index}
        /\ Goto(e, [x EXCEPT !.pc = "manifests"])
        /\ UNCHANGED <<entries, snapshots, latestHint, earliestHint, tags, commit,
                       commits, crashes, frontier>>

\* CleanUnusedManifests: the manifests that the lists name, then the lists.
CleanManifests(e) ==
    LET x == expire[e]
        s == x.snapshot
    IN  /\ x.pc = "manifests"
        /\ files' = files \ {m \in DataManifests(s) \ x.skip : s.list \in files}
        /\ Goto(e, [x EXCEPT !.pc = IF s.list \in files THEN "list" ELSE "snapshot"])
        /\ UNCHANGED <<entries, snapshots, latestHint, earliestHint, tags, commit,
                       commits, crashes, frontier>>

CleanManifestList(e) ==
    LET x == expire[e]
    IN  /\ x.pc = "list"
        /\ files' = files \ ({x.snapshot.list} \ x.skip)
        /\ Goto(e, [x EXCEPT !.pc = "snapshot"])
        /\ UNCHANGED <<entries, snapshots, latestHint, earliestHint, tags, commit,
                       commits, crashes, frontier>>

DeleteSnapshot(e) ==
    LET x == expire[e]
    IN  /\ x.pc = "snapshot"
        /\ snapshots' = [i \in Ids \ {x.id} |-> snapshots[i]]
        /\ Goto(e, [x EXCEPT !.pc = "meta", !.id = @ + 1, !.snapshot = <<>>])
        /\ UNCHANGED <<files, entries, latestHint, earliestHint, tags, commit, commits,
                       crashes, frontier>>

CommitEarliestHint(e) ==
    /\ expire[e].pc = "meta" /\ expire[e].id >= expire[e].end
    /\ earliestHint' = expire[e].end
    /\ Goto(e, NoExpire)
    /\ UNCHANGED <<files, entries, snapshots, latestHint, tags, commit, commits, crashes,
                   frontier>>

\* The process dies, or an I/O error ends the call.
CrashExpire(e) ==
    /\ expire[e].pc # "idle" /\ crashes < MaxCrashes
    /\ crashes' = crashes + 1
    /\ Goto(e, NoExpire)
    /\ UNCHANGED <<table, tags, commit, commits, frontier>>

-----------------------------------------------------------------------------
Init ==
    /\ files = {} /\ entries = <<>> /\ snapshots = <<>> /\ tags = {}
    /\ latestHint = 0 /\ earliestHint = 0
    /\ commit = NoCommit /\ written = 0 /\ published = <<>>
    /\ expire = [e \in Expirers |-> NoExpire]
    /\ crashes = 0 /\ frontier = 0

Expire(e) ==
    \/ ExpireBounds(e) \/ LoadRetained(e) \/ FindRange(e) \/ CleanData(e) \/ StartMeta(e)
    \/ CleanPayloads(e) \/ CleanIndexManifest(e) \/ CleanManifests(e) \/ CleanManifestList(e)
    \/ DeleteSnapshot(e) \/ CommitEarliestHint(e)

Next ==
    \/ StartCommit \/ AbandonCommit \/ Publish \/ CreateTag
    \/ \E e \in Expirers : Expire(e) \/ CrashExpire(e)

Spec == Init /\ [][Next]_vars

-----------------------------------------------------------------------------
(* Properties                                                               *)

\* A snapshot outside the range that is being expired keeps every file a reader
\* of it opens, whatever rollbacks restored and wherever an expirer died
\* (FileStoreCommit::Expire: "Protects files referenced by retained snapshots,
\* including files restored by rollback").
RetainedReadable ==
    \A i \in Ids : i >= frontier => Referenced(snapshots[i]) \subseteq files

\* Snapshots go from the old end only: those from the earliest one found to
\* the newest are all there, the RetainMin newest among them.
RetainedContiguous ==
    Ids # {} =>
        /\ FindEarliest..Max(Ids) = Ids
        /\ \A i \in Max(Ids) - RetainMin + 1..Max(Ids) : i >= 1 => i \in Ids

\* LATEST may lag behind, and the snapshot it names may be gone: FindLatest
\* still finds the newest one as long as not more than RetainMin hints in a row
\* were lost.
LatestFound ==
    Ids # {} /\ Max(Ids) - latestHint <= RetainMin => FindLatest = Max(Ids)

\* "Data files, index manifests and index payloads referenced by retained
\* snapshots or current-branch tags are preserved" (clean.rst).
TagsReadable == \A t \in tags : Referenced(t.snapshot) \subseteq files

\* Data files that a rollback has restored.
Restored ==
    LET deltas == {m \in DOMAIN entries : m[1] = "delta"}
    IN  UNION {entries[m].add \cap entries[n].add : <<m, n>> \in
                    {p \in deltas \X deltas : p[1] # p[2]}}

\* What a tag refers to stays, except for data files a rollback restored.
TagsKept == \A t \in tags : Referenced(t.snapshot) \ Restored \subseteq files

\* Data files that no commit has published.
Unpublished ==
    {f \in files : f[1] = "data" /\ \A m \in DOMAIN entries : f \notin entries[m].add}

\* Expiration is complete, wherever earlier ones died: without tags, a file that
\* is there when nobody is expiring belongs to a snapshot, or was written for a
\* commit that has not published it.  Files are deleted before the ones that
\* name them, so that the next expiration finds what is left.
NothingLeaks ==
    Idle /\ tags = {} =>
        files \subseteq UNION {Referenced(snapshots[i]) : i \in Ids} \cup Unpublished
=============================================================================
