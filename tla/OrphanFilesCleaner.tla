------------------------- MODULE OrphanFilesCleaner -------------------------
(***************************************************************************)
(* The orphan file cleaner (OrphanFilesCleanerImpl::Clean) running beside  *)
(* the commits, rollbacks and expirations of SnapshotExpiration.           *)
(*                                                                         *)
(* Only differences of time matter: the files the cleaner may delete are   *)
(* those older than older_than_ms when it starts.  A commit is assumed to  *)
(* publish its files before they get that old; everything else that is     *)
(* there at the start counts as old, the worst case.                       *)
(***************************************************************************)
EXTENDS SnapshotExpiration

CONSTANT
    ExpireWhileCleaning \* TRUE: expirations may run beside the cleaner

VARIABLE
    clean \* the Clean call

cleanVars == <<vars, clean>>

NoClean == [pc |-> "idle", old |-> {}, todo |-> <<>>, used |-> {}, doomed |-> {}]

\* The data file of the commit in flight.
InFlight == {f \in {Data(written)} : commit.kind \in {"append", "compact"}}

\* Clean refuses a table with tags, then starts listing its directories.
StartClean ==
    /\ clean.pc = "idle" /\ tags = {}
    /\ Idle \/ ExpireWhileCleaning
    /\ clean' = [NoClean EXCEPT !.pc = "list",
                    !.old = files \ InFlight]
    /\ UNCHANGED vars

\* GetAllSnapshots.
ListSnapshots ==
    /\ clean.pc = "list"
    /\ clean' = [clean EXCEPT !.pc = "used", !.todo = snapshots]
    /\ UNCHANGED vars

\* GetUsedFilesBySnapshot: what the lists and manifests that are still there
\* mention, deletions included.
UsedFiles(s) ==
    LET manifests == {m \in DataManifests(s) : s.list \in files}
    IN  {s.list} \cup IndexManifest(s) \cup {f \in Payloads(s.index) : s.index \in files}
            \cup manifests
            \cup UNION {entries[m].add \cup entries[m].del : m \in manifests \cap files}

\* GetUsedFiles works off the snapshots in any order.
CollectUsed ==
    /\ clean.pc = "used"
    /\ \E i \in DOMAIN clean.todo :
        clean' = [clean EXCEPT !.used = @ \cup UsedFiles(clean.todo[i]),
                    !.todo = [j \in DOMAIN clean.todo \ {i} |-> clean.todo[j]]]
    /\ UNCHANGED vars

\* The files listed that are old and unused.
FindOrphans ==
    /\ clean.pc = "used" /\ DOMAIN clean.todo = {}
    /\ clean' = [NoClean EXCEPT !.pc = "delete", !.doomed = clean.old \ clean.used]
    /\ UNCHANGED vars

DeleteOrphan ==
    /\ clean.pc = "delete"
    /\ \E f \in clean.doomed :
        /\ files' = files \ {f}
        /\ clean' = [clean EXCEPT !.doomed = @ \ {f}]
    /\ UNCHANGED <<entries, snapshots, latestHint, earliestHint, tags, commit, commits,
                   expire, crashes, frontier>>

FinishClean ==
    /\ clean.pc = "delete" /\ clean.doomed = {}
    /\ clean' = NoClean
    /\ UNCHANGED vars

CrashClean ==
    /\ clean.pc # "idle" /\ crashes < MaxCrashes
    /\ crashes' = crashes + 1
    /\ clean' = NoClean
    /\ UNCHANGED <<table, tags, commit, commits, expire, frontier>>

\* The actions of SnapshotExpiration; tags are not created while the cleaner
\* runs.
TableStep ==
    /\ Next
    /\ clean.pc # "idle" => tags' = tags /\ (Idle' \/ ExpireWhileCleaning)
    /\ UNCHANGED clean

CleanInit == Init /\ clean = NoClean

CleanNext ==
    \/ TableStep
    \/ StartClean \/ ListSnapshots \/ CollectUsed \/ FindOrphans \/ DeleteOrphan
    \/ FinishClean \/ CrashClean

CleanSpec == CleanInit /\ [][CleanNext]_cleanVars

=============================================================================
