--------------------------- MODULE AppendCoordinator ---------------------------
(***************************************************************************)
(* Append tables without buckets: AppendCompactCoordinator::Run plans and   *)
(* rewrites small files beside the writer of AppendTable and beside other   *)
(* coordinators, and its caller commits the messages it returns.            *)
(***************************************************************************)
EXTENDS AppendTable

CONSTANTS
    Coordinators,   \* processes that run the coordinator
    MaxRuns         \* bound: runs of all coordinators together

VARIABLES
    coords,   \* [pc, todo: the groups to rewrite, before, after]
    runs      \* how many runs were started

coordVars == <<coords, runs>>
allVars == <<vars, coordVars>>

NotRunning == [pc |-> "idle", todo |-> <<>>, before |-> {}, after |-> {}]

CoordInit == Init /\ coords = [c \in Coordinators |-> NotRunning] /\ runs = 0

\* ScanSmallFiles: the small files of the latest snapshot.
ScanSmallFiles(files) == {f \in files : IsSmall(f)}

BinSize(bin) == Size(bin) + options.openFileCost * Len(bin)

\* Mutant: a full bin is handed out and goes on filling.
AddFileTwice(packed, file) ==
    LET bin == Append(packed.bin, file)
    IN  IF Len(bin) > 1 /\ BinSize(bin) >= TargetSize * 2
        THEN [groups |-> Append(packed.groups, bin), bin |-> bin]
        ELSE [packed EXCEPT !.bin = bin]

\* FileBin: a bin with enough content is drained.
AddFile(packed, file) ==
    LET bin == Append(packed.bin, file)
    IN  IF Len(bin) > 1 /\ BinSize(bin) >= TargetSize * 2
        THEN [groups |-> Append(packed.groups, bin), bin |-> <<>>]
        ELSE [packed EXCEPT !.bin = bin]

\* PackFiles, for the files in the order of their sizes; the last bin counts
\* only with enough files, and one is enough if minFileNum says so.
PackFiles(files) ==
    LET packed == FoldLeft(AddFile, [groups |-> <<>>, bin |-> <<>>], files)
    IN  IF Len(packed.bin) >= options.minFileNum THEN Append(packed.groups, packed.bin)
        ELSE packed.groups

\* std::sort leaves files of one size in any order.
BySize(files) ==
    {s \in SetToSeqs(files) : \A i \in 1..(Len(s) - 1) : Len(s[i].rows) <= Len(s[i + 1].rows)}

\* Run, up to the tasks; with nothing to do it returns.
StartRun(c) ==
    /\ coords[c].pc = "idle" /\ runs < MaxRuns /\ ~options.bucketed
    /\ \E sorted \in BySize(ScanSmallFiles(table.files)) :
         /\ PackFiles(sorted) # <<>>
         /\ coords' = [coords EXCEPT ![c] = [NotRunning EXCEPT !.pc = "rewrite",
                                                               !.todo = PackFiles(sorted)]]
    /\ runs' = runs + 1
    /\ UNCHANGED vars

\* AppendCompactTask::DoCompact for the next group.
DoCompact(c) ==
    LET group == Head(coords[c].todo)
        after == CompactRewrite(group, used.id)
    IN  /\ coords[c].pc = "rewrite" /\ coords[c].todo # <<>> /\ Len(group) > 1
        /\ coords' = [coords EXCEPT ![c].todo = Tail(@), ![c].before = @ \cup Range(group),
                                    ![c].after = @ \cup Range(after)]
        /\ storage' = storage \cup Ids(Range(after))
        /\ used' = [used EXCEPT !.id = @ + Len(after)]
        /\ UNCHANGED <<options, log, table, messages, writer, task, op, runs>>

\* A task of a single file is refused and Run returns the error; what it has
\* rewritten for other groups stays behind.
RefuseTask(c) ==
    /\ coords[c].pc = "rewrite" /\ coords[c].todo # <<>>
    /\ Len(Head(coords[c].todo)) <= 1
    /\ coords' = [coords EXCEPT ![c] = NotRunning]
    /\ UNCHANGED <<vars, runs>>

\* The caller commits what Run returned; a refused commit is given up.
CommitRun(c) ==
    /\ coords[c].pc = "rewrite" /\ coords[c].todo = <<>>
    /\ op.pc = "idle"
    /\ table' = IF CheckConflicts(table.files, coords[c].before, coords[c].after)
                THEN [table EXCEPT !.files = (@ \ coords[c].before) \cup coords[c].after]
                ELSE table
    /\ coords' = [coords EXCEPT ![c] = NotRunning]
    /\ UNCHANGED <<options, log, messages, storage, writer, task, op, used, runs>>

\* A run fails, or its process crashes.
AbandonRun(c) ==
    /\ coords[c].pc = "rewrite" /\ used.faults < MaxFaults
    /\ coords' = [coords EXCEPT ![c] = NotRunning]
    /\ used' = [used EXCEPT !.faults = @ + 1]
    /\ UNCHANGED <<options, log, table, messages, storage, writer, task, op, runs>>

CoordNext ==
    \/ Next /\ UNCHANGED coordVars
    \/ \E c \in Coordinators :
         \/ StartRun(c) \/ DoCompact(c) \/ RefuseTask(c) \/ CommitRun(c)
         \/ AbandonRun(c)

CoordSpec == CoordInit /\ [][CoordNext]_allVars

-----------------------------------------------------------------------------

\* PackFiles: no run rewrites a file twice, in two of its groups or in one that
\* it has rewritten already, and it asks for a task that DoCompact refuses only
\* if compaction.min.file-num is 1 or less.
GroupsArePartition ==
    \A c \in Coordinators :
      LET todo == coords[c].todo IN
      /\ options.minFileNum > 1 => \A i \in DOMAIN todo : Len(todo[i]) > 1
      /\ \A i, j \in DOMAIN todo : i # j => Range(todo[i]) \cap Range(todo[j]) = {}
      /\ \A i \in DOMAIN todo : Range(todo[i]) \cap coords[c].before = {}

==============================================================================
