------------------------------ MODULE StreamScan ------------------------------
(***************************************************************************)
(* A reader of a table that is being written and expired: the streaming    *)
(* scan DataTableStreamScan with its starting and follow-up scanners, and  *)
(* the batch scan DataTableBatchScan, which uses the starting scanners     *)
(* only.  A call of CreatePlan reads the snapshot directory file by file;  *)
(* commits and expiration go on between the reads.                         *)
(*                                                                         *)
(* A snapshot is [time, kind, changelog, empty]: its commit kind, whether  *)
(* it has a changelog, and whether its delta (or changelog) has no split.  *)
(* Snapshot i is snaps[i] for ever; its file exists while first <= i, and  *)
(* its manifests while meta <= i (see SnapshotExpiration).                 *)
(***************************************************************************)
EXTENDS Integers, Sequences, FiniteSets, FiniteSetsExt

CONSTANTS
    Scans,         \* the scans, [streaming, mode, arg, changelog, commits]: how the table
                   \* is read, and the snapshots that its writers may commit
    SteadyClocks,  \* TRUE: no committer's clock is behind that of an earlier commit
    MaxSnapshots,  \* bound: snapshots
    MaxFaults      \* bound: failed reads

ASSUME ScansAssumption ==
    \A s \in Scans : /\ s.streaming \in BOOLEAN /\ s.arg \in Nat
                     /\ \A c \in s.commits : c.time \in Int

ASSUME ClocksAssumption == SteadyClocks \in BOOLEAN

VARIABLES
    snaps, first, meta,   \* the table
    scan,      \* what was asked for; constant
    created,   \* starting_scanner_ is there
    start,     \* starting_snapshot_id_
    next,      \* next_snapshot_id_
    hasNext,   \* has_next_ of a batch scan
    pc,        \* where CreatePlan is
    local,     \* its local variables
    status,    \* what the last call returned
    plans,     \* the plans returned so far: a full one, then deltas, from origin on;
               \* known: the latest snapshot at the first call
    faults

table == <<snaps, first, meta>>
reader == <<created, start, next, hasNext>>
call == <<pc, local, status>>
vars == <<table, scan, reader, call, plans, faults>>

None == 0

NoLocal == [lo |-> 0, hi |-> 0, found |-> None, id |-> None]

Init ==
    /\ snaps = <<>> /\ first = 1 /\ meta = 1
    /\ scan \in Scans
    /\ created = FALSE /\ start = None /\ next = None /\ hasNext = TRUE
    /\ pc = "idle" /\ local = NoLocal
    /\ status = "none"
    /\ plans = [full |-> None, deltas |-> {}, origin |-> None, known |-> -1]
    /\ faults = 0

-----------------------------------------------------------------------------
(* The table                                                                *)

LatestSnapshotId == Len(snaps)
EarliestSnapshotId == IF snaps = <<>> THEN None ELSE first
SnapshotExists(i) == i \in first..Len(snaps)

\* A commit, stamped with the wall clock of its process.
Publish(c) ==
    /\ Len(snaps) < MaxSnapshots
    /\ SteadyClocks /\ snaps # <<>> => snaps[Len(snaps)].time <= c.time
    /\ snaps' = Append(snaps, c)
    /\ UNCHANGED <<first, meta, scan, reader, call, plans, faults>>

\* Expiration takes the snapshots one by one: first the manifests of one, then
\* its file.  The latest is retained.
ExpireManifests ==
    /\ first = meta /\ meta < Len(snaps)
    /\ meta' = meta + 1
    /\ UNCHANGED <<snaps, first, scan, reader, call, plans, faults>>

ExpireSnapshot ==
    /\ first < meta
    /\ first' = first + 1
    /\ UNCHANGED <<snaps, meta, scan, reader, call, plans, faults>>

-----------------------------------------------------------------------------
(* CreatePlan                                                               *)

FirstId == 1

Return(result) == pc' = "idle" /\ status' = result /\ local' = NoLocal
Goto(label, l) == pc' = label /\ local' = l /\ UNCHANGED status

\* Where a call starts: in a scanner's constructor, in its Scan, or with the
\* snapshots after it.
Entry ==
    IF created THEN (IF next = None THEN "start" ELSE "exists")
    ELSE CASE scan.mode = "latest" /\ scan.streaming -> "create"
           [] scan.mode = "time" -> "search"
           [] OTHER -> "start"

\* A batch scan plans once, whatever became of it.
CreatePlan ==
    /\ pc = "idle"
    /\ IF hasNext \/ scan.streaming
       THEN /\ Goto(Entry, NoLocal)
            /\ created' = (Entry \notin {"create", "search"})
            /\ start' = IF ~created /\ scan.mode \in {"id", "id_full"} THEN scan.arg ELSE start
       ELSE Return("end of scan") /\ UNCHANGED <<created, start>>
    /\ plans' = [plans EXCEPT !.known = IF @ = -1 THEN Len(snaps) ELSE @]
    /\ UNCHANGED <<table, scan, next, hasNext, faults>>

\* Any read may fail; the call returns the error and the scan keeps its state.
IoError ==
    /\ pc # "idle" /\ faults < MaxFaults
    /\ faults' = faults + 1
    /\ Return("io error")
    /\ hasNext' = (hasNext /\ ~created)
    /\ UNCHANGED <<table, scan, created, start, next, plans>>

-----------------------------------------------------------------------------
(* Creating the starting scanner                                            *)

\* ContinuousLatestStartingScanner::Create
CreateLatest ==
    /\ pc = "create"
    /\ start' = LatestSnapshotId
    /\ created' = TRUE
    /\ Goto("start", local)
    /\ UNCHANGED <<table, scan, next, hasNext, plans, faults>>

\* Mutant: a snapshot of the very time counts as earlier for a stream too.
EarlierOrEqual(s) == s.time <= scan.arg

\* EarlierThanTimeMillis for a stream, EarlierOrEqualTimeMillis for a batch.
Earlier(s) == IF scan.streaming THEN s.time < scan.arg ELSE s.time <= scan.arg

\* A stream starts after the snapshot that was found, a batch reads it.
Found(id) ==
    IF id = None /\ ~scan.streaming
    THEN Return("no snapshot") /\ UNCHANGED <<created, start>>
    ELSE /\ start' = IF ~scan.streaming THEN id ELSE IF id = None THEN FirstId ELSE id + 1
         /\ created' = TRUE
         /\ Goto("start", NoLocal)

\* FindSnapshotBeforeTimestamp reads the latest id, the earliest id, the
\* earliest snapshot, and then bisects.
SearchLatest ==
    /\ pc = "search"
    /\ IF LatestSnapshotId = None THEN Found(None)
       ELSE /\ Goto("earliest", [local EXCEPT !.hi = LatestSnapshotId])
            /\ UNCHANGED <<created, start>>
    /\ UNCHANGED <<table, scan, next, hasNext, plans, faults>>

SearchEarliest ==
    /\ pc = "earliest"
    /\ Goto("probe", [local EXCEPT !.lo = EarliestSnapshotId])
    /\ UNCHANGED <<table, scan, reader, plans, faults>>

ProbeEarliest ==
    /\ pc = "probe"
    /\ IF ~SnapshotExists(local.lo) THEN Return("missing") /\ UNCHANGED <<created, start>>
       ELSE IF ~Earlier(snaps[local.lo]) THEN Found(None)
       ELSE Goto("bisect", local) /\ UNCHANGED <<created, start>>
    /\ UNCHANGED <<table, scan, next, hasNext, plans, faults>>

Bisect ==
    LET mid == local.lo + (local.hi - local.lo) \div 2
    IN  /\ pc = "bisect" /\ local.lo <= local.hi
        /\ IF ~SnapshotExists(mid) THEN Return("missing")
           ELSE Goto("bisect", IF Earlier(snaps[mid])
                               THEN [local EXCEPT !.lo = mid + 1, !.found = mid]
                               ELSE [local EXCEPT !.hi = mid - 1])
        /\ UNCHANGED <<table, scan, reader, plans, faults>>

EndSearch ==
    /\ pc = "bisect" /\ local.lo > local.hi
    /\ Found(local.found)
    /\ UNCHANGED <<table, scan, next, hasNext, plans, faults>>

-----------------------------------------------------------------------------
(* StartingScanner::Scan                                                    *)

Follow(id) == next' = id /\ plans' = [plans EXCEPT !.origin = id]

\* FullStartingScanner, which remembers the latest snapshot it found once.
FullStart ==
    LET id == IF start = None THEN LatestSnapshotId ELSE start
    IN  /\ pc = "start" /\ (scan.mode = "full" \/ (scan.mode = "latest" /\ ~scan.streaming))
        /\ IF id = None THEN Return("empty") ELSE Goto("load", [local EXCEPT !.id = id])
        /\ start' = id
        /\ hasNext' = FALSE
        /\ UNCHANGED <<table, scan, created, next, plans, faults>>

\* ContinuousLatestStartingScanner: after the latest snapshot, or from the first
\* one if there was none when the scanner was created.
LatestStart ==
    /\ pc = "start" /\ scan.mode = "latest" /\ scan.streaming
    /\ Return("empty")
    /\ IF LatestSnapshotId = None THEN UNCHANGED <<next, plans>>
       ELSE Follow(IF start = None THEN FirstId ELSE LatestSnapshotId + 1)
    /\ UNCHANGED <<table, scan, created, start, hasNext, faults>>

\* ContinuousFromSnapshotStartingScanner
FromSnapshotStart ==
    /\ pc = "start" /\ scan.streaming /\ scan.mode \in {"id", "time"}
    /\ Return("empty")
    /\ IF EarliestSnapshotId = None THEN UNCHANGED <<next, plans>>
       ELSE Follow(Max({start, EarliestSnapshotId}))
    /\ UNCHANGED <<table, scan, created, start, hasNext, faults>>

\* ContinuousFromSnapshotFullStartingScanner
FromSnapshotFullStart ==
    /\ pc = "start" /\ scan.streaming /\ scan.mode = "id_full"
    /\ IF EarliestSnapshotId = None THEN Return("empty")
       ELSE Goto("load", [local EXCEPT !.id = Max({start, EarliestSnapshotId})])
    /\ UNCHANGED <<table, scan, reader, plans, faults>>

\* StaticFromSnapshotStartingScanner reads the earliest and then the latest id.
StaticStart ==
    /\ pc = "start" /\ ~scan.streaming /\ scan.mode \in {"id", "id_full", "time"}
    /\ Goto("range", [local EXCEPT !.lo = EarliestSnapshotId, !.id = start])
    /\ hasNext' = FALSE
    /\ UNCHANGED <<table, scan, created, start, next, plans, faults>>

StaticRange ==
    /\ pc = "range"
    /\ IF local.lo # None /\ start \in local.lo..LatestSnapshotId THEN Goto("load", local)
       ELSE Return("out of range")
    /\ UNCHANGED <<table, scan, reader, plans, faults>>

LoadStart ==
    /\ pc = "load"
    /\ IF SnapshotExists(local.id) THEN Goto("read", local) ELSE Return("missing")
    /\ UNCHANGED <<table, scan, reader, plans, faults>>

\* The full plan is made of the manifests of the snapshot.
ReadStart ==
    /\ pc = "read"
    /\ IF local.id < meta THEN Return("missing") /\ UNCHANGED <<next, plans>>
       ELSE /\ Return("plan")
            /\ next' = local.id + 1
            /\ plans' = [plans EXCEPT !.full = local.id, !.origin = local.id + 1]
    /\ UNCHANGED <<table, scan, created, start, hasNext, faults>>

-----------------------------------------------------------------------------
(* NextPlan                                                                 *)

CheckExists ==
    /\ pc = "exists"
    /\ Goto(IF SnapshotExists(next) THEN "load_next" ELSE "next_earliest", local)
    /\ UNCHANGED <<table, scan, reader, plans, faults>>

\* DeltaFollowUpScanner, ChangelogFollowUpScanner
NeedScanSnapshot(s) == IF scan.changelog THEN s.changelog ELSE s.kind = "APPEND"

\* Mutant: a snapshot that is not needed is looked at again.
LoadNextAgain ==
    /\ pc = "load_next"
    /\ IF ~SnapshotExists(next) THEN Return("missing")
       ELSE Goto(IF NeedScanSnapshot(snaps[next]) THEN "read_next" ELSE "exists", local)
    /\ UNCHANGED <<table, scan, reader, plans, faults>>

LoadNext ==
    /\ pc = "load_next"
    /\ IF ~SnapshotExists(next) THEN Return("missing") /\ UNCHANGED next
       ELSE IF NeedScanSnapshot(snaps[next]) THEN Goto("read_next", local) /\ UNCHANGED next
       ELSE Goto("exists", local) /\ next' = next + 1
    /\ UNCHANGED <<table, scan, created, start, hasNext, plans, faults>>

\* Mutant: the reader moves on before it has the plan.
ReadNextAdvancing ==
    /\ pc = "read_next"
    /\ next' = next + 1
    /\ IF next < meta THEN Return("missing") /\ UNCHANGED plans
       ELSE IF snaps[next].empty THEN Goto("exists", local) /\ UNCHANGED plans
       ELSE Return("plan") /\ plans' = [plans EXCEPT !.deltas = @ \cup {next}]
    /\ UNCHANGED <<table, scan, created, start, hasNext, faults>>

\* The follow-up scanner's plan; an empty one is skipped.
ReadNext ==
    /\ pc = "read_next"
    /\ IF next < meta THEN Return("missing") /\ UNCHANGED <<next, plans>>
       ELSE /\ next' = next + 1
            /\ IF snaps[next].empty THEN Goto("exists", local) /\ UNCHANGED plans
               ELSE Return("plan") /\ plans' = [plans EXCEPT !.deltas = @ \cup {next}]
    /\ UNCHANGED <<table, scan, created, start, hasNext, faults>>

\* GetNextSnapshot: the snapshot is not there; earliest and latest tell why.
NextEarliest ==
    /\ pc = "next_earliest"
    /\ Goto("next_latest", [local EXCEPT !.lo = EarliestSnapshotId])
    /\ UNCHANGED <<table, scan, reader, plans, faults>>

\* Mutant: the snapshot after the latest one is taken for too big.
BeyondLatest == next > LatestSnapshotId

TooBig == next > LatestSnapshotId + 1

NextLatest ==
    /\ pc = "next_latest"
    /\ Return(IF local.lo > next THEN "expired" ELSE IF TooBig THEN "too big" ELSE "empty")
    /\ UNCHANGED <<table, scan, reader, plans, faults>>

-----------------------------------------------------------------------------

Reader ==
    \/ CreateLatest \/ SearchLatest \/ SearchEarliest \/ ProbeEarliest \/ Bisect \/ EndSearch
    \/ FullStart \/ LatestStart \/ FromSnapshotStart \/ FromSnapshotFullStart
    \/ StaticStart \/ StaticRange \/ LoadStart \/ ReadStart
    \/ CheckExists \/ LoadNext \/ ReadNext \/ NextEarliest \/ NextLatest

Next ==
    \/ \E c \in scan.commits : Publish(c)
    \/ ExpireManifests
    \/ ExpireSnapshot
    \/ CreatePlan
    \/ Reader
    \/ IoError

Spec == Init /\ [][Next]_vars

\* The caller polls and its calls are not suspended for ever; commits,
\* expiration and failures are up to others.
FairSpec == Spec /\ WF_vars(CreatePlan) /\ WF_vars(Reader)

-----------------------------------------------------------------------------
(* Properties                                                               *)

TypeOK ==
    /\ first \in Nat \ {0} /\ meta \in Nat /\ first <= meta
    /\ next \in Nat /\ start \in Nat
    /\ plans.origin = None <=> next = None

\* The reader is exact: the plans it has returned are one full snapshot, if it
\* started with one, and then each snapshot after it that has something to read,
\* once, with no gap up to next_snapshot_id_, whatever was committed, expired or
\* failed between two reads or two calls.
Wanted(i) == NeedScanSnapshot(snaps[i]) /\ ~snaps[i].empty

DeliveredExactly ==
    next # None =>
      /\ plans.full # None => plans.origin = plans.full + 1
      /\ plans.deltas = {i \in plans.origin..(next - 1) : i <= Len(snaps) /\ Wanted(i)}

\* A scan starts where its startup mode says, judged by the snapshots there were
\* when it was created: a stream from a timestamp skips exactly the snapshots
\* before it and those that have expired, a batch reads the last one at or before
\* it, a stream from the latest repeats nothing, and misses nothing of a table
\* that was empty.
StartsWhereAsked ==
    next # None =>
      LET old == 1..plans.known
      IN  /\ scan.mode = "time" /\ scan.streaming =>
               \A i \in old : IF i < plans.origin THEN snaps[i].time < scan.arg \/ i < first
                              ELSE snaps[i].time >= scan.arg
          /\ scan.mode = "time" /\ ~scan.streaming =>
               /\ snaps[plans.full].time <= scan.arg
               /\ \A i \in old : i > plans.full => snaps[i].time > scan.arg
          /\ scan.mode = "latest" /\ scan.streaming =>
               plans.origin = 1 \/ plans.origin > plans.known
          /\ scan.mode = "latest" /\ scan.streaming /\ start = None => plans.origin = 1
          /\ plans.full # None /\ scan.mode \in {"full", "latest"} => plans.full >= plans.known
          /\ plans.full # None /\ scan.mode \in {"id", "id_full"} =>
               plans.full = scan.arg \/ (scan.streaming /\ scan.arg < first)

\* A stream is given up for a reason: the snapshot it needs really has expired,
\* or was asked for before it existed.
ErrorsAreTrue ==
    [][pc # "idle" /\ pc' = "idle" =>
         /\ status' = "expired" => next < first
         /\ status' = "too big" => scan.mode = "id" /\ next = scan.arg /\ next > Len(snaps) + 1]_vars

\* A stream that is polled keeps up: it moves past every snapshot unless its
\* caller learns of an error other than a failed read.
CatchesUp ==
    \A i \in 1..MaxSnapshots :
      (scan.streaming /\ i <= Len(snaps)) ~>
        (next > i \/ status \in {"expired", "too big", "missing"})

==============================================================================
