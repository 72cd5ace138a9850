--------------------------- MODULE MergeTreeLevels ---------------------------
(***************************************************************************)
(* The LSM tree of one bucket of a primary-key table: Levels, the unit that *)
(* UniversalCompaction picks, and what MergeTreeCompactTask with its        *)
(* rewriter makes of it.                                                    *)
(*                                                                         *)
(* A row is [key, seq, add, off]: off is the position of the write in the   *)
(* upstream log, seq the sequence number the writer gave it.  A file is     *)
(* [id, level, rows]; the levels are the set of their files.  A deletion    *)
(* vector entry is [id, key].                                               *)
(*                                                                         *)
(* A file is as large as it has rows where the task compares its size with  *)
(* options.fileSize; a size comparison of the strategy may come out either  *)
(* way.                                                                     *)
(***************************************************************************)
EXTENDS Integers, Sequences, FiniteSets, FiniteSetsExt, SequencesExt

CONSTANTS
    MaxLevel,      \* num-levels - 1
    RunTrigger     \* num-sorted-run.compaction-trigger

ASSUME MaxLevelAssumption == MaxLevel \in Nat \ {0}
ASSUME RunTriggerAssumption == RunTrigger \in Nat \ {0}

-----------------------------------------------------------------------------
(* Files and levels                                                         *)

KeysOf(f) == {r.key : r \in f.rows}
MinKey(f) == Min(KeysOf(f))
MaxKey(f) == Max(KeysOf(f))
MaxSequence(f) == Max({r.seq : r \in f.rows})
ContainsDeleteRecords(f) == \E r \in f.rows : ~r.add

AtLevel(files, l) == {f \in files : f.level = l}

NumberOfSortedRuns(files) ==
    Cardinality(AtLevel(files, 0)) + Cardinality({f.level : f \in files} \ {0})

NonEmptyHighestLevel(files) == Max({f.level : f \in files} \cup {-1})

\* The elements of a set in a strict total order.
SortBy(S, before(_, _)) ==
    [i \in 1..Cardinality(S) |->
       CHOOSE x \in S : Cardinality({y \in S : before(y, x)}) = i - 1]

\* The newer file first; a lone writer gives no two files the same sequence
\* numbers.
Level0Comparator(f, g) == MaxSequence(f) > MaxSequence(g)

\* Level-0 files from the newest to the oldest, each a run; then the levels.
LevelSortedRuns(files) ==
    LET newest == SortBy(AtLevel(files, 0), Level0Comparator)
        level0 == [i \in DOMAIN newest |-> [level |-> 0, files |-> {newest[i]}]]
        levels == [l \in 1..MaxLevel |-> [level |-> l, files |-> AtLevel(files, l)]]
    IN  level0 \o SelectSeq(levels, LAMBDA run : run.files # {})

\* A file is replaced by name within its level, whatever else the metadata says.
UpdateLevels(files, before, after) ==
    {f \in files : \A b \in before : b.id # f.id \/ b.level # f.level} \cup after

-----------------------------------------------------------------------------
(* UniversalCompaction                                                      *)

\* The first count runs go to the level above the next run; never to level 0,
\* for which the unit is extended up to the first run of a higher level.
CreateUnit(runs, count) ==
    LET upper == IF count = Len(runs) THEN MaxLevel ELSE Max({0, runs[count + 1].level - 1})
        higher == {i \in (count + 1)..Len(runs) : runs[i].level # 0}
        n == IF upper # 0 THEN count ELSE IF higher = {} THEN Len(runs) ELSE Min(higher)
    IN  [output |-> IF n = Len(runs) THEN MaxLevel ELSE IF upper # 0 THEN upper ELSE runs[n].level,
         files |-> UNION {runs[i].files : i \in 1..n},
         rewrite |-> FALSE]

\* How many runs PickForSizeAmp, PickForSizeRatio and the file-number rule may
\* take: all of them, those a size ratio admits, or enough to get back to the
\* trigger; ForcePickL0, for tables that look up, at least all of level 0.
PickedCounts(runs, lookup) ==
    LET n == Len(runs)
        level0 == Cardinality({i \in 1..n : runs[i].level = 0})
    IN  (IF n < RunTrigger THEN {} ELSE 2..n) \cup
        (IF lookup /\ level0 > 0 THEN level0..n ELSE {})

Pick(files, lookup) ==
    LET runs == LevelSortedRuns(files)
        units == {CreateUnit(runs, c) : c \in PickedCounts(runs, lookup)}
    IN  {u \in units : u.files # {} /\ (Cardinality(u.files) > 1 \/
                                          \E f \in u.files : f.level # u.output)}

\* Pick finds no unit although there are runs: no size rule fires and there are
\* not too many of them (gentle lookup compaction also waits its interval).
PickDeclines(files) == NumberOfSortedRuns(files) <= RunTrigger

\* PickFullCompaction: everything, unless only the top level is left, whose
\* files are rewritten one by one when they have deletion vectors.
PickFullCompaction(files, dv) ==
    LET deleted == {f \in files : \E d \in dv : d.id = f.id}
    IN  IF files = {} THEN {}
        ELSE IF \E f \in files : f.level # MaxLevel
             THEN {[output |-> MaxLevel, files |-> files, rewrite |-> FALSE]}
        ELSE IF deleted = {} THEN {}
        ELSE {[output |-> MaxLevel, files |-> deleted, rewrite |-> TRUE]}

-----------------------------------------------------------------------------
(* MergeTreeCompactTask                                                     *)

\* IntervalPartition: the files by key, cut where no key range spans the cut.
Sections(files) ==
    LET sorted == SortBy(files, LAMBDA f, g :
                    \/ MinKey(f) < MinKey(g)
                    \/ MinKey(f) = MinKey(g) /\ MaxKey(f) < MaxKey(g)
                    \/ MinKey(f) = MinKey(g) /\ MaxKey(f) = MaxKey(g) /\ f.id < g.id)
        add(sections, f) ==
            IF sections # <<>> /\ \E g \in Last(sections) : MinKey(f) <= MaxKey(g)
            THEN Front(sections) \o <<Last(sections) \cup {f}>>
            ELSE Append(sections, {f})
    IN  FoldLeft(add, <<>>, sorted)

TheFile(section) == CHOOSE f \in section : TRUE

\* GenerateUpgradeStrategy: with deletion vectors no deletion leaves level 0.
RewriteOnUpgrade(f, hasDv) == f.level = 0 /\ hasDv /\ ContainsDeleteRecords(f)

\* Upgrade: a file is moved to the output level unless it has to be rewritten
\* to drop its deletions.
UpgradeJob(f, output, hasDv) ==
    IF (output = MaxLevel /\ ContainsDeleteRecords(f)) \/ RewriteOnUpgrade(f, hasDv)
    THEN <<[files |-> {f}, upgrade |-> FALSE]>>
    ELSE IF f.level # output THEN <<[files |-> {f}, upgrade |-> TRUE]>> ELSE <<>>

\* Rewrite: a lone file is upgraded, anything else is merged.
RewriteJob(candidate, output, hasDv) ==
    IF candidate = <<>> THEN <<>>
    ELSE IF Len(candidate) = 1 /\ Cardinality(candidate[1]) = 1
         THEN UpgradeJob(TheFile(candidate[1]), output, hasDv)
    ELSE <<[files |-> UNION Range(candidate), upgrade |-> FALSE]>>

\* DoCompact: overlapping and small files gather until a large file on its own
\* comes, which is upgraded after them.  FileRewriteCompactTask: one by one.
DoCompact(unit, hasDv, fileSize) ==
    LET step(acc, section) ==
            IF Cardinality(section) > 1 \/ Cardinality(TheFile(section).rows) < fileSize
            THEN [acc EXCEPT !.candidate = Append(@, section)]
            ELSE [candidate |-> <<>>,
                  jobs |-> acc.jobs \o RewriteJob(acc.candidate, unit.output, hasDv)
                             \o UpgradeJob(TheFile(section), unit.output, hasDv)]
        done == FoldLeft(step, [candidate |-> <<>>, jobs |-> <<>>], Sections(unit.files))
    IN  IF unit.rewrite
        THEN [i \in 1..Cardinality(unit.files) |->
                [files |-> {SetToSeq(unit.files)[i]}, upgrade |-> FALSE]]
        ELSE done.jobs \o RewriteJob(done.candidate, unit.output, hasDv)

-----------------------------------------------------------------------------
(* The rewriters                                                            *)

Newest(rows) == {r \in rows : \A s \in rows : s.seq <= r.seq}
IsAdd(rows) == {r \in rows : r.add}

\* What the reader of a file yields for a key: its row, tagged with the level,
\* unless a deletion vector removes it.
LiveRows(files, dv, k) ==
    UNION {{[level |-> f.level, row |-> r] : r \in {r \in f.rows : r.key = k}} :
             f \in {f \in files : [id |-> f.id, key |-> k] \notin dv}}

\* LookupLevels::Lookup: the file of the lowest level from start that has the
\* key.  The lookup file made of a data file leaves out the rows that were
\* deleted when it was made, and stays in the cache.
Lookup(files, seen, k, start) ==
    LET having == {f \in files : f.level >= start /\ k \in KeysOf(f) /\
                                   [id |-> f.id, key |-> k] \notin seen}
    IN  {f \in having : \A g \in having : f.level <= g.level}

\* LookupMergeFunction: among the rows above level 0 only the lowest counts.
HighLevel(rows) ==
    LET high == {t \in rows : t.level > 0}
    IN  {t.row : t \in {t \in high : \A u \in high : t.level <= u.level}}

\* Mutant: a row that had to be looked up is merged but not retracted.
MergeLookupForgetting(levels, seen, output, rows, k) ==
    LET high == HighLevel(rows)
        found == IF high # {} THEN {} ELSE Lookup(levels, seen, k, output + 1)
        before == high \cup {r \in UNION {f.rows : f \in found} : r.key = k}
        level0 == {t.row : t \in {t \in rows : t.level = 0}}
        result == Newest(level0 \cup before)
    IN  [result |-> result, minus |-> IF level0 = {} THEN {} ELSE IsAdd(high),
         plus |-> IF level0 = {} THEN {} ELSE IsAdd(result),
         deleted |-> {[id |-> f.id, key |-> k] : f \in found}]

\* LookupChangelogMergeFunctionWrapper for one key of one job: the row it
\* results in, the row it replaces and the entry it deletes in a higher level.
MergeLookup(levels, seen, output, rows, k) ==
    LET high == HighLevel(rows)
        found == IF high # {} THEN {} ELSE Lookup(levels, seen, k, output + 1)
        before == high \cup {r \in UNION {f.rows : f \in found} : r.key = k}
        level0 == {t.row : t \in {t \in rows : t.level = 0}}
        result == Newest(level0 \cup before)
    IN  [result |-> result,
         minus |-> IF level0 = {} THEN {} ELSE IsAdd(before),
         plus |-> IF level0 = {} THEN {} ELSE IsAdd(result),
         deleted |-> {[id |-> f.id, key |-> k] : f \in found}]

MergeRows(rows) == [result |-> Newest(rows), minus |-> {}, plus |-> {}, deleted |-> {}]

\* One job.  Tables that look up merge level-0 rows with the lookup wrapper.
RunJob(levels, dv, seen, options, unit, drop, job, id) ==
    LET lookup == options.lookup /\ \E f \in job.files : f.level = 0
        merge(k, rows) == IF lookup THEN MergeLookup(levels, seen, unit.output, rows, k)
                          ELSE IF options.lookup THEN MergeRows(HighLevel(rows))
                          ELSE MergeRows({t.row : t \in rows})
        merged == {merge(k, LiveRows(job.files, dv, k)) :
                     k \in {k \in UNION {KeysOf(f) : f \in job.files} :
                              LiveRows(job.files, dv, k) # {}}}
        result == UNION {m.result : m \in merged}
        written == IF drop THEN IsAdd(result) ELSE result
    IN  [before |-> job.files,
         after |-> IF job.upgrade THEN {[f EXCEPT !.level = unit.output] : f \in job.files}
                   ELSE IF written = {} THEN {}
                   ELSE {[id |-> id, level |-> unit.output, rows |-> written]},
         removed |-> IF job.upgrade THEN {} ELSE {f.id : f \in job.files},
         deleted |-> IF options.dv THEN UNION {m.deleted : m \in merged} ELSE {},
         minus |-> UNION {m.minus : m \in merged},
         plus |-> UNION {m.plus : m \in merged}]

\* CompactResult: the jobs of a unit merged in order.
CompactResult(levels, dv, seen, options, unit, drop, id) ==
    LET jobs == DoCompact(unit, options.dv, options.fileSize)
        results == {RunJob(levels, dv, seen, options, unit, drop, jobs[i], id + i - 1) :
                      i \in DOMAIN jobs}
        all(field) == UNION {r[field] : r \in results}
    IN  [before |-> all("before"), after |-> all("after"), removed |-> all("removed"),
         deleted |-> all("deleted"), minus |-> all("minus"), plus |-> all("plus"),
         jobs |-> Len(jobs)]

==============================================================================
