------------------------- MODULE MCFileStoreCommit -------------------------
(***************************************************************************)
(* Small plans for the commit protocol.  Users are "a" and "b", data files *)
(* "f1" to "f5"; "f5" lies in partition "q", the others in "p".            *)
(***************************************************************************)
EXTENDS FileStoreCommit

MCUsers == {"a", "b"}
MCFiles == {"f1", "f2", "f3", "f4", "f5"}
MCPartitions == {"p", "q"}
MCPartition == [f \in MCFiles |-> IF f = "f5" THEN "q" ELSE "p"]

Committable(id, add, del, before, after, index) ==
    [op |-> "commit", identifier |-> id, add |-> add, del |-> del,
     before |-> before, after |-> after, index |-> index, parts |-> {},
     target |-> 0]
AppendOf(id, add) == Committable(id, add, {}, {}, {}, {})
Compact(id, before, after) == Committable(id, {}, {}, before, after, {})
OverwriteOf(id, parts, add) ==
    [AppendOf(id, add) EXCEPT !.op = "overwrite", !.parts = parts]
DropOf(id, parts) == [AppendOf(id, {}) EXCEPT !.op = "drop", !.parts = parts]
RollbackTo(id, target) ==
    [AppendOf(id, {}) EXCEPT !.op = "rollback", !.target = target]

\* A committable with both halves against one with deletion vectors; then both
\* users compact the same file, one of them with an index change.
RacePlan ==
    [a |-> <<Committable(1, {"f1"}, {}, {"f2"}, {"f3"}, {"COMPACT"})>>,
     b |-> <<Committable(1, {"f2"}, {}, {}, {}, {"APPEND", "VECTORS"}),
             Compact(2, {"f2"}, {"f4"})>>]

\* Appends, one with a global index, against an overwrite, a misplaced overwrite
\* and a truncate.
OverwritePlan ==
    [a |-> <<Committable(1, {"f1"}, {}, {}, {}, {"APPEND", "GLOBAL"}),
             AppendOf(2, {"f5"})>>,
     b |-> <<OverwriteOf(1, {"p"}, {"f2"}), OverwriteOf(2, {"q"}, {"f3"}),
             DropOf(3, {})>>]

\* Appends that cannot conflict.
LivePlan ==
    [a |-> <<AppendOf(1, {"f1"})>>,
     b |-> <<Committable(1, {"f3"}, {}, {"f3"}, {"f4"}, {})>>]

\* For the options: an empty commit, a dynamic overwrite without files, and a
\* rollback between the commits of the other user.
OptionsPlan ==
    [a |-> <<AppendOf(1, {"f1"}), AppendOf(2, {})>>,
     b |-> <<OverwriteOf(1, {}, {"f2"}), OverwriteOf(2, {}, {}),
             RollbackTo(3, 1)>>]

\* The user who rolls back appends afterwards.
RollbackThenAppendPlan ==
    [a |-> <<AppendOf(1, {"f1"})>>,
     b |-> <<RollbackTo(1, 1), AppendOf(2, {"f2"})>>]
=============================================================================
