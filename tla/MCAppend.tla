------------------------------- MODULE MCAppend -------------------------------
(* Append tables with and without buckets, for TLC.                          *)
EXTENDS AppendCoordinator

Bucketed(minFileNum, force, wait, effort) ==
    [bucketed |-> TRUE, minFileNum |-> minFileNum, force |-> force, openFileCost |-> 0,
     wait |-> wait, effort |-> effort]

Unaware(minFileNum, openFileCost, effort) ==
    [Bucketed(minFileNum, FALSE, {FALSE}, effort) EXCEPT !.bucketed = FALSE, !.openFileCost = openFileCost]

MCOptionSets ==
    {Bucketed(2, FALSE, {FALSE}, 6), Bucketed(3, FALSE, {TRUE}, 6), Bucketed(3, TRUE, {FALSE}, 6),
     Unaware(1, 0, 5), Unaware(2, 1, 8)}

\* A bucket whose small files are compacted two at a time.
MCEagerOptions == {Bucketed(2, FALSE, {FALSE}, 8)}

MCBatchSizes == {1, 2}

\* Coordinators are interchangeable.
Symmetry == Permutations(Coordinators)
==============================================================================
