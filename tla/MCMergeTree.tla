----------------------------- MODULE MCMergeTree -----------------------------
(* MergeTreeWriter for TLC.                                                 *)
EXTENDS MergeTreeWriter

Option(lookup, dv, lazy, fileSize, wait, effort) ==
    [lookup |-> lookup, dv |-> dv, lazy |-> lazy, fileSize |-> fileSize, wait |-> wait,
     effort |-> effort]

\* A call that need not wait may still find the compaction finished, so waiting
\* calls matter only where the options ask for them.
MCOptionSets ==
    {Option(FALSE, FALSE, FALSE, 2, {FALSE}, 5), Option(TRUE, FALSE, FALSE, 1, {FALSE}, 4),
     Option(TRUE, TRUE, FALSE, 1, {FALSE}, 4), Option(TRUE, TRUE, TRUE, 2, {TRUE}, 4)}

MCEvents == {[key |-> 1, add |-> TRUE], [key |-> 1, add |-> FALSE], [key |-> 2, add |-> TRUE]}

\* Deletion vectors and the lookup changelog producer.
MCStaleOptions == {Option(TRUE, TRUE, FALSE, 1, {TRUE}, 6)}

\* One key, inserted and updated.
MCUpdates == {[key |-> 1, add |-> TRUE]}

\* Lazy deletion files with a caller that does not wait.
MCLazyOptions == {Option(TRUE, TRUE, TRUE, 1, {FALSE}, 6)}
==============================================================================
