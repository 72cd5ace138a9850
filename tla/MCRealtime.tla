----------------------------- MODULE MCRealtime -----------------------------
(* RealtimeTable on a small instance.                                       *)
EXTENDS RealtimeTable, TLC

\* Keys are interchangeable.
KeySymmetry == Permutations(Keys)
\* Compactions, scans and faults so far.
Extras == count.compactions + count.scans + count.faults

\* A finished scan is checked and not followed further: nothing depends on it.
\* Three events are explored in a deduplicate table, with one extra, when the
\* first adds a key and the second changes it.
Focus ==
    /\ scan.pc # "done"
    /\ Extras <= 2
    /\ Len(log) > 2 => /\ mode = "dedup" /\ Extras <= 1
                       /\ log[1].add /\ log[2].key = log[1].key

==============================================================================
