--------------------------- MODULE MCMaintenance ---------------------------
(***************************************************************************)
(* Commits, rollbacks, tags, expirers and the orphan cleaner together.     *)
(***************************************************************************)
EXTENDS OrphanFilesCleaner

Symmetry == Permutations(Expirers)

Busy == {e \in Expirers : expire[e].pc # "idle"}

\* Bounds the search: two expirers at a time, or two of a tag, a crash, another
\* crash and the cleaner; all the snapshots only without the cleaner.
Focus ==
    /\ Cardinality(Busy) = 2 => tags = {} /\ crashes = 0 /\ clean.pc = "idle"
    /\ crashes + Cardinality(tags) + (IF clean.pc = "idle" THEN 0 ELSE 1) <= 2
    /\ clean.pc # "idle" \/ Cardinality(Busy) = 2 => MaxSnapshot \notin Ids
=============================================================================
