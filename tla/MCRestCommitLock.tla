------------------------- MODULE MCRestCommitLock -------------------------
(***************************************************************************)
(* Model values for the commit lease; writers are interchangeable.         *)
(***************************************************************************)
EXTENDS RestCommitLock, TLC

Symmetry == Permutations(Writers)
=============================================================================
