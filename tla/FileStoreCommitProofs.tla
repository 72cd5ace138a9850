---------------------- MODULE FileStoreCommitProofs -------------------------
(***************************************************************************)
(* The theorems about the commit protocol, for every plan and number of    *)
(* users.                                                                  *)
(***************************************************************************)
EXTENDS FileStoreCommitTypes, FileStoreCommitHistory, FileStoreCommitFiles,
        FiniteSetTheorems

USE Zenon

-----------------------------------------------------------------------------
(* Types                                                                    *)

\* Files are finitely many.
LEMMA CountingHolds == Counting
  <1>1. ASSUME NEW S \in SUBSET Files PROVE Cardinality(S) \in Nat
    BY PlanAssumption, FS_Subset, FS_CardinalityType
  <1>2. \A L, A, D \in SUBSET Files :
            D \subseteq L /\ A \cap L = {}
            => Cardinality((L \ D) \cup A)
                    = Cardinality(L) + Cardinality(A) - Cardinality(D)
    <2> TAKE L, A, D \in SUBSET Files
    <2> HAVE D \subseteq L /\ A \cap L = {}
    <2>1. IsFiniteSet(L) /\ IsFiniteSet(A) /\ IsFiniteSet(D) /\ IsFiniteSet(L \ D)
      <3>1. L \ D \in SUBSET Files /\ D \in SUBSET Files
        OBVIOUS
      <3> QED BY <3>1, PlanAssumption, FS_Subset
    <2>2. Cardinality(L \ D) = Cardinality(L) - Cardinality(L \cap D)
      BY <2>1, FS_Difference
    <2>3. L \cap D = D /\ (L \ D) \cap A = {}
      OBVIOUS
    <2>4. Cardinality((L \ D) \cup A)
            = Cardinality(L \ D) + Cardinality(A) - Cardinality((L \ D) \cap A)
      BY <2>1, FS_Union
    <2>5. Cardinality({}) = 0
      BY FS_EmptySet
    <2>6. /\ Cardinality(L) \in Nat /\ Cardinality(A) \in Nat
          /\ Cardinality(D) \in Nat /\ Cardinality(L \ D) \in Nat
      BY <2>1, FS_CardinalityType
    <2>7. /\ Cardinality(L \cap D) = Cardinality(D)
          /\ Cardinality((L \ D) \cap A) = 0
      BY <2>3, <2>5
    <2> QED BY <2>2, <2>4, <2>6, <2>7, SMT
  <1>3. Cardinality({}) = 0
    BY FS_EmptySet
  <1>4. ASSUME NEW n \in Nat PROVE Cardinality(1..n) = n
    BY FS_Interval, SMT
  <1> QED BY <1>1, <1>2, <1>3, <1>4 DEF Counting

\* Every variable keeps its type, whatever the plan, the number of users and
\* the faults; a call in progress stays inside its plan.
THEOREM TypeCorrect == Spec => []TypeOK
  <1>1. Init => TypeInv
    BY TypeInvInit
  <1>2. TypeInv /\ [Next]_vars => TypeInv'
    BY CountingHolds, TypeInvNext
  <1>3. TypeInv => TypeOK
    BY DEF TypeInv
  <1> QED BY <1>1, <1>2, <1>3, PTL DEF Spec

-----------------------------------------------------------------------------
(* The chain of snapshots                                                   *)

\* The chain gives the invariants that the runs check.
LEMMA ChainInvImplies ==
    ASSUME TypeInv, ChainInv
    PROVE  SnapshotChain /\ FindLatestIsLatest
  <1>1. DOMAIN snapshots \subseteq Nat \ {0}
    BY DEF TypeInv, TypeOK
  <1>2. SnapshotChain
    <2> SUFFICES ASSUME NEW n \in DOMAIN snapshots
                 PROVE  /\ n - 1 \in DOMAIN snapshots \cup {0}
                        /\ snapshots[n].live = (At(n - 1).live \ snapshots[n].del)
                                                  \cup snapshots[n].add
      BY DEF SnapshotChain
    <2>1. 1..n \subseteq DOMAIN snapshots /\ n \in Nat \ {0}
      BY <1>1 DEF ChainInv, History
    <2>2. n = 1 \/ n - 1 \in 1..n
      BY <2>1, SMT
    <2>3. n - 1 \in DOMAIN snapshots \cup {0}
      BY <2>1, <2>2, SMT
    <2> QED BY <2>3, Zenon DEF ChainInv, History
  <1>3. FindLatestIsLatest
    <2> SUFFICES ASSUME NEW h \in Nat, NEW id, FindLatest(h, id),
                        NEW n \in DOMAIN snapshots
                 PROVE  n <= id
      BY DEF FindLatestIsLatest, TypeInv, TypeOK
    <2>1. 1..n \subseteq DOMAIN snapshots /\ n \in Nat \ {0}
      BY <1>1 DEF ChainInv, History
    <2>2. CASE h > 0 /\ h + 1 \notin DOMAIN snapshots
      <3>1. id = h
        BY <2>2 DEF FindLatest
      <3>2. h + 1 \notin 1..n
        BY <2>1, <2>2
      <3> QED BY <2>1, <3>1, <3>2, SMT
    <2>3. CASE ~(h > 0 /\ h + 1 \notin DOMAIN snapshots)
      BY <2>3 DEF FindLatest
    <2> QED BY <2>2, <2>3
  <1> QED BY <1>2, <1>3

\* Both invariants together are inductive.
LEMMA ChainAlways ==
    ASSUME AtomicRename
    PROVE  Spec => [](TypeInv /\ ChainInv)
  <1>1. Init => TypeInv /\ ChainInv
    BY TypeInvInit, ChainInvInit
  <1>2. TypeInv /\ ChainInv /\ [Next]_vars => TypeInv' /\ ChainInv'
    BY CountingHolds, TypeInvNext, ChainInvNext
  <1> QED BY <1>1, <1>2, PTL DEF Spec

\* No update is lost: where the file system's rename is atomic, every snapshot
\* is its predecessor plus its own delta, for any plans, users and faults.
THEOREM NoLostUpdate ==
    ASSUME AtomicRename
    PROVE  Spec => []SnapshotChain
  <1>1. TypeInv /\ ChainInv => SnapshotChain
    BY ChainInvImplies
  <1> QED BY <1>1, ChainAlways, PTL

\* FindLatest finds the latest snapshot whatever the hint file says.
THEOREM HintNeverMisleads ==
    ASSUME AtomicRename
    PROVE  Spec => []FindLatestIsLatest
  <1>1. TypeInv /\ ChainInv => FindLatestIsLatest
    BY ChainInvImplies
  <1> QED BY <1>1, ChainAlways, PTL

\* A published snapshot is never replaced where rename is atomic.
THEOREM SnapshotsAreFinal ==
    ASSUME AtomicRename
    PROVE  Spec => PublishedIsFinal
  <1>1. TypeInv /\ ChainInv /\ [Next]_vars =>
            [\A n \in DOMAIN snapshots :
                n \in DOMAIN snapshots' /\ snapshots'[n] = snapshots[n]]_snapshots
    BY ChainInvNext
  <1> QED BY <1>1, ChainAlways, PTL DEF Spec, PublishedIsFinal

-----------------------------------------------------------------------------
(* Row ids and metadata files                                               *)

\* Both are inductive on top of the chain of snapshots.
LEMMA StoreAlways ==
    ASSUME AtomicRename
    PROVE  Spec => [](RowInv /\ ManifestInv)
  <1> DEFINE IInv == TypeInv /\ ChainInv /\ RowInv /\ ManifestInv
  <1>1. Init => IInv
    BY TypeInvInit, ChainInvInit, StoreInvInit
  <1>2. IInv /\ [Next]_vars => IInv'
    <2> SUFFICES ASSUME IInv, [Next]_vars PROVE IInv'
      OBVIOUS
    <2>1. TypeInv' /\ ChainInv'
      BY CountingHolds, TypeInvNext, ChainInvNext
    <2>2. CASE \E u \in Users : Acts(u)
      BY <2>1, <2>2, CountingHolds, RowInvNext, ManifestInvNext
    <2>3. CASE UNCHANGED vars
      <3>1. UNCHANGED <<snapshots, manifests, pc, stage, attempt, base, prep>>
        BY <2>3 DEF vars, store, attemptVars
      <3>2. RowInv'
        BY <3>1 DEF RowInv, RowIdsNotReused
      <3>3. ManifestInv'
        BY <3>1, SMT
        DEF ManifestInv, Safe, OwnNames, Unpublished, Mentions, Referenced,
            CleanUpTmpManifests
      <3> QED BY <2>1, <3>2, <3>3
    <2> QED BY <2>2, <2>3 DEF Next, Acts, Terminated
  <1> QED BY <1>1, <1>2, PTL DEF Spec

\* Row ids are handed out once: next_row_id never falls from one snapshot to
\* a later one, whoever publishes them and whatever is rolled back.
THEOREM RowIdsAreFresh ==
    ASSUME AtomicRename
    PROVE  Spec => []RowIdsNotReused
  <1>1. RowInv => RowIdsNotReused
    BY DEF RowInv
  <1> QED BY <1>1, StoreAlways, PTL

\* CleanUpTmpManifests never removes a metadata file that a published snapshot
\* refers to, however the races of any number of committers went.
THEOREM CleanupIsHarmless ==
    ASSUME AtomicRename
    PROVE  Spec => []ManifestsPresent
  <1>1. ManifestInv => ManifestsPresent
    BY DEF ManifestInv, ManifestsPresent, Safe
  <1> QED BY <1>1, StoreAlways, PTL

-----------------------------------------------------------------------------
(* Operations and the history                                               *)

\* The invariant is inductive on top of those of the store.
LEMMA HistoryAlways ==
    ASSUME AtomicRename, RollbackIsApart
    PROVE  Spec => []HistoryInv
  <1>1. Init => HistoryInv
    BY HistoryInvInit
  <1>2. TypeInv /\ ChainInv /\ ManifestInv /\ HistoryInv /\ [Next]_vars => HistoryInv'
    <2> SUFFICES ASSUME TypeInv, ChainInv, ManifestInv, HistoryInv, [Next]_vars
                 PROVE  HistoryInv'
      OBVIOUS
    <2>1. CASE \E u \in Users : Acts(u)
      BY <2>1, HistoryInvNext
    <2>2. CASE UNCHANGED vars
      BY <2>2, HistoryInvIdle
    <2> QED BY <2>1, <2>2 DEF Next, Acts, Terminated
  <1> QED BY <1>1, <1>2, ChainAlways, StoreAlways, PTL DEF Spec

\* A set without two elements has at most one.
LEMMA AtMostOne ==
    ASSUME NEW S, \A m, n \in S : m = n
    PROVE  Cardinality(S) <= 1
  <1>1. CASE S = {}
    BY <1>1, FS_EmptySet, SMT
  <1>2. CASE S # {}
    <2>1. PICK n : n \in S
      BY <1>2
    <2>2. S = {n}
      BY <2>1
    <2>3. Cardinality({n}) = 1
      BY FS_Singleton, Zenon
    <2> QED BY <2>2, <2>3, SMT
  <1> QED BY <1>1, <1>2

\* An operation is published at most once per half, for any number of users,
\* crashes, I/O errors, lost races and resubmissions through FilterAndCommit.
THEOREM NothingIsPublishedTwice ==
    ASSUME AtomicRename, RollbackIsApart
    PROVE  Spec => []ExactlyOnce
  <1>1. HistoryInv => ExactlyOnce
    <2> SUFFICES ASSUME HistoryInv, NEW u \in Users, NEW i \in DOMAIN Plan[u],
                        Filterable(Plan[u][i])
                 PROVE  /\ Cardinality(PublishedHalf(u, i, {"APPEND", "OVERWRITE"})) <= 1
                        /\ Cardinality(PublishedHalf(u, i, {"COMPACT"})) <= 1
      BY DEF ExactlyOnce
    <2>1. Local(u) /\ Plan[u][i].op # "rollback"
      BY DEF HistoryInv, Filterable
    <2>2. \A m, n \in PublishedHalf(u, i, {"APPEND", "OVERWRITE"}) : m = n
      <3> SUFFICES ASSUME NEW m \in PublishedHalf(u, i, {"APPEND", "OVERWRITE"}),
                          NEW n \in PublishedHalf(u, i, {"APPEND", "OVERWRITE"})
                   PROVE  m = n
        OBVIOUS
      <3>1. /\ m \in DOMAIN snapshots /\ HalfOf(snapshots[m], u, i, "APPEND")
            /\ n \in DOMAIN snapshots /\ HalfOf(snapshots[n], u, i, "APPEND")
        BY <2>1, HalfByIdentifier DEF PublishedHalf
      <3> QED BY <2>1, <3>1 DEF Local, Sequenced
    <2>3. \A m, n \in PublishedHalf(u, i, {"COMPACT"}) : m = n
      <3> SUFFICES ASSUME NEW m \in PublishedHalf(u, i, {"COMPACT"}),
                          NEW n \in PublishedHalf(u, i, {"COMPACT"})
                   PROVE  m = n
        OBVIOUS
      <3>1. /\ m \in DOMAIN snapshots /\ HalfOf(snapshots[m], u, i, "COMPACT")
            /\ n \in DOMAIN snapshots /\ HalfOf(snapshots[n], u, i, "COMPACT")
        BY <2>1, HalfByIdentifier DEF PublishedHalf
      <3> QED BY <2>1, <3>1 DEF Local, Sequenced
    <2> QED BY <2>2, <2>3, AtMostOne
  <1> QED BY <1>1, HistoryAlways, PTL

\* And a half carries its operation's identifier.
LEMMA HalfIsPublished ==
    ASSUME NEW u \in Users, NEW i
    PROVE  /\ Done(u, i, "APPEND") =>
                PublishedHalf(u, i, {"APPEND", "OVERWRITE"}) # {}
           /\ Done(u, i, "COMPACT") => PublishedHalf(u, i, {"COMPACT"}) # {}
  BY KindsApart DEF Done, HalfOf, PublishedHalf

\* What a call or the filter reported as committed is in the history, as far
\* as its first half goes; a caller that believes an OK never loses data.
THEOREM AcknowledgedIsPublished ==
    ASSUME AtomicRename, RollbackIsApart, RollbackIsLast
    PROVE  Spec => []AckedIsPublished
  <1>1. Init => AckInv
    BY DEF Init, AckInv
  <1>2. TypeInv /\ ChainInv /\ ManifestInv /\ HistoryInv /\ AckInv /\ [Next]_vars
            => AckInv'
    <2> SUFFICES ASSUME TypeInv, ChainInv, ManifestInv, HistoryInv, AckInv, [Next]_vars
                 PROVE  AckInv'
      OBVIOUS
    <2>1. CASE \E u \in Users : Acts(u)
      BY <2>1, AckInvNext
    <2>2. CASE UNCHANGED vars
      <3>1. UNCHANGED <<snapshots, acked>>
        BY <2>2 DEF vars, store, call
      <3> QED BY <3>1 DEF AckInv, Settled, Done
    <2> QED BY <2>1, <2>2 DEF Next, Acts, Terminated
  <1>3. AckInv => AckedIsPublished
    BY HalfIsPublished DEF AckInv, Settled, AckedIsPublished
  <1> QED BY <1>1, <1>2, <1>3, ChainAlways, StoreAlways, HistoryAlways, PTL DEF Spec

-----------------------------------------------------------------------------
(* Data files                                                               *)

\* The invariant is inductive on top of those of the history.
LEMMA FileAlways ==
    ASSUME AtomicRename, RollbackIsApart, DeletesAreOlder
    PROVE  Spec => []FileInv
  <1>1. Init => FileInv
    BY FileInvInit
  <1>2. TypeInv /\ ChainInv /\ ManifestInv /\ HistoryInv /\ FileInv /\ [Next]_vars
            => FileInv'
    <2> SUFFICES ASSUME TypeInv, ChainInv, ManifestInv, HistoryInv, FileInv, [Next]_vars
                 PROVE  FileInv'
      OBVIOUS
    <2>1. CASE \E u \in Users : Acts(u)
      BY <2>1, FileInvNext
    <2>2. CASE UNCHANGED vars
      <3>1. UNCHANGED <<snapshots, pc, next, stage, base, prep>>
        BY <2>2 DEF vars, store, call, attemptVars
      <3> QED BY <3>1, SMT DEF FileInv, Grounded, Fresh, Owned, Applies, At, Op
    <2> QED BY <2>1, <2>2 DEF Next, Acts, Terminated
  <1> QED BY <1>1, <1>2, ChainAlways, StoreAlways, HistoryAlways, PTL DEF Spec

\* The delta of every published snapshot applies to the snapshot before it:
\* nothing is deleted that is not live and nothing added twice, although
\* TryCommitOnce checks conflicts only for some of the deltas and publishes
\* after any number of commits of other users.
THEOREM DeltasApply ==
    ASSUME AtomicRename, RollbackIsApart, DeletesAreOlder
    PROVE  Spec => []DeltaApplies
  <1>1. FileInv => DeltaApplies
    BY DEF FileInv, DeltaApplies, Applies
  <1> QED BY <1>1, FileAlways, PTL

\* The total record count that TryCommitOnce carries forward by addition, and
\* RollbackToAsLatest copies from its target, never drifts from the number of
\* live records.
THEOREM TotalsAreExact ==
    ASSUME AtomicRename, RollbackIsApart, DeletesAreOlder
    PROVE  Spec => []TotalIsLive
  <1>1. Init => TotalInv
    BY DEF Init, TotalInv, TotalIsLive, InFlight
  <1>2. TypeInv /\ ChainInv /\ HistoryInv /\ FileInv /\ TotalInv /\ [Next]_vars
            => TotalInv'
    <2> SUFFICES ASSUME TypeInv, ChainInv, HistoryInv, FileInv, TotalInv, [Next]_vars
                 PROVE  TotalInv'
      OBVIOUS
    <2>1. CASE \E u \in Users : Acts(u)
      BY <2>1, CountingHolds, TotalInvNext
    <2>2. CASE UNCHANGED vars
      <3>1. UNCHANGED <<snapshots, pc, prep>>
        BY <2>2 DEF vars, store, attemptVars
      <3> QED BY <3>1 DEF TotalInv, TotalIsLive
    <2> QED BY <2>1, <2>2 DEF Next, Acts, Terminated
  <1>3. TotalInv => TotalIsLive
    BY DEF TotalInv
  <1> QED BY <1>1, <1>2, <1>3, ChainAlways, HistoryAlways, FileAlways, PTL DEF Spec

\* A caller that aborts only operations of which nothing is published never
\* deletes a data file of a snapshot, of anyone's commit in flight or of an
\* operation still to be committed.
THEOREM AbortIsHarmless ==
    ASSUME AtomicRename, RollbackIsApart, DeletesAreOlder, ~AbortHalfCommitted
    PROVE  Spec => []DataFilesPresent
  <1>1. Init => DataInv
    <2> SUFFICES ASSUME Init PROVE DataInv
      OBVIOUS
    <2>1. DOMAIN snapshots = {} /\ \A u \in Users : pc[u] \notin InFlight
      BY DEF Init, InFlight
    <2>2. files = UNION {PlannedFiles(u) : u \in Users}
      BY DEF Init
    <2>3. \A u \in Users : \A i \in DOMAIN Plan[u] :
                Plan[u][i].add \cup Plan[u][i].after \subseteq PlannedFiles(u)
      BY DEF PlannedFiles
    <2> QED BY <2>1, <2>2, <2>3 DEF DataInv, DataFilesPresent
  <1>2. TypeInv /\ TypeInv' /\ ChainInv /\ ManifestInv /\ HistoryInv /\ FileInv /\ DataInv
            /\ [Next]_vars => DataInv'
    <2> SUFFICES ASSUME TypeInv, TypeInv', ChainInv, ManifestInv, HistoryInv,
                        FileInv, DataInv, [Next]_vars
                 PROVE  DataInv'
      OBVIOUS
    <2>1. CASE \E u \in Users : Acts(u)
      BY <2>1, DataInvNext
    <2>2. CASE UNCHANGED vars
      <3>1. UNCHANGED <<snapshots, files, pc, prep, next>>
        BY <2>2 DEF vars, store, call, attemptVars
      <3> QED BY <3>1 DEF DataInv, DataFilesPresent
    <2> QED BY <2>1, <2>2 DEF Next, Acts, Terminated
  <1>3. DataInv => DataFilesPresent
    BY DEF DataInv
  <1> QED BY <1>1, <1>2, <1>3, ChainAlways, StoreAlways, HistoryAlways, FileAlways,
             PTL DEF Spec

-----------------------------------------------------------------------------
(* The table history                                                        *)

\* The commit protocol implements the table history: for any number of users
\* and any plans, lost races, retries, crashes, I/O errors and resubmissions
\* through the filter only ever show as whole changes, each applied to the
\* table its predecessor left and each committable's half once.
THEOREM RefinesTableHistory ==
    ASSUME AtomicRename, RollbackIsApart, DeletesAreOlder
    PROVE  Spec => ImplementsTableHistory
  <1>1. Init => Abstract!Init /\ Numbered
    <2> SUFFICES ASSUME Init PROVE Abstract!Init /\ Numbered
      OBVIOUS
    <2>1. DOMAIN snapshots = {} /\ Cardinality({}) = 0
      BY CountingHolds DEF Init, Counting
    <2>2. DOMAIN snapshots = 1..0
      BY <2>1, SMT
    <2>3. Changes = <<>>
      BY <2>1, SMT DEF Changes
    <2>4. LatestFiles = {}
      BY <2>1 DEF LatestFiles, At, EmptyTable
    <2> QED BY <2>2, <2>3, <2>4 DEF Abstract!Init, Numbered
  <1>2. TypeInv /\ ChainInv /\ HistoryInv /\ FileInv /\ Numbered /\ [Next]_vars
            => [Abstract!Next]_<<Changes, LatestFiles>> /\ Numbered'
    <2> SUFFICES ASSUME TypeInv, ChainInv, HistoryInv, FileInv, Numbered, [Next]_vars
                 PROVE  [Abstract!Next]_<<Changes, LatestFiles>> /\ Numbered'
      OBVIOUS
    <2>1. ASSUME UNCHANGED snapshots
          PROVE  UNCHANGED <<Changes, LatestFiles>> /\ Numbered'
      BY <2>1 DEF Changes, ChangeOf, LatestFiles, At, Numbered
    <2>2. ASSUME NEW u \in Users, Acts(u)
          PROVE  [Abstract!Next]_<<Changes, LatestFiles>> /\ Numbered'
      <3>1. CASE Publishes(u)
        BY <3>1, CountingHolds, PublishIsPublish
      <3>2. CASE ~Publishes(u)
        <4>1. UNCHANGED snapshots
          BY <2>2, <3>2, StoreSteps DEF Rests, Moves, Builds, Cleans
        <4> QED BY <2>1, <4>1
      <3> QED BY <3>1, <3>2
    <2>3. CASE UNCHANGED vars
      BY <2>1, <2>3 DEF vars, store
    <2> QED BY <2>2, <2>3 DEF Next, Acts, Terminated
  <1> QED BY <1>1, <1>2, ChainAlways, HistoryAlways, FileAlways, PTL
          DEF Spec, ImplementsTableHistory, Abstract!Spec
=============================================================================
