----------------------- MODULE FileStoreCommitFiles -------------------------
(***************************************************************************)
(* The data files of the table, kept by every step: deltas apply, counts are*)
(* right, no abort removes a file in use, and publishing is a step of the  *)
(* table history.                                                          *)
(***************************************************************************)
EXTENDS FileStoreCommitSteps

USE Zenon

-----------------------------------------------------------------------------
(* Deltas                                                                   *)

\* No increment deletes a file that it adds itself.
DeletesAreOlder ==
    \A u \in Users : \A i \in DOMAIN Plan[u] :
        Plan[u][i].op = "commit" => Plan[u][i].add \cap Plan[u][i].del = {}

\* Some published half of some operation added f.
Owned(f) ==
    \E u \in Users : \E i \in DOMAIN Plan[u], st \in {"APPEND", "COMPACT"} :
        \E n \in DOMAIN snapshots :
            HalfOf(snapshots[n], u, i, st) /\ f \in snapshots[n].add

Applies(s, b) == s.del \subseteq b.live /\ s.add \cap b.live = {}

\* What is in flight applies to its base, and its files are owned or its own.
Grounded(u) ==
    pc[u] \in InFlight =>
        /\ Applies(prep[u], base[u])
        /\ \A f \in prep[u].live :
            Owned(f) \/ (stage[u] # "ROLLBACK" /\ f \in prep[u].add)

\* An attempt on the empty table, where CheckConflicts is not called, deletes
\* nothing that it does not add.
Fresh(u) ==
    pc[u] = "prepare" /\ base[u].id = 0 =>
        /\ Op(u).del \cup Op(u).before \subseteq Op(u).add
        /\ stage[u] = "COMPACT" => ~NeedsAppend(Op(u))

FileInv ==
    /\ \A n \in DOMAIN snapshots :
        /\ \A f \in snapshots[n].live : Owned(f)
        /\ Applies(snapshots[n], At(n - 1))
    /\ \A u \in Users : Grounded(u) /\ Fresh(u)

\* A half adds files of its operation.
LEMMA HalfFiles ==
    ASSUME NEW s, NEW u, NEW i, NEW st \in {"APPEND", "COMPACT"},
           HalfOf(s, u, i, st)
    PROVE  s.add \subseteq Plan[u][i].add \cup Plan[u][i].after
  BY DEF HalfOf

\* No two operations write the same file.
LEMMA OneWriter ==
    ASSUME NEW u \in Users, NEW i \in DOMAIN Plan[u], NEW v \in Users,
           NEW j \in DOMAIN Plan[v], NEW f,
           f \in Plan[u][i].add \cup Plan[u][i].after,
           f \in Plan[v][j].add \cup Plan[v][j].after
    PROVE  u = v /\ i = j
  <1>1. (Plan[u][i].add \cup Plan[u][i].after)
            \cap (Plan[v][j].add \cup Plan[v][j].after) # {}
        => u = v /\ i = j
    BY PlanAssumption, Zenon
  <1>2. f \in (Plan[u][i].add \cup Plan[u][i].after)
                \cap (Plan[v][j].add \cup Plan[v][j].after)
    OBVIOUS
  <1> QED BY <1>1, <1>2

\* The files of an operation of which nothing is published belong to nobody.
LEMMA UntouchedIsUnowned ==
    ASSUME NEW u \in Users, NEW i \in DOMAIN Plan[u], Untouched(u, i), NEW f,
           f \in Plan[u][i].add \cup Plan[u][i].after
    PROVE  ~Owned(f)
  <1> SUFFICES ASSUME NEW v \in Users, NEW j \in DOMAIN Plan[v],
                      NEW st \in {"APPEND", "COMPACT"}, NEW n \in DOMAIN snapshots,
                      HalfOf(snapshots[n], v, j, st), f \in snapshots[n].add
               PROVE  FALSE
    BY DEF Owned
  <1>1. f \in Plan[v][j].add \cup Plan[v][j].after
    BY HalfFiles
  <1>2. u = v /\ i = j
    BY <1>1, OneWriter
  <1> QED BY <1>2 DEF Untouched, Done

\* Ownership is not lost.
LEMMA StillOwned ==
    ASSUME NEW u, GrowsBy(u), NEW f, Owned(f)
    PROVE  Owned(f)'
  BY DEF Owned, GrowsBy

\* The base of an attempt is a table all of whose files are owned.
LEMMA BaseOwned ==
    ASSUME ChainInv, FileInv, NEW u \in Users
    PROVE  \A f \in base[u].live : Owned(f)
  <1>1. base[u].id \in DOMAIN snapshots \cup {0} /\ base[u] = At(base[u].id)
    BY DEF ChainInv, IsLoaded
  <1>2. CASE base[u].id = 0
    <2>1. base[u].live = {}
      BY <1>1, <1>2, SMT DEF At, EmptyTable
    <2> QED BY <2>1
  <1>3. CASE base[u].id # 0
    BY <1>1, <1>3 DEF At, FileInv
  <1> QED BY <1>2, <1>3

\* Without a conflict check the changes of an attempt apply all the same.
LEMMA DeltaFits ==
    ASSUME DeletesAreOlder, TypeInv, ChainInv, FileInv, NEW u \in Users, Local(u),
           pc[u] = "prepare", ~Rejected(u)
    PROVE  LET d == Delta(Op(u), stage[u], base[u])
           IN  d.del \subseteq base[u].live /\ d.add \cap base[u].live = {}
  <1> DEFINE o == Op(u)
             b == base[u]
             d == Delta(o, stage[u], b)
  <1>0. /\ o \in Operation /\ stage[u] \in Stages /\ next[u] \in DOMAIN Plan[u]
        /\ o = Plan[u][next[u]]
    BY BuildContext DEF Op
  <1>1. /\ stage[u] = "ROLLBACK" <=> o.op = "rollback"
        /\ stage[u] = "APPEND" => ~Done(u, next[u], "COMPACT")
        /\ stage[u] # "ROLLBACK" => ~Done(u, next[u], stage[u])
    BY DEF Local, Staged, Begun, InFlight
  <1>2. CASE stage[u] = "ROLLBACK"
    <2>1. d = RollbackChanges(o, b)
      BY <1>2 DEF Delta
    <2> QED BY <2>1, SMT DEF RollbackChanges
  <1>3. CASE b.id = 0 /\ stage[u] # "ROLLBACK"
    <2>1. b.live = {}
      BY <1>3, SMT DEF ChainInv, IsLoaded, At, EmptyTable
    <2>2. /\ o.del \cup o.before \subseteq o.add
          /\ stage[u] = "COMPACT" => ~NeedsAppend(o)
      BY <1>3 DEF FileInv, Fresh
    <2>3. CASE stage[u] = "COMPACT"
      <3>1. o.add = {}
        <4>1. CASE o.op \in {"drop", "rollback"}
          BY <1>0, <4>1, PlanAssumption
        <4>2. CASE o.op \in {"commit", "overwrite"}
          BY <2>2, <2>3, <4>2 DEF NeedsAppend, HasAppendChanges
        <4> QED BY <1>0, <4>1, <4>2 DEF Operation, Ops
      <3>2. d.del = {}
        BY <2>2, <2>3, <3>1 DEF Delta
      <3> QED BY <2>1, <3>2
    <2>4. CASE stage[u] = "APPEND"
      <3>1. CASE o.op \in {"overwrite", "drop"}
        BY <2>1, <2>4, <3>1 DEF Delta, OverwriteChanges
      <3>2. CASE o.op = "commit"
        <4>1. o.del = {}
          BY <1>0, <2>2, <3>2 DEF DeletesAreOlder
        <4>2. d.del = {}
          BY <2>4, <3>2, <4>1 DEF Delta
        <4> QED BY <2>1, <4>2
      <3> QED BY <1>0, <1>1, <2>4, <3>1, <3>2 DEF Operation, Ops
    <2> QED BY <1>0, <1>3, <2>3, <2>4 DEF Stages
  <1>4. CASE b.id # 0 /\ stage[u] # "ROLLBACK"
    <2>1. CASE CheckConflicts(b, d)
      BY <2>1 DEF CheckConflicts
    <2>2. CASE ~CheckConflicts(b, d)
      <3>1. CommitKind(o, stage[u]) = "APPEND" /\ ~DiscardDuplicate
        BY <1>4, <2>2 DEF Rejected, DetectConflicts
      <3>2. stage[u] = "APPEND" /\ o.op = "commit" /\ o.del = {}
        BY <1>0, <1>4, <3>1 DEF CommitKind, ShouldBeOverwriteCommit, Stages
      <3>3. d.add = o.add /\ d.del = {}
        BY <3>1, <3>2 DEF Delta
      <3>4. Untouched(u, next[u])
        BY <1>1, <3>2 DEF Untouched
      <3>5. \A f \in o.add : ~Owned(f)
        BY <1>0, <3>4, UntouchedIsUnowned
      <3> QED BY <3>3, <3>5, BaseOwned
    <2> QED BY <2>1, <2>2
  <1> QED BY <1>2, <1>3, <1>4

\* An attempt gets ready by loading the latest snapshot.
LEMMA WhoLoads ==
    ASSUME TypeInv, NEW u \in Users, Acts(u), pc'[u] = "prepare"
    PROVE  LoadLatest(u)
  <1>0. pc \in [Users -> Locations]
    BY Ranges
  <1>a. ASSUME NEW i, Begin(u, i) PROVE FALSE
    BY <1>0, <1>a DEF Begin
  <1>b. ASSUME Return(u) PROVE FALSE
    BY <1>0, <1>b DEF Return
  <1>1. CASE Submit(u) \/ SubmitFiltered(u) \/ Abort(u)
    BY <1>0, <1>1, <1>a DEF Submit, SubmitFiltered, Abort
  <1>2. CASE Filter(u)
    <2>1. Return(u) \/ \E k : Begin(u, k)
      BY <1>2, Zenon DEF Filter
    <2> QED BY <2>1, <1>a, <1>b
  <1>3. CASE Finish(u)
    <2>1. Return(u) \/ \E k : Begin(u, k)
      BY <1>3, Zenon DEF Finish
    <2> QED BY <2>1, <1>a, <1>b
  <1>4. CASE Reject(u) \/ Crash(u) \/ FaultyPrepare(u) \/ FaultyHint(u)
    BY <1>4, <1>b DEF Reject, Crash, FaultyPrepare, FaultyHint, Fail
  <1>5. CASE ReadHint(u) \/ CheckExists(u) \/ Rename(u) \/ Replace(u) \/ FaultyRename(u)
    BY <1>0, <1>5 DEF ReadHint, CheckExists, Rename, Replace, FaultyRename
  <1>6. CASE Prepare(u)
    <2>1. Return(u) \/ pc' = [pc EXCEPT ![u] = "exists"]
      BY <1>6, Zenon DEF Prepare, Fail
    <2> QED BY <1>0, <1>b, <2>1
  <1>7. CASE Confirm(u) \/ PublishHint(u) \/ LoseRace(u)
    BY <1>0, <1>7, <1>b DEF Confirm, PublishHint, LoseRace, Fail
  <1> QED BY <1>1, <1>2, <1>3, <1>4, <1>5, <1>6, <1>7 DEF Acts, Step, Fault

\* An empty table when it is loaded means that nothing is published yet.
LEMMA LoadsFresh ==
    ASSUME TypeInv, ChainInv, NEW u \in Users, Local(u), LoadLatest(u),
           pc'[u] = "prepare"
    PROVE  Fresh(u)'
  <1>0. pc \in [Users -> Locations] /\ base \in [Users -> Snapshot \cup {EmptyTable}]
    BY Ranges
  <1>1. PICK id \in {0, hint[u]} \cup DOMAIN snapshots :
            /\ FindLatest(hint[u], id)
            /\ IF id # 0 /\ id \notin DOMAIN snapshots
               THEN Fail(u, "uncertain")
               ELSE /\ base' = [base EXCEPT ![u] = At(id)]
                    /\ pc' = [pc EXCEPT ![u] =
                                IF pc[u] = "latest" THEN "prepare" ELSE "filter"]
                    /\ UNCHANGED <<call, stage, retry, prep>>
    BY DEF LoadLatest
  <1>2. ~Fail(u, "uncertain")
    BY <1>0 DEF Fail, Return
  <1>3. /\ id = 0 \/ id \in DOMAIN snapshots
        /\ base'[u] = At(id) /\ UNCHANGED <<next, stage>>
        /\ pc[u] = "latest"
    BY <1>0, <1>1, <1>2 DEF call
  <1>4. At(id).id = id
    BY <1>3 DEF At, EmptyTable, ChainInv, History
  <1> SUFFICES ASSUME id = 0
               PROVE  /\ Op(u).del \cup Op(u).before \subseteq Op(u).add
                      /\ stage[u] = "COMPACT" => ~NeedsAppend(Op(u))
    BY <1>3, <1>4 DEF Fresh, Op
  <1>5. DOMAIN snapshots = {}
    <2> SUFFICES ASSUME NEW n \in DOMAIN snapshots PROVE FALSE
      OBVIOUS
    <2>1. n <= 0
      BY <1>1, FindLatestSeesAll DEF TypeInv, TypeOK
    <2> QED BY <2>1, SMT DEF TypeInv, TypeOK
  <1>6. Written(u, next[u])
    <2>1. /\ next[u] \in Nat /\ upto[u] \in Nat /\ next[u] <= upto[u]
          /\ \A i \in next[u]..upto[u] : Written(u, i)
      BY <1>3, Ranges DEF Local, Submitted
    <2> QED BY <2>1, SMT
  <1>7. stage[u] = "COMPACT" => ~NeedsAppend(Op(u))
    BY <1>3, <1>5 DEF Local, Staged, Begun, Done
  <1> QED BY <1>5, <1>6, <1>7 DEF Written, Op

\* Every step keeps the deltas applicable.
LEMMA FileInvNext ==
    ASSUME AtomicRename, RollbackIsApart, DeletesAreOlder, TypeInv, ChainInv,
           ManifestInv, HistoryInv, FileInv, NEW u \in Users, Acts(u)
    PROVE  FileInv'
  <1>0. Others(u) /\ GrowsBy(u) /\ Local(u)
    BY OthersKept, Grows DEF HistoryInv
  <1>1. \A f : Owned(f) => Owned(f)'
    BY <1>0, StillOwned
  <1>2. ASSUME NEW v \in Users, v # u PROVE Grounded(v)' /\ Fresh(v)'
    <2>1. /\ pc'[v] = pc[v] /\ next'[v] = next[v] /\ stage'[v] = stage[v]
          /\ base'[v] = base[v] /\ prep'[v] = prep[v]
      BY <1>0, <1>2 DEF Others
    <2>2. Op(v)' = Op(v)
      BY <2>1 DEF Op
    <2>3. Grounded(v)'
      BY <1>1, <2>1 DEF FileInv, Grounded, Applies
    <2> QED BY <2>1, <2>2, <2>3 DEF FileInv, Fresh
  <1>3. Fresh(u)'
    <2>1. CASE pc'[u] = "prepare"
      BY <1>0, <2>1, WhoLoads, LoadsFresh
    <2>2. CASE pc'[u] # "prepare"
      BY <2>2 DEF Fresh
    <2> QED BY <2>1, <2>2
  <1>4. ASSUME UNCHANGED snapshots, Grounded(u)'
        PROVE  FileInv'
    <2>1. ASSUME NEW n \in DOMAIN snapshots'
          PROVE  /\ \A f \in snapshots'[n].live : Owned(f)'
                 /\ Applies(snapshots[n], At(n - 1))'
      <3>1. /\ \A f \in snapshots[n].live : Owned(f)
            /\ Applies(snapshots[n], At(n - 1))
        BY <1>4 DEF FileInv
      <3> QED BY <1>1, <1>4, <3>1 DEF Applies, At
    <2> QED BY <1>2, <1>3, <1>4, <2>1 DEF FileInv
  <1>5. CASE Rests(u) \/ Cleans(u)
    BY <1>4, <1>5 DEF Rests, Cleans, Grounded
  <1>6. CASE Moves(u)
    <2>1. UNCHANGED <<snapshots, base, prep, stage>> /\ pc[u] \in InFlight
      BY <1>6 DEF Moves
    <2>2. Grounded(u)'
      BY <1>1, <2>1 DEF FileInv, Grounded, Applies
    <2> QED BY <1>4, <2>1, <2>2
  <1>7. CASE Builds(u)
    <2>1. /\ pc[u] = "prepare" /\ pc'[u] = "exists" /\ ~Rejected(u)
          /\ UNCHANGED <<snapshots, base, stage, next, upto>>
      BY <1>7 DEF Builds
    <2>2. PICK S, x : prep'[u] = NewSnapshot(u, base[u], S, x)
      BY <1>7 DEF Builds
    <2> DEFINE d == Delta(Op(u), stage[u], base[u])
               s == NewSnapshot(u, base[u], S, x)
    <2>3. s.add = d.add
      BY DEF NewSnapshot
    <2>4. s.del = d.del
      BY DEF NewSnapshot
    <2>5. s.live = (base[u].live \ d.del) \cup d.add
      BY DEF NewSnapshot
    <2>6. d.del \subseteq base[u].live /\ d.add \cap base[u].live = {}
      BY <1>0, <2>1, DeltaFits
    <2>7. stage[u] = "ROLLBACK" => \A f \in d.add : Owned(f)
      <3> SUFFICES ASSUME stage[u] = "ROLLBACK" PROVE \A f \in d.add : Owned(f)
        OBVIOUS
      <3>1. d.add \subseteq At(Op(u).target).live
        BY DEF Delta, RollbackChanges
      <3>2. Op(u).target \in DOMAIN snapshots /\ DOMAIN snapshots \subseteq Nat \ {0}
        BY <2>1, BuildContext DEF TypeInv, TypeOK
      <3>3. At(Op(u).target) = snapshots[Op(u).target]
        BY <3>2 DEF At
      <3> QED BY <3>1, <3>2, <3>3 DEF FileInv
    <2> HIDE DEF s, d
    <2>8. /\ Applies(s, base[u])
          /\ \A f \in s.live : Owned(f) \/ (stage[u] # "ROLLBACK" /\ f \in s.add)
      BY <2>3, <2>4, <2>5, <2>6, <2>7, BaseOwned DEF Applies
    <2>9. prep'[u] = s /\ base'[u] = base[u] /\ stage'[u] = stage[u]
      BY <2>1, <2>2 DEF s
    <2>10. Grounded(u)'
      BY <1>1, <2>8, <2>9 DEF Grounded, Applies
    <2> QED BY <1>4, <2>1, <2>10
  <1>8. CASE Publishes(u)
    <2> DEFINE s == prep[u]
               b == base[u]
    <2>1. /\ pc[u] \in InFlight /\ s.id \notin DOMAIN snapshots
          /\ PutSnapshot(s) /\ UNCHANGED <<base, prep, stage, next>>
      BY <1>8 DEF Publishes, InFlight
    <2>2. /\ DOMAIN snapshots' = DOMAIN snapshots \cup {s.id}
          /\ snapshots'[s.id] = s
          /\ \A n \in DOMAIN snapshots : snapshots'[n] = snapshots[n]
          /\ s.id \in Nat \ {0} /\ b.id \in Nat /\ s.id = b.id + 1
          /\ b.id \in DOMAIN snapshots \cup {0} /\ b = At(b.id)
          /\ \A n \in DOMAIN snapshots : n \in Nat /\ n <= b.id
      BY <2>1, PublishedLast
    <2>3. /\ Applies(s, b)
          /\ \A f \in s.live :
                Owned(f) \/ (stage[u] # "ROLLBACK" /\ f \in s.add)
      BY <2>1 DEF FileInv, Grounded
    <2>4. HalfOf(s, u, next[u], stage[u]) /\ next[u] \in DOMAIN Plan[u]
      BY <1>0, <2>1 DEF Local, Carried, HalfOf
    <2>5. stage[u] \in Stages
      BY Ranges
    <2> HIDE DEF s, b
    <2>6. ASSUME NEW f \in s.live PROVE Owned(f)'
      <3>1. CASE Owned(f)
        BY <1>1, <3>1
      <3>2. CASE stage[u] # "ROLLBACK" /\ f \in s.add
        <4>1. stage[u] \in {"APPEND", "COMPACT"}
          BY <2>5, <3>2 DEF Stages
        <4> QED BY <2>2, <2>4, <3>2, <4>1, SMT DEF Owned
      <3> QED BY <2>3, <2>6, <3>1, <3>2
    <2>7. At(b.id)' = b
      <3>1. At(b.id)' = IF b'.id = 0 THEN EmptyTable ELSE snapshots'[b'.id]
        BY DEF At
      <3> QED BY <2>1, <2>2, <3>1 DEF At, b
    <2>8. ASSUME NEW n \in DOMAIN snapshots'
          PROVE  /\ \A f \in snapshots'[n].live : Owned(f)'
                 /\ Applies(snapshots[n], At(n - 1))'
      <3>1. CASE n = s.id
        <4>1. n - 1 = b.id
          BY <2>2, <3>1, SMT
        <4>2. At(n - 1)' = b
          BY <2>1, <2>7, <4>1 DEF b
        <4>3. Applies(snapshots'[n], b)
          BY <2>2, <2>3, <3>1
        <4> QED BY <2>2, <2>6, <3>1, <4>2, <4>3 DEF Applies
      <3>2. CASE n \in DOMAIN snapshots
        <4>1. /\ \A f \in snapshots[n].live : Owned(f)
              /\ Applies(snapshots[n], At(n - 1))
              /\ snapshots'[n] = snapshots[n]
          BY <2>2, <3>2 DEF FileInv
        <4>2. n \in Nat \ {0} /\ 1..n \subseteq DOMAIN snapshots
          BY <3>2 DEF ChainInv, History, TypeInv, TypeOK
        <4>3. n - 1 = 0 \/ n - 1 \in DOMAIN snapshots
          BY <4>2, SMT
        <4>4. At(n - 1)' = At(n - 1)
          BY <2>2, <4>3 DEF At
        <4> QED BY <1>1, <4>1, <4>4 DEF Applies
      <3> QED BY <2>2, <2>8, <3>1, <3>2
    <2>9. Grounded(u)'
      <3>1. prep'[u] = s /\ base'[u] = b /\ stage'[u] = stage[u]
        BY <2>1 DEF s, b
      <3> QED BY <1>1, <2>3, <3>1 DEF Grounded, Applies
    <2> QED BY <1>2, <1>3, <2>8, <2>9 DEF FileInv
  <1> QED BY <1>5, <1>6, <1>7, <1>8, StoreSteps

\* The empty table owns nothing.
LEMMA FileInvInit == Init => FileInv
  <1>1. Init => DOMAIN snapshots = {} /\ \A u \in Users : pc[u] = "idle"
    BY SMT DEF Init
  <1> QED BY <1>1 DEF FileInv, Grounded, Fresh, InFlight

-----------------------------------------------------------------------------
(* Record counts                                                            *)

\* The counts carried forward are those of the files.
TotalInv ==
    /\ TotalIsLive
    /\ \A u \in Users :
        pc[u] \in InFlight => prep[u].total = Cardinality(prep[u].live)

\* The count of a new snapshot is right.
LEMMA NewTotal ==
    ASSUME Counting, DeletesAreOlder, TypeInv, ChainInv, FileInv, TotalInv,
           NEW u \in Users, Local(u), pc[u] = "prepare", ~Rejected(u)
    PROVE  LET d == Delta(Op(u), stage[u], base[u]) IN
           TotalRecordCount(Op(u), stage[u], base[u])
              = Cardinality((base[u].live \ d.del) \cup d.add)
  <1> DEFINE o == Op(u)
             b == base[u]
             d == Delta(o, stage[u], b)
  <1>1. d.del \subseteq b.live /\ d.add \cap b.live = {}
    BY DeltaFits
  <1>2. /\ stage[u] \in Stages /\ b \in Snapshot \cup {EmptyTable}
        /\ stage[u] = "ROLLBACK" => o.target \in DOMAIN snapshots
        /\ d.add \subseteq Files
        /\ DOMAIN snapshots \subseteq Nat \ {0}
    BY BuildContext DEF TypeInv, TypeOK
  <1>3. CASE stage[u] = "ROLLBACK"
    <2>1. At(o.target) = snapshots[o.target]
      BY <1>2, <1>3 DEF At
    <2>2. At(o.target).total = Cardinality(At(o.target).live)
      BY <1>2, <1>3, <2>1 DEF TotalInv, TotalIsLive
    <2>3. d = RollbackChanges(o, b)
      BY <1>3 DEF Delta
    <2>4. (b.live \ d.del) \cup d.add = At(o.target).live
      BY <2>3, SMT DEF RollbackChanges
    <2>5. TotalRecordCount(o, stage[u], b) = At(o.target).total
      BY <1>3 DEF TotalRecordCount
    <2> QED BY <2>2, <2>4, <2>5
  <1>4. CASE stage[u] # "ROLLBACK"
    <2>1. b.live \in SUBSET Files
      BY <1>2, BaseFields
    <2>2. b.total = Cardinality(b.live)
      <3>1. b.id \in DOMAIN snapshots \cup {0} /\ b = At(b.id)
        BY DEF ChainInv, IsLoaded
      <3>2. CASE b.id = 0
        <4>1. b = EmptyTable
          BY <3>1, <3>2 DEF At
        <4> QED BY <4>1, SMT DEF EmptyTable, Counting
      <3>3. CASE b.id # 0
        BY <3>1, <3>3 DEF At, TotalInv, TotalIsLive
      <3> QED BY <3>2, <3>3
    <2>3. TotalRecordCount(o, stage[u], b)
            = b.total + Cardinality(d.add) - Cardinality(d.del)
      BY <1>4 DEF TotalRecordCount
    <2> HIDE DEF d, b, o
    <2>4. Cardinality((b.live \ d.del) \cup d.add)
            = Cardinality(b.live) + Cardinality(d.add) - Cardinality(d.del)
      <3>1. /\ \A L, A, D \in SUBSET Files :
                    D \subseteq L /\ A \cap L = {}
                    => Cardinality((L \ D) \cup A)
                            = Cardinality(L) + Cardinality(A) - Cardinality(D)
            /\ d.add \in SUBSET Files /\ d.del \in SUBSET Files
        BY <1>1, <1>2, <2>1 DEF Counting
      <3> QED BY <1>1, <2>1, <3>1, SMT
    <2>5. TotalRecordCount(o, stage[u], b) = Cardinality((b.live \ d.del) \cup d.add)
      BY <2>2, <2>3, <2>4
    <2> QED BY <2>5 DEF d, b, o
  <1> QED BY <1>3, <1>4

\* Every step keeps the counts right.
LEMMA TotalInvNext ==
    ASSUME Counting, AtomicRename, DeletesAreOlder, TypeInv, ChainInv, HistoryInv,
           FileInv, TotalInv, NEW u \in Users, Acts(u)
    PROVE  TotalInv'
  <1>0. Others(u) /\ Local(u)
    BY OthersKept DEF HistoryInv
  <1>1. ASSUME pc'[u] \in InFlight => prep'[u].total = Cardinality(prep'[u].live),
               NEW v \in Users, pc'[v] \in InFlight
        PROVE  prep'[v].total = Cardinality(prep'[v].live)
    BY <1>0, <1>1 DEF Others, TotalInv
  <1>2. CASE Rests(u) \/ Cleans(u) \/ Moves(u)
    BY <1>1, <1>2 DEF Rests, Cleans, Moves, TotalInv, TotalIsLive
  <1>3. CASE Builds(u)
    <2>1. pc[u] = "prepare" /\ ~Rejected(u) /\ UNCHANGED snapshots
      BY <1>3 DEF Builds
    <2>2. PICK S, x : prep'[u] = NewSnapshot(u, base[u], S, x)
      BY <1>3 DEF Builds
    <2> DEFINE d == Delta(Op(u), stage[u], base[u])
               s == NewSnapshot(u, base[u], S, x)
    <2>3. s.live = (base[u].live \ d.del) \cup d.add
      BY DEF NewSnapshot
    <2>4. s.total = TotalRecordCount(Op(u), stage[u], base[u])
      BY DEF NewSnapshot
    <2>5. s.total = Cardinality(s.live)
      BY <1>0, <2>1, <2>3, <2>4, NewTotal
    <2> HIDE DEF s, d
    <2>6. prep'[u].total = Cardinality(prep'[u].live)
      BY <2>2, <2>5 DEF s
    <2> QED BY <1>1, <2>1, <2>6 DEF TotalInv, TotalIsLive
  <1>4. CASE Publishes(u)
    <2>1. /\ pc[u] \in InFlight /\ prep[u].id \notin DOMAIN snapshots
          /\ PutSnapshot(prep[u]) /\ UNCHANGED prep
      BY <1>4 DEF Publishes, InFlight
    <2>2. /\ DOMAIN snapshots' = DOMAIN snapshots \cup {prep[u].id}
          /\ snapshots'[prep[u].id] = prep[u]
          /\ \A n \in DOMAIN snapshots : snapshots'[n] = snapshots[n]
      BY <2>1, PublishedLast
    <2>3. prep[u].total = Cardinality(prep[u].live)
      BY <2>1 DEF TotalInv
    <2> QED BY <1>1, <2>1, <2>2, <2>3 DEF TotalInv, TotalIsLive
  <1> QED BY <1>2, <1>3, <1>4, StoreSteps

-----------------------------------------------------------------------------
(* Files in use                                                             *)

\* The files of the table, of what is in flight and of the operations to come
\* are there.
DataInv ==
    /\ DataFilesPresent
    /\ \A u \in Users :
        /\ pc[u] \in InFlight => prep[u].live \subseteq files
        /\ \A i \in DOMAIN Plan[u] :
            i >= next[u] => Plan[u][i].add \cup Plan[u][i].after \subseteq files

\* Only an abort deletes data files, and nobody goes back to an operation.
LEMMA WhoDeletes ==
    ASSUME TypeInv, NEW u \in Users, Acts(u)
    PROVE  /\ UNCHANGED files \/ Abort(u)
           /\ next'[u] >= next[u]
  <1>0. next \in [Users -> Nat] /\ next[u] \in Nat /\ upto[u] \in Nat
    BY Ranges
  <1>a. ASSUME NEW how, Fail(u, how) PROVE next'[u] >= next[u]
    BY <1>0, <1>a, SMT DEF Fail
  <1>1. CASE Submit(u) \/ SubmitFiltered(u) \/ Abort(u)
    BY <1>0, <1>1, SMT DEF Submit, SubmitFiltered, Abort, store
  <1>2. CASE Filter(u)
    <2>1. PICK k \in next[u]..(upto[u] + 1) : next' = [next EXCEPT ![u] = k]
      BY <1>2, Zenon DEF Filter
    <2>2. UNCHANGED files
      BY <1>2 DEF Filter, store
    <2> QED BY <1>0, <2>1, <2>2, SMT
  <1>3. CASE Finish(u)
    BY <1>0, <1>3, SMT DEF Finish, store
  <1>4. CASE ReadHint(u) \/ CheckExists(u) \/ Rename(u) \/ Replace(u) \/ PublishHint(u)
    BY <1>0, <1>4, SMT
    DEF ReadHint, CheckExists, Rename, Replace, PublishHint, store, call
  <1>5. CASE Prepare(u)
    <2>1. UNCHANGED files /\ (Fail(u, "failed") \/ UNCHANGED next)
      BY <1>5, Zenon DEF Prepare, call
    <2> QED BY <1>0, <1>a, <2>1, SMT
  <1>6. CASE LoadLatest(u) \/ Confirm(u) \/ LoseRace(u) \/ Reject(u)
    <2>1. UNCHANGED files
      BY <1>6 DEF LoadLatest, Confirm, LoseRace, Reject, store
    <2>2. UNCHANGED next \/ \E how : Fail(u, how)
      BY <1>6 DEF LoadLatest, Confirm, LoseRace, Reject, call
    <2> QED BY <1>0, <1>a, <2>1, <2>2, SMT
  <1>7. CASE Fault(u)
    <2>1. UNCHANGED files
      BY <1>7 DEF Fault, Crash, FaultyPrepare, FaultyRename, FaultyHint, store
    <2>2. UNCHANGED next \/ \E how : Fail(u, how)
      BY <1>7 DEF Fault, Crash, FaultyPrepare, FaultyRename, FaultyHint, call
    <2> QED BY <1>0, <1>a, <2>1, <2>2, SMT
  <1> QED BY <1>1, <1>2, <1>3, <1>4, <1>5, <1>6, <1>7 DEF Acts, Step

\* A caller that aborts only what published nothing deletes no file in use.
LEMMA AbortKeeps ==
    ASSUME RollbackIsApart, ~AbortHalfCommitted, TypeInv, HistoryInv, FileInv,
           DataInv, NEW u \in Users, Abort(u)
    PROVE  DataInv'
  <1>1. /\ pc[u] = "idle" /\ next[u] \in DOMAIN Plan[u] /\ next[u] \in Nat
        /\ NothingPublished(u) /\ next'[u] = next[u] + 1
        /\ files' = files \ (Op(u).add \cup Op(u).after)
        /\ UNCHANGED <<snapshots, pc, prep>>
    BY Ranges, SMT DEF Abort, attemptVars
  <1>2. Untouched(u, next[u])
    BY <1>1 DEF HistoryInv, Local, Unstarted
  <1>3. \A f \in Op(u).add \cup Op(u).after : ~Owned(f)
    BY <1>1, <1>2, UntouchedIsUnowned DEF Op
  <1>4. DataFilesPresent'
    BY <1>1, <1>3 DEF DataInv, DataFilesPresent, FileInv
  <1>5. ASSUME NEW v \in Users, pc'[v] \in InFlight
        PROVE  prep'[v].live \subseteq files'
    <2>1. pc[v] \in InFlight /\ v # u
      BY <1>1, <1>5 DEF InFlight
    <2>2. ASSUME NEW f \in prep[v].live, f \in Op(u).add \cup Op(u).after
          PROVE  FALSE
      <3>1. stage[v] # "ROLLBACK" /\ f \in prep[v].add
        BY <1>3, <2>1, <2>2 DEF FileInv, Grounded
      <3>2. stage[v] \in {"APPEND", "COMPACT"}
        BY <3>1, Ranges DEF Stages
      <3>3. HalfOf(prep[v], v, next[v], stage[v]) /\ next[v] \in DOMAIN Plan[v]
        BY <2>1 DEF HistoryInv, Local, Carried, HalfOf
      <3>4. f \in Plan[v][next[v]].add \cup Plan[v][next[v]].after
        BY <3>1, <3>2, <3>3, HalfFiles
      <3> QED BY <1>1, <2>1, <2>2, <3>3, <3>4, OneWriter DEF Op
    <2>3. prep[v].live \subseteq files
      BY <2>1 DEF DataInv
    <2> QED BY <1>1, <2>2, <2>3
  <1>6. ASSUME NEW v \in Users, NEW i \in DOMAIN Plan[v], i >= next'[v]
        PROVE  Plan[v][i].add \cup Plan[v][i].after \subseteq files'
    <2>1. i >= next[v] /\ (v = u => i # next[u])
      <3>1. CASE v = u
        <4>1. i \in Nat
          BY Ranges, SMT
        <4> QED BY <1>1, <1>6, <3>1, <4>1, SMT
      <3>2. CASE v # u
        BY <1>6, <3>2, OthersKept DEF Acts, Others
      <3> QED BY <3>1, <3>2
    <2>2. Plan[v][i].add \cup Plan[v][i].after \subseteq files
      BY <2>1 DEF DataInv
    <2>3. ASSUME NEW f \in Plan[v][i].add \cup Plan[v][i].after,
                 f \in Op(u).add \cup Op(u).after
          PROVE  FALSE
      BY <1>1, <2>1, <2>3, OneWriter DEF Op
    <2> QED BY <1>1, <2>2, <2>3
  <1> QED BY <1>4, <1>5, <1>6 DEF DataInv

\* Every step keeps the files in use.
LEMMA DataInvNext ==
    ASSUME AtomicRename, RollbackIsApart, ~AbortHalfCommitted, TypeInv, TypeInv',
           ChainInv, ManifestInv, HistoryInv, FileInv, DataInv, NEW u \in Users, Acts(u)
    PROVE  DataInv'
  <1>0. Others(u) /\ Local(u) /\ next'[u] >= next[u]
    BY OthersKept, WhoDeletes DEF HistoryInv
  <1>1. CASE Abort(u)
    BY <1>1, AbortKeeps
  <1>2. CASE ~Abort(u)
    <2>1. UNCHANGED files
      BY <1>2, WhoDeletes
    <2>2. ASSUME NEW v \in Users, NEW i \in DOMAIN Plan[v], i >= next'[v]
          PROVE  Plan[v][i].add \cup Plan[v][i].after \subseteq files'
      <3>0. next'[v] \in Nat
        BY DEF TypeInv, TypeOK
      <3>1. i \in Nat /\ next[v] \in Nat /\ next'[v] \in Nat
        BY <3>0, Ranges, SMT
      <3>2. next'[v] >= next[v]
        BY <1>0, <3>1, SMT DEF Others
      <3>3. i >= next[v]
        BY <2>2, <3>1, <3>2, SMT
      <3> QED BY <2>1, <3>3 DEF DataInv
    <2>3. ASSUME pc'[u] \in InFlight => prep'[u].live \subseteq files,
                 NEW v \in Users, pc'[v] \in InFlight
          PROVE  prep'[v].live \subseteq files'
      BY <1>0, <2>1, <2>3 DEF Others, DataInv
    <2>4. CASE Rests(u) \/ Cleans(u) \/ Moves(u)
      BY <2>1, <2>2, <2>3, <2>4 DEF Rests, Cleans, Moves, DataInv, DataFilesPresent
    <2>5. CASE Builds(u)
      <3>1. pc[u] = "prepare" /\ ~Rejected(u) /\ UNCHANGED snapshots
        BY <2>5 DEF Builds
      <3>2. PICK S, x : prep'[u] = NewSnapshot(u, base[u], S, x)
        BY <2>5 DEF Builds
      <3> DEFINE d == Delta(Op(u), stage[u], base[u])
                 s == NewSnapshot(u, base[u], S, x)
      <3>3. s.live = (base[u].live \ d.del) \cup d.add
        BY DEF NewSnapshot
      <3>4. base[u].live \subseteq files
        <4>1. base[u].id \in DOMAIN snapshots \cup {0} /\ base[u] = At(base[u].id)
          BY DEF ChainInv, IsLoaded
        <4> QED BY <4>1, SMT DEF At, EmptyTable, DataInv, DataFilesPresent
      <3>5. d.add \subseteq files
        <4>1. /\ stage[u] \in Stages /\ next[u] \in DOMAIN Plan[u] /\ next[u] \in Nat
              /\ stage[u] = "ROLLBACK" => Op(u).target \in DOMAIN snapshots
              /\ DOMAIN snapshots \subseteq Nat \ {0}
          BY <3>1, BuildContext, Ranges DEF TypeInv, TypeOK
        <4>2. CASE stage[u] = "ROLLBACK"
          <5>1. d.add \subseteq At(Op(u).target).live
            BY <4>2 DEF Delta, RollbackChanges
          <5>2. At(Op(u).target) = snapshots[Op(u).target]
            BY <4>1, <4>2 DEF At
          <5> QED BY <4>1, <4>2, <5>1, <5>2 DEF DataInv, DataFilesPresent
        <4>3. CASE stage[u] # "ROLLBACK"
          <5>1. d.add \subseteq Op(u).add \cup Op(u).after
            BY <4>3 DEF Delta, OverwriteChanges
          <5>2. Op(u).add \cup Op(u).after \subseteq files
            BY <4>1, SMT DEF DataInv, Op
          <5> QED BY <5>1, <5>2
        <4> QED BY <4>2, <4>3
      <3> HIDE DEF s, d
      <3>6. prep'[u].live \subseteq files
        BY <3>2, <3>3, <3>4, <3>5 DEF s
      <3> QED BY <2>1, <2>2, <2>3, <3>1, <3>6 DEF DataInv, DataFilesPresent
    <2>6. CASE Publishes(u)
      <3>1. /\ pc[u] \in InFlight /\ prep[u].id \notin DOMAIN snapshots
            /\ PutSnapshot(prep[u]) /\ UNCHANGED prep
        BY <2>6 DEF Publishes, InFlight
      <3>2. /\ DOMAIN snapshots' = DOMAIN snapshots \cup {prep[u].id}
            /\ snapshots'[prep[u].id] = prep[u]
            /\ \A n \in DOMAIN snapshots : snapshots'[n] = snapshots[n]
        BY <3>1, PublishedLast
      <3>3. prep[u].live \subseteq files
        BY <3>1 DEF DataInv
      <3> QED BY <2>1, <2>2, <2>3, <3>1, <3>2, <3>3 DEF DataInv, DataFilesPresent
    <2> QED BY <2>4, <2>5, <2>6, StoreSteps
  <1> QED BY <1>1, <1>2

-----------------------------------------------------------------------------
(* The table history                                                        *)

\* The snapshots are numbered from 1 to the latest.
Numbered == \E m \in Nat : DOMAIN snapshots = 1..m

\* Publishing appends.
LEMMA PublishAppends ==
    ASSUME Counting, TypeInv, ChainInv, Numbered, NEW u \in Users, pc[u] \in InFlight,
           prep[u].id \notin DOMAIN snapshots, PutSnapshot(prep[u])
    PROVE  /\ base[u].id \in Nat /\ prep[u].id = base[u].id + 1
           /\ DOMAIN snapshots = 1..base[u].id
           /\ DOMAIN snapshots' = 1..(base[u].id + 1)
           /\ Cardinality(DOMAIN snapshots) = base[u].id
           /\ Cardinality(DOMAIN snapshots') = base[u].id + 1
  <1> DEFINE N == base[u].id
  <1>1. /\ DOMAIN snapshots' = DOMAIN snapshots \cup {prep[u].id}
        /\ N \in Nat /\ prep[u].id = N + 1
        /\ N \in DOMAIN snapshots \cup {0}
        /\ \A n \in DOMAIN snapshots : n \in Nat /\ n <= N
    BY PublishedLast
  <1> HIDE DEF N
  <1>2. PICK m \in Nat : DOMAIN snapshots = 1..m
    BY DEF Numbered
  <1>3. m = N
    <2>1. m = 0 \/ m \in 1..m
      BY SMT
    <2> QED BY <1>1, <1>2, <2>1, SMT
  <1>4. DOMAIN snapshots' = 1..(N + 1)
    BY <1>1, <1>2, <1>3, SMT
  <1>5. Cardinality(1..N) = N /\ Cardinality(1..(N + 1)) = N + 1
    BY <1>1, SMT DEF Counting
  <1> QED BY <1>1, <1>2, <1>3, <1>4, <1>5 DEF N

\* A committable whose half is being published is not in the history yet.
LEMMA NotYetThere ==
    ASSUME RollbackIsApart, TypeInv, NEW u \in Users, Local(u), pc[u] = "rename",
           prep[u].id \notin DOMAIN snapshots, NEW n \in DOMAIN snapshots
    PROVE  ~Abstract!SameHalf(ChangeOf(prep[u]), ChangeOf(snapshots[n]))
  <1> DEFINE s == prep[u]
             t == snapshots[n]
  <1> SUFFICES ASSUME Abstract!SameHalf(ChangeOf(s), ChangeOf(t)) PROVE FALSE
    OBVIOUS
  <1>1. /\ HalfOf(s, u, next[u], stage[u]) /\ stage[u] \in Stages
        /\ next[u] \in DOMAIN Plan[u]
    BY Ranges DEF Local, Carried, InFlight
  <1>2. stage[u] # "ROLLBACK" => ~Done(u, next[u], stage[u])
    <2>1. Begun(u) /\ Unpublished(u)
      BY DEF Begun, InFlight, Unpublished
    <2> QED BY <2>1 DEF Local, Staged
  <1>3. /\ s.user = t.user /\ s.identifier = t.identifier
        /\ s.kind = "COMPACT" <=> t.kind = "COMPACT"
        /\ \E j \in DOMAIN Plan[s.user] :
                /\ Filterable(Plan[s.user][j])
                /\ Plan[s.user][j].identifier = s.identifier
    BY DEF Abstract!SameHalf, ChangeOf
  <1>4. s.user = u
    BY <1>1 DEF HalfOf
  <1>5. PICK j \in DOMAIN Plan[u] : /\ Filterable(Plan[u][j])
                                    /\ Plan[u][j].identifier = s.identifier
    BY <1>3, <1>4
  <1>6. stage[u] # "ROLLBACK" /\ Plan[u][next[u]].op # "rollback"
    BY <1>1, <1>5 DEF HalfOf, RollbackIsApart, Filterable
  <1>7. s.identifier = Plan[u][next[u]].identifier
    BY <1>1, <1>6 DEF HalfOf
  <1>8. /\ t.kind \in {"APPEND", "OVERWRITE"} => HalfOf(t, u, next[u], "APPEND")
        /\ t.kind = "COMPACT" => HalfOf(t, u, next[u], "COMPACT")
    BY <1>1, <1>3, <1>4, <1>6, <1>7, HalfByIdentifier
  <1>9. t.kind \in {"APPEND", "OVERWRITE", "COMPACT"}
    BY DEF TypeInv, TypeOK, Snapshot, Kinds
  <1>10. s.kind = CommitKind(Plan[u][next[u]], stage[u])
    BY <1>1 DEF HalfOf
  <1>11. HalfOf(t, u, next[u], stage[u])
    BY <1>1, <1>3, <1>6, <1>8, <1>9, <1>10, KindsApart DEF Stages
  <1> QED BY <1>2, <1>6, <1>11 DEF Done

\* What the history shows of a snapshot is a change of the abstract table.
LEMMA ChangeType ==
    ASSUME NEW s \in Snapshot
    PROVE  /\ ChangeOf(s) \in Abstract!Change
           /\ ChangeOf(s).add = s.add /\ ChangeOf(s).del = s.del
  BY DEF ChangeOf, Abstract!Change, Snapshot

\* The step that publishes is one step of the table history.
LEMMA PublishIsPublish ==
    ASSUME Counting, RollbackIsApart, TypeInv, ChainInv, HistoryInv, FileInv, Numbered,
           NEW u \in Users, Publishes(u)
    PROVE  Abstract!Next /\ Numbered'
  <1> DEFINE N == base[u].id
             s == prep[u]
             c == ChangeOf(s)
  <1>0. /\ pc[u] = "rename" /\ pc[u] \in InFlight /\ s.id \notin DOMAIN snapshots
        /\ PutSnapshot(s) /\ Local(u)
    BY DEF Publishes, InFlight, HistoryInv
  <1>1. /\ N \in Nat /\ s.id = N + 1
        /\ DOMAIN snapshots = 1..N /\ DOMAIN snapshots' = 1..(N + 1)
        /\ Cardinality(DOMAIN snapshots) = N
        /\ Cardinality(DOMAIN snapshots') = N + 1
    BY <1>0, PublishAppends
  <1>2. /\ s \in Snapshot /\ snapshots'[s.id] = s
        /\ \A n \in DOMAIN snapshots : snapshots'[n] = snapshots[n]
        /\ base[u] = At(N)
    BY <1>0, PublishedLast
  <1>3. c \in Abstract!Change /\ c.add = s.add /\ c.del = s.del
    BY <1>2, ChangeType
  <1>4. \A n \in 1..N : ~Abstract!SameHalf(c, ChangeOf(snapshots[n]))
    BY <1>0, <1>1, NotYetThere
  <1>5. /\ s.del \subseteq base[u].live /\ s.add \cap base[u].live = {}
        /\ s.live = (base[u].live \ s.del) \cup s.add
    BY <1>0 DEF FileInv, Grounded, Applies, ChainInv, Extends
  <1>6. LatestFiles = base[u].live
    BY <1>1, <1>2 DEF LatestFiles
  <1>7. LatestFiles' = s.live
    BY <1>1, <1>2, SMT DEF LatestFiles, At
  <1> HIDE DEF N, s
  <1>8. Changes = [n \in 1..N |-> ChangeOf(snapshots[n])]
    BY <1>1 DEF Changes
  <1>9. Changes' = [n \in 1..(N + 1) |-> IF n = N + 1 THEN c ELSE ChangeOf(snapshots[n])]
    <2>1. Changes' = [n \in 1..(N + 1) |-> ChangeOf(snapshots'[n])]
      BY <1>1 DEF Changes
    <2>2. ASSUME NEW n \in 1..(N + 1)
          PROVE  ChangeOf(snapshots'[n]) = IF n = N + 1 THEN c ELSE ChangeOf(snapshots[n])
      BY <1>1, <1>2, SMT
    <2> QED BY <2>1, <2>2
  <1> HIDE DEF c
  <1>10. Len(Changes) = N /\ Len(Changes') = N + 1
    BY <1>1, <1>8, <1>9, SMT
  <1>11. Changes' = Append(Changes, c)
    BY <1>1, <1>8, <1>9, <1>10, SMT
  <1>12. Changes'[N + 1] = c
    BY <1>1, <1>9, SMT
  <1>13. \A n \in DOMAIN Changes : ~Abstract!SameHalf(c, Changes[n])
    BY <1>4, <1>8
  <1>14. Abstract!Publish(c)
    BY <1>3, <1>5, <1>6, <1>7, <1>11, <1>13 DEF Abstract!Publish
  <1>15. Abstract!Next
    BY <1>1, <1>3, <1>10, <1>12, <1>14, SMT DEF Abstract!Next
  <1>16. Numbered'
    BY <1>1, SMT DEF Numbered
  <1> QED BY <1>15, <1>16
=============================================================================
