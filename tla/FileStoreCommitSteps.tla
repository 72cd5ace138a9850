----------------------- MODULE FileStoreCommitSteps -------------------------
(***************************************************************************)
(* What the operators of the commit protocol return, and what each action  *)
(* does to the table, to the call of its user and to the halves of the     *)
(* operations that are published.                                          *)
(***************************************************************************)
EXTENDS FileStoreCommitInvariants, TLAPS

USE Zenon

-----------------------------------------------------------------------------
(* Types of the operators                                                   *)

\* The plan of a user is a sequence of operations.
LEMMA PlanType ==
    ASSUME NEW u \in Users
    PROVE  /\ Len(Plan[u]) \in Nat
           /\ \A i \in 1..Len(Plan[u]) : Plan[u][i] \in Operation
  BY PlanAssumption, SMT

\* Commit, overwrite and rollback start with one of the three TryCommits.
LEMMA StageType ==
    ASSUME NEW o PROVE FirstStage(o) \in Stages
  BY DEF FirstStage, Stages

\* The changes of an attempt are data files.
LEMMA DeltaType ==
    ASSUME NEW o \in Operation, NEW st \in Stages,
           NEW b, b.live \subseteq Files,
           st = "ROLLBACK" => At(o.target).live \subseteq Files
    PROVE  /\ Delta(o, st, b).add \subseteq Files
           /\ Delta(o, st, b).del \subseteq Files
  BY DEF Delta, OverwriteChanges, RollbackChanges, Operation

\* LoadSnapshot returns a snapshot, or nothing for id 0.
LEMMA AtType ==
    ASSUME TypeOK, NEW n \in DOMAIN snapshots \cup {0}
    PROVE  At(n) \in Snapshot \cup {EmptyTable}
  BY DEF At, TypeOK

\* The fields of a loaded snapshot that NewSnapshot computes with.
LEMMA BaseFields ==
    ASSUME NEW b \in Snapshot \cup {EmptyTable}
    PROVE  /\ b.id \in Nat /\ b.live \subseteq Files /\ b.total \in Int
           /\ b.nextRowId \in Nat /\ b.index \in FileNames \cup {None}
           /\ b.base \subseteq FileNames /\ b.delta \subseteq FileNames
  BY SMT DEF Snapshot, EmptyTable

\* A call that begins an operation has nothing prepared yet.
LEMMA BeginType ==
    ASSUME TypeInv, NEW u \in Users, NEW i, Begin(u, i)
    PROVE  /\ stage' \in [Users -> Stages]
           /\ pc' \in [Users -> Locations]
           /\ pc' = [pc EXCEPT ![u] = pc'[u]]
           /\ pc'[u] \notin InFlight
  <1> DEFINE l == IF Misplaced(Plan[u][i]) THEN "reject"
                  ELSE IF FirstStage(Plan[u][i]) = "COMPACT"
                          /\ ~HasCompactChanges(Plan[u][i])
                  THEN "finish" ELSE "hint"
  <1>1. l \in {"reject", "finish", "hint"}
    OBVIOUS
  <1>2. /\ pc' = [pc EXCEPT ![u] = l]
        /\ stage' = [stage EXCEPT ![u] = FirstStage(Plan[u][i])]
    BY DEF Begin
  <1> HIDE DEF l
  <1> QED
    BY <1>1, <1>2, StageType DEF TypeInv, TypeOK, Locations, InFlight

\* The values a step of u can use.
LEMMA Ranges ==
    ASSUME TypeInv, NEW u \in Users
    PROVE  /\ pc \in [Users -> Locations] /\ next \in [Users -> Nat]
           /\ upto \in [Users -> Nat] /\ stage \in [Users -> Stages]
           /\ outcome \in [Users -> Outcomes]
           /\ base \in [Users -> Snapshot \cup {EmptyTable}]
           /\ prep \in [Users -> Snapshot \cup {EmptyTable}]
           /\ next[u] \in Nat /\ upto[u] \in Nat /\ next[u] >= 1
           /\ DOMAIN Plan[u] = 1..Len(Plan[u]) /\ Len(Plan[u]) \in Nat
           /\ pc[u] # "idle" =>
                next[u] \in DOMAIN Plan[u] /\ upto[u] \in DOMAIN Plan[u] \cup {0}
  <1>1. /\ next[u] \in 1..(Len(Plan[u]) + 1) /\ next[u] \in Nat /\ upto[u] \in Nat
        /\ pc[u] # "idle" => next[u] <= Len(Plan[u]) /\ upto[u] <= Len(Plan[u])
    BY DEF TypeInv, TypeOK, CallInv
  <1>2. DOMAIN Plan[u] = 1..Len(Plan[u]) /\ Len(Plan[u]) \in Nat
    BY PlanAssumption, SMT
  <1>3. /\ pc \in [Users -> Locations] /\ next \in [Users -> Nat]
        /\ upto \in [Users -> Nat] /\ stage \in [Users -> Stages]
        /\ outcome \in [Users -> Outcomes]
        /\ base \in [Users -> Snapshot \cup {EmptyTable}]
        /\ prep \in [Users -> Snapshot \cup {EmptyTable}]
    BY DEF TypeInv, TypeOK
  <1> QED BY <1>1, <1>2, <1>3, SMT

-----------------------------------------------------------------------------
(* What a step does                                                         *)

\* What a call that returns an error leaves of it.
LEMMA FailView ==
    ASSUME TypeInv, NEW u \in Users, NEW how, Fail(u, how), UNCHANGED attempt
    PROVE  /\ Others(u)
           /\ pc'[u] = "idle" /\ UNCHANGED <<stage, acked>>
           /\ IF Filterable(Op(u)) THEN next'[u] = next[u] /\ outcome'[u] = how
              ELSE next'[u] = next[u] + 1 /\ outcome'[u] = "none"
  BY DEF TypeInv, TypeOK, Fail, Return, Forget, Others

\* A step of one user leaves the variables of the others alone.
LEMMA OthersKept ==
    ASSUME TypeInv, NEW u \in Users, Acts(u)
    PROVE  Others(u)
  <1>0. /\ pc \in [Users -> Locations] /\ next \in [Users -> Nat]
        /\ upto \in [Users -> Nat] /\ stage \in [Users -> Stages]
        /\ outcome \in [Users -> Outcomes] /\ acked \in [Users -> SUBSET Nat]
        /\ base \in [Users -> Snapshot \cup {EmptyTable}]
        /\ prep \in [Users -> Snapshot \cup {EmptyTable}]
        /\ attempt \in [Users -> Nat]
    BY DEF TypeInv, TypeOK
  <1> USE DEF Others, store, call, attemptVars
  <1>1. CASE Submit(u)
    BY <1>0, <1>1 DEF Submit, Begin
  <1>2. CASE SubmitFiltered(u)
    BY <1>0, <1>2 DEF SubmitFiltered
  <1>3. CASE Abort(u)
    BY <1>0, <1>3 DEF Abort
  <1>4. CASE Filter(u)
    BY <1>0, <1>4, SMT DEF Filter, Begin, Return, Forget
  <1>5. CASE Finish(u)
    BY <1>0, <1>5 DEF Finish, Begin, Return, Forget
  <1>6. CASE Reject(u)
    BY <1>0, <1>6, FailView DEF Reject
  <1>7. CASE ReadHint(u)
    BY <1>0, <1>7 DEF ReadHint
  <1>8. CASE LoadLatest(u)
    BY <1>0, <1>8, FailView DEF LoadLatest
  <1>9. CASE Prepare(u)
    BY <1>0, <1>9, FailView, SMT DEF Prepare
  <1>10. CASE CheckExists(u)
    BY <1>0, <1>10 DEF CheckExists
  <1>11. CASE Rename(u)
    BY <1>0, <1>11 DEF Rename
  <1>12. CASE Replace(u)
    BY <1>0, <1>12 DEF Replace
  <1>13. CASE Confirm(u)
    BY <1>0, <1>13, FailView DEF Confirm
  <1>14. CASE PublishHint(u)
    BY <1>0, <1>14 DEF PublishHint, Forget
  <1>15. CASE LoseRace(u)
    BY <1>0, <1>15, FailView DEF LoseRace, Forget
  <1>16. CASE Crash(u)
    BY <1>0, <1>16, FailView DEF Crash
  <1>17. CASE FaultyPrepare(u)
    BY <1>0, <1>17, FailView DEF FaultyPrepare
  <1>18. CASE FaultyRename(u)
    BY <1>0, <1>18 DEF FaultyRename
  <1>19. CASE FaultyHint(u)
    BY <1>0, <1>19, FailView DEF FaultyHint
  <1> QED
    BY <1>1, <1>2, <1>3, <1>4, <1>5, <1>6, <1>7, <1>8, <1>9, <1>10, <1>11,
       <1>12, <1>13, <1>14, <1>15, <1>16, <1>17, <1>18, <1>19
    DEF Acts, Step, Fault

\* Every step is one of these five.
LEMMA StoreSteps ==
    ASSUME AtomicRename, TypeInv, ChainInv, NEW u \in Users, Acts(u)
    PROVE  Rests(u) \/ Moves(u) \/ Publishes(u) \/ Builds(u) \/ Cleans(u)
  <1>0. /\ pc \in [Users -> Locations]
        /\ prep \in [Users -> Snapshot \cup {EmptyTable}]
        /\ attempt \in [Users -> Nat]
    BY DEF TypeInv, TypeOK
  <1>a. ASSUME NEW how, Fail(u, how), UNCHANGED <<snapshots, manifests, attempt>>
        PROVE  Rests(u)
    BY <1>a, FailView DEF Rests, InFlight
  <1>b. ASSUME NEW i, Begin(u, i), UNCHANGED <<snapshots, manifests, attempt>>
        PROVE  Rests(u)
    BY <1>b, BeginType DEF Rests
  <1>c. ASSUME NEW l, pc' = [pc EXCEPT ![u] = l], l \notin InFlight,
               UNCHANGED <<snapshots, manifests, attempt>>
        PROVE  Rests(u)
    BY <1>0, <1>c DEF Rests
  <1>1. CASE Submit(u)
    BY <1>b, <1>1 DEF Submit, store
  <1>2. CASE SubmitFiltered(u)
    BY <1>c, <1>2 DEF SubmitFiltered, store, InFlight
  <1>3. CASE Abort(u)
    <2>1. pc'[u] = "idle" /\ UNCHANGED <<snapshots, manifests, attempt>>
      BY <1>3 DEF Abort
    <2> QED BY <2>1 DEF Rests, InFlight
  <1>4. CASE Filter(u)
    <2>1. /\ UNCHANGED <<snapshots, manifests, attempt>>
          /\ \/ pc' = [pc EXCEPT ![u] = "idle"]
             \/ \E k : Begin(u, k)
      BY <1>4, Zenon DEF Filter, store, Return
    <2> QED BY <1>b, <1>c, <2>1 DEF InFlight
  <1>5. CASE Finish(u)
    <2>1. /\ UNCHANGED <<snapshots, manifests, attempt>>
          /\ \/ pc' = [pc EXCEPT ![u] = "idle"]
             \/ \E k : Begin(u, k)
      BY <1>5, Zenon DEF Finish, store, Return
    <2> QED BY <1>b, <1>c, <2>1 DEF InFlight
  <1>6. CASE Reject(u)
    BY <1>a, <1>6 DEF Reject, store
  <1>7. CASE ReadHint(u)
    BY <1>0, <1>7 DEF ReadHint, store, Rests, InFlight
  <1>8. CASE LoadLatest(u)
    <2>1. UNCHANGED <<snapshots, manifests, attempt>>
      BY <1>8 DEF LoadLatest, store
    <2>2. CASE Fail(u, "uncertain")
      BY <1>a, <2>1, <2>2
    <2>3. CASE pc' = [pc EXCEPT ![u] =
                        IF pc[u] = "latest" THEN "prepare" ELSE "filter"]
      BY <1>0, <2>1, <2>3 DEF Rests, InFlight
    <2> QED BY <1>8, <2>2, <2>3, Zenon DEF LoadLatest
  <1>9. CASE Prepare(u)
    <2>1. CASE Rejected(u)
      BY <1>a, <1>9, <2>1 DEF Prepare
    <2>2. CASE ~Rejected(u)
      <3>1. PICK S \in MergeGroups(base[u]), x \in NewIndexes(u) :
                LET s == NewSnapshot(u, base[u], S, x) IN
                /\ prep' = [prep EXCEPT ![u] = s]
                /\ manifests' = manifests \cup
                      {n \in Referenced(s) : <<n[1], n[2]>> = s.uuid}
                /\ attempt' = [attempt EXCEPT ![u] = @ + 1]
                /\ pc' = [pc EXCEPT ![u] = "exists"]
                /\ UNCHANGED <<call, stage, base>>
        BY <1>9, <2>2, Zenon DEF Prepare
      <3>2. /\ prep'[u] = NewSnapshot(u, base[u], S, x)
            /\ pc'[u] = "exists" /\ attempt'[u] = attempt[u] + 1
        BY <1>0, <3>1, Zenon
      <3>3. pc[u] = "prepare" /\ UNCHANGED <<snapshots, base, stage, next, upto>>
        BY <1>9, <3>1, Zenon DEF Prepare, call
      <3> QED BY <2>2, <3>1, <3>2, <3>3, Zenon DEF Builds
    <2> QED BY <2>1, <2>2
  <1>10. CASE CheckExists(u)
    BY <1>0, <1>10 DEF CheckExists, store, call, attemptVars, Moves, InFlight
  <1>11. CASE Rename(u)
    BY <1>0, <1>11 DEF Rename, call, attemptVars, Moves, Publishes, InFlight
  <1>12. CASE Replace(u)
    BY <1>12 DEF Replace, ChainInv
  <1>13. CASE Confirm(u)
    <2>1. CASE Fail(u, "uncertain")
      BY <1>a, <1>13, <2>1 DEF Confirm, store
    <2>2. CASE ~Fail(u, "uncertain")
      BY <1>0, <1>13, <2>2
      DEF Confirm, store, call, attemptVars, Moves, InFlight, Unpublished
    <2> QED BY <2>1, <2>2
  <1>14. CASE PublishHint(u)
    BY <1>0, <1>14 DEF PublishHint, Rests, InFlight
  <1>15. CASE LoseRace(u)
    BY <1>0, <1>15, FailView DEF LoseRace, Cleans, InFlight
  <1>16. CASE Crash(u)
    BY <1>a, <1>16 DEF Crash, store
  <1>17. CASE FaultyPrepare(u)
    BY <1>a, <1>17 DEF FaultyPrepare, store
  <1>18. CASE FaultyRename(u)
    BY <1>0, <1>18
    DEF FaultyRename, ChainInv, call, attemptVars, Moves, Publishes, InFlight
  <1>19. CASE FaultyHint(u)
    BY <1>a, <1>19 DEF FaultyHint, store
  <1> QED
    BY <1>1, <1>2, <1>3, <1>4, <1>5, <1>6, <1>7, <1>8, <1>9, <1>10, <1>11,
       <1>12, <1>13, <1>14, <1>15, <1>16, <1>17, <1>18, <1>19, Zenon
    DEF Acts, Step, Fault

\* What an attempt builds on, and with.
LEMMA BuildContext ==
    ASSUME TypeInv, NEW u \in Users, pc[u] = "prepare", ~Rejected(u)
    PROVE  /\ Op(u) \in Operation /\ stage[u] \in Stages
           /\ next[u] \in DOMAIN Plan[u]
           /\ base[u] \in Snapshot \cup {EmptyTable}
           /\ stage[u] = "ROLLBACK" => Op(u).target \in DOMAIN snapshots
           /\ stage[u] = "ROLLBACK" => At(Op(u).target) \in Snapshot \cup {EmptyTable}
           /\ Delta(Op(u), stage[u], base[u]).add \subseteq Files
           /\ Delta(Op(u), stage[u], base[u]).del \subseteq Files
  <1>1. /\ next[u] \in 1..(Len(Plan[u]) + 1) /\ next[u] <= Len(Plan[u])
        /\ stage[u] \in Stages /\ base[u] \in Snapshot \cup {EmptyTable}
    BY DEF TypeInv, TypeOK, CallInv
  <1>2. next[u] \in 1..Len(Plan[u])
    BY <1>1, PlanType, SMT
  <1>3. Op(u) \in Operation
    BY <1>2, PlanType DEF Op
  <1>4. next[u] \in DOMAIN Plan[u]
    BY <1>2, PlanAssumption, SMT
  <1>5. stage[u] = "ROLLBACK" => Op(u).target \in DOMAIN snapshots
    BY DEF Rejected
  <1>6. stage[u] = "ROLLBACK" => At(Op(u).target) \in Snapshot \cup {EmptyTable}
    BY <1>5, AtType DEF TypeInv
  <1>7. /\ Delta(Op(u), stage[u], base[u]).add \subseteq Files
        /\ Delta(Op(u), stage[u], base[u]).del \subseteq Files
    BY <1>1, <1>3, <1>6, BaseFields, DeltaType
  <1> QED BY <1>1, <1>3, <1>4, <1>5, <1>6, <1>7

\* The step that publishes puts its snapshot after all others.
LEMMA PublishedLast ==
    ASSUME TypeInv, ChainInv, NEW u \in Users, pc[u] \in InFlight,
           prep[u].id \notin DOMAIN snapshots, PutSnapshot(prep[u])
    PROVE  /\ prep[u] \in Snapshot
           /\ DOMAIN snapshots' = DOMAIN snapshots \cup {prep[u].id}
           /\ snapshots'[prep[u].id] = prep[u]
           /\ \A n \in DOMAIN snapshots : snapshots'[n] = snapshots[n]
           /\ prep[u].id \in Nat \ {0} /\ base[u].id \in Nat
           /\ prep[u].id = base[u].id + 1
           /\ base[u].id \in DOMAIN snapshots \cup {0}
           /\ base[u] = At(base[u].id)
           /\ \A n \in DOMAIN snapshots : n \in Nat /\ n <= base[u].id
  <1> DEFINE s == prep[u]
             b == base[u]
  <1>1. /\ s \in Snapshot /\ IsLoaded(b) /\ Extends(s, b)
        /\ DOMAIN snapshots \subseteq Nat \ {0}
    BY Zenon DEF TypeInv, TypeOK, CallInv, ChainInv
  <1>2. s.id \in Nat \ {0} /\ b.id \in Nat /\ s.id = b.id + 1
    BY <1>1, SMT DEF Snapshot, IsLoaded, Extends
  <1>3. /\ DOMAIN snapshots' = DOMAIN snapshots \cup {s.id}
        /\ snapshots'[s.id] = s
        /\ \A n \in DOMAIN snapshots : snapshots'[n] = snapshots[n]
    BY DEF PutSnapshot
  <1>4. ASSUME NEW n \in DOMAIN snapshots PROVE n \in Nat /\ n <= b.id
    <2>1. n \in Nat \ {0} /\ 1..n \subseteq DOMAIN snapshots
      BY <1>1 DEF ChainInv, History
    <2>2. s.id \notin 1..n
      BY <2>1
    <2> HIDE DEF s, b
    <2> QED BY <1>2, <2>1, <2>2, SMT
  <1> QED BY <1>1, <1>2, <1>3, <1>4 DEF IsLoaded

-----------------------------------------------------------------------------
(* Halves of operations                                                     *)

\* An append half is no compact half.
LEMMA KindsApart ==
    ASSUME NEW o
    PROVE  /\ CommitKind(o, "COMPACT") = "COMPACT"
           /\ CommitKind(o, "APPEND") \in {"APPEND", "OVERWRITE"}
           /\ CommitKind(o, "ROLLBACK") \in {"APPEND", "OVERWRITE"}
  BY DEF CommitKind

\* Operations of a user are known by their identifiers.
LEMMA IdentifiersApart ==
    ASSUME NEW u \in Users, NEW i \in DOMAIN Plan[u], NEW j \in DOMAIN Plan[u],
           Plan[u][i].identifier = Plan[u][j].identifier
    PROVE  i = j
  <1>1. i \in Nat /\ j \in Nat /\ Plan[u][i] \in Operation /\ Plan[u][j] \in Operation
    BY PlanAssumption, SMT
  <1>2. Plan[u][i].identifier \in Nat /\ Plan[u][j].identifier \in Nat
    BY <1>1 DEF Operation
  <1>3. /\ i < j => Plan[u][i].identifier < Plan[u][j].identifier
        /\ j < i => Plan[u][j].identifier < Plan[u][i].identifier
    BY PlanAssumption
  <1> QED BY <1>1, <1>2, <1>3, SMT

\* A snapshot that carries the identifier of an operation is a half of it.
LEMMA HalfByIdentifier ==
    ASSUME RollbackIsApart, NEW u \in Users, Local(u), NEW i \in DOMAIN Plan[u],
           Plan[u][i].op # "rollback", NEW n \in DOMAIN snapshots,
           snapshots[n].user = u,
           snapshots[n].identifier = Plan[u][i].identifier
    PROVE  /\ snapshots[n].kind \in {"APPEND", "OVERWRITE"} =>
                HalfOf(snapshots[n], u, i, "APPEND")
           /\ snapshots[n].kind = "COMPACT" => HalfOf(snapshots[n], u, i, "COMPACT")
  <1>1. PICK j \in 1..next[u], t \in Stages : HalfOf(snapshots[n], u, j, t)
    BY DEF Local, Listed, Mine
  <1>2. j \in DOMAIN Plan[u] /\ t # "ROLLBACK"
    BY <1>1 DEF HalfOf, RollbackIsApart
  <1>3. i = j
    BY <1>1, <1>2, IdentifiersApart DEF HalfOf
  <1>4. snapshots[n].kind = CommitKind(Plan[u][i], t)
    BY <1>1, <1>3 DEF HalfOf
  <1> QED BY <1>1, <1>2, <1>3, <1>4, KindsApart DEF Stages

\* What FindLatest returns is the latest snapshot whatever the hint was.
LEMMA FindLatestSeesAll ==
    ASSUME TypeInv, ChainInv, NEW h \in Nat, NEW id, FindLatest(h, id),
           NEW n \in DOMAIN snapshots
    PROVE  n <= id
  <1>1. 1..n \subseteq DOMAIN snapshots /\ n \in Nat \ {0}
    BY DEF ChainInv, History, TypeInv, TypeOK
  <1>2. CASE h > 0 /\ h + 1 \notin DOMAIN snapshots
    <2>1. id = h
      BY <1>2 DEF FindLatest
    <2>2. h + 1 \notin 1..n
      BY <1>1, <1>2
    <2> QED BY <1>1, <2>1, <2>2, SMT
  <1>3. CASE ~(h > 0 /\ h + 1 \notin DOMAIN snapshots)
    BY <1>3 DEF FindLatest
  <1> QED BY <1>2, <1>3

\* A step extends the history by a snapshot of its user at most.
LEMMA Grows ==
    ASSUME AtomicRename, TypeInv, ChainInv, NEW u \in Users, Local(u), Acts(u)
    PROVE  GrowsBy(u)
  <1>1. CASE Publishes(u)
    <2>1. /\ pc[u] \in InFlight /\ prep[u].id \notin DOMAIN snapshots
          /\ PutSnapshot(prep[u])
      BY <1>1 DEF Publishes, InFlight
    <2>2. prep[u].user = u
      BY <2>1 DEF Local, Carried, HalfOf
    <2>3. /\ DOMAIN snapshots' = DOMAIN snapshots \cup {prep[u].id}
          /\ snapshots'[prep[u].id] = prep[u]
          /\ \A n \in DOMAIN snapshots : snapshots'[n] = snapshots[n]
      BY <2>1, PublishedLast
    <2> QED BY <2>2, <2>3 DEF GrowsBy
  <1>2. CASE Rests(u) \/ Moves(u) \/ Builds(u) \/ Cleans(u)
    BY <1>2 DEF Rests, Moves, Builds, Cleans, GrowsBy
  <1> QED BY <1>1, <1>2, StoreSteps

-----------------------------------------------------------------------------
(* Halves and where they are                                                *)

\* A snapshot is a half of one operation only.
LEMMA HalfIndex ==
    ASSUME RollbackIsApart, NEW u \in Users, NEW s, NEW i, NEW j, NEW st, NEW t,
           HalfOf(s, u, i, st), HalfOf(s, u, j, t), st # "ROLLBACK",
           st \in Stages, t \in Stages
    PROVE  i = j /\ st = t
  <1>1. i \in DOMAIN Plan[u] /\ j \in DOMAIN Plan[u]
    BY DEF HalfOf
  <1>2. t # "ROLLBACK"
    BY <1>1 DEF HalfOf, RollbackIsApart
  <1>3. Plan[u][i].identifier = Plan[u][j].identifier
    BY <1>2 DEF HalfOf
  <1>4. i = j
    BY <1>1, <1>3, IdentifiersApart
  <1>5. s.kind = CommitKind(Plan[u][i], st) /\ s.kind = CommitKind(Plan[u][i], t)
    BY <1>4 DEF HalfOf
  <1> QED BY <1>2, <1>4, <1>5, KindsApart DEF Stages

\* Nothing of an operation after the current one is published.
LEMMA Beyond ==
    ASSUME RollbackIsApart, NEW u \in Users, Listed(u), NEW i, i > next[u],
           next[u] \in Nat, i \in Nat
    PROVE  Untouched(u, i)
  <1> SUFFICES ASSUME NEW st \in {"APPEND", "COMPACT"}, NEW n \in DOMAIN snapshots,
                      HalfOf(snapshots[n], u, i, st)
               PROVE  FALSE
    BY DEF Untouched, Done
  <1>1. n \in Mine(u)
    BY DEF Mine, HalfOf
  <1>2. PICK j \in 1..next[u], t \in Stages : HalfOf(snapshots[n], u, j, t)
    BY <1>1 DEF Listed
  <1>3. i = j
    BY <1>2, HalfIndex DEF Stages
  <1> QED BY <1>2, <1>3, SMT

\* What is written stays written.
LEMMA StillWritten ==
    ASSUME NEW u, NEW v, NEW i, GrowsBy(u), Written(v, i)
    PROVE  Written(v, i)'
  BY DEF GrowsBy, Written

\* A snapshot of u is no half of another user's operation.
LEMMA SameHalves ==
    ASSUME NEW u, NEW v, u # v, GrowsBy(u)
    PROVE  /\ \A n \in DOMAIN snapshots' \ DOMAIN snapshots : \A i, st :
                ~HalfOf(snapshots'[n], v, i, st)
           /\ \A i, st : Done(v, i, st)' <=> Done(v, i, st)
           /\ Mine(v)' = Mine(v)
           /\ \A n \in Mine(v) : n \in DOMAIN snapshots /\ snapshots'[n] = snapshots[n]
  <1>1. \A n \in DOMAIN snapshots' \ DOMAIN snapshots : \A i, st :
            ~HalfOf(snapshots'[n], v, i, st)
    BY DEF GrowsBy, HalfOf
  <1>2. \A i, st : Done(v, i, st)' <=> Done(v, i, st)
    BY <1>1 DEF Done, GrowsBy
  <1>3. Mine(v)' = Mine(v)
    BY DEF Mine, GrowsBy
  <1> QED BY <1>1, <1>2, <1>3 DEF Mine, GrowsBy

\* A step of u keeps what is known of every other user.
LEMMA Elsewhere ==
    ASSUME NEW u \in Users, NEW v \in Users, v # u, Others(u), GrowsBy(u),
           Local(v)
    PROVE  Local(v)'
  <1>0. /\ pc'[v] = pc[v] /\ next'[v] = next[v] /\ upto'[v] = upto[v]
        /\ stage'[v] = stage[v] /\ outcome'[v] = outcome[v]
        /\ base'[v] = base[v] /\ prep'[v] = prep[v]
    BY DEF Others
  <1>1. /\ \A n \in DOMAIN snapshots' \ DOMAIN snapshots : \A i, st :
                ~HalfOf(snapshots'[n], v, i, st)
        /\ \A i, st : Done(v, i, st)' <=> Done(v, i, st)
        /\ Mine(v)' = Mine(v)
        /\ \A n \in Mine(v) : n \in DOMAIN snapshots /\ snapshots'[n] = snapshots[n]
    BY SameHalves
  <1>2. Op(v)' = Op(v)
    BY <1>0 DEF Op
  <1>3. pc[v] \in InFlight => (Unpublished(v)' <=> Unpublished(v))
    <2> SUFFICES ASSUME pc[v] \in InFlight
                 PROVE  Unpublished(v)' <=> Unpublished(v)
      OBVIOUS
    <2>1. prep[v].user = v
      BY DEF Local, Carried, HalfOf
    <2> QED BY <1>0, <2>1, SMT DEF Unpublished, GrowsBy
  <1>4. Submitted(v)'
    BY <1>0, <1>2, StillWritten DEF Local, Submitted, Filterable
  <1>5. Staged(v)'
    BY <1>0, <1>1, <1>2, <1>3 DEF Local, Staged, Begun
  <1>6. Carried(v)'
    BY <1>0, <1>3 DEF Local, Carried
  <1>7. Finished(v)'
    BY <1>0, <1>1, <1>2 DEF Local, Finished
  <1>8. Unstarted(v)' => Untouched(v, next[v])'
    BY <1>0, <1>1, <1>2 DEF Local, Unstarted, Untouched, NothingPublished
  <1>9. Listed(v)'
    BY <1>0, <1>1, SMT DEF Local, Listed
  <1>10. Sequenced(v)'
    BY <1>1 DEF Local, Sequenced, GrowsBy
  <1> QED BY <1>4, <1>5, <1>6, <1>7, <1>8, <1>9, <1>10 DEF Local

\* The history is what it was.
LEMMA SameTable ==
    ASSUME UNCHANGED snapshots, NEW u
    PROVE  /\ \A i, st : Done(u, i, st)' <=> Done(u, i, st)
           /\ \A i : Untouched(u, i)' <=> Untouched(u, i)
           /\ Mine(u)' = Mine(u)
           /\ Sequenced(u)' <=> Sequenced(u)
           /\ \A i : Written(u, i)' <=> Written(u, i)
  <1>1. \A i, st : Done(u, i, st)' <=> Done(u, i, st)
    BY DEF Done
  <1>2. \A i : Untouched(u, i)' <=> Untouched(u, i)
    BY <1>1 DEF Untouched
  <1>3. Mine(u)' = Mine(u)
    BY DEF Mine
  <1>4. Sequenced(u)' <=> Sequenced(u)
    BY <1>1 DEF Sequenced
  <1>5. \A i : Written(u, i)' <=> Written(u, i)
    BY SMT DEF Written
  <1> QED BY <1>1, <1>2, <1>3, <1>4, <1>5

\* The snapshots of u are accounted for when its operation stays the same, and
\* when it goes on to a later one.
LEMMA ListedSame ==
    ASSUME UNCHANGED snapshots, NEW u \in Users, Listed(u), next'[u] = next[u],
           pc'[u] = "filter" => \A n \in Mine(u) : n <= base'[u].id
    PROVE  Listed(u)'
  <1>1. Mine(u)' = Mine(u)
    BY SameTable
  <1> QED BY <1>1 DEF Listed

\* And stay listed when the user moves on to later operations.
LEMMA ListedLater ==
    ASSUME RollbackIsApart, UNCHANGED snapshots, NEW u \in Users, Listed(u),
           next[u] \in Nat, next'[u] \in Nat, next'[u] > next[u],
           pc'[u] # "filter"
    PROVE  Listed(u)'
  <1>1. Mine(u)' = Mine(u)
    BY SameTable
  <1>2. Untouched(u, next'[u])
    BY Beyond
  <1>3. \A n \in DOMAIN snapshots, st \in {"APPEND", "COMPACT"} :
            ~HalfOf(snapshots[n], u, next'[u], st)
    BY <1>2 DEF Untouched, Done
  <1>4. Mine(u) \subseteq DOMAIN snapshots
    BY DEF Mine
  <1>5. 1..next[u] \subseteq 1..next'[u]
    BY SMT
  <1> QED BY <1>1, <1>3, <1>4, <1>5 DEF Listed

\* A call that has returned, or is about to be filtered.
LEMMA OutsideLocal ==
    ASSUME RollbackIsApart, UNCHANGED snapshots, NEW u \in Users, Local(u),
           pc'[u] \in {"idle", "filterHint", "filterLatest", "filter"},
           Submitted(u)', Listed(u)',
           Unstarted(u)' => Untouched(u, next'[u])
    PROVE  Local(u)'
  <1>1. /\ Untouched(u, next'[u]) => Untouched(u, next[u])'
        /\ Sequenced(u)'
    BY SameTable DEF Local
  <1>2. Staged(u)' /\ Carried(u)' /\ Finished(u)'
    BY DEF Staged, Begun, Carried, Finished, InFlight
  <1> QED BY <1>1, <1>2 DEF Local

\* A call that begins an operation of which nothing is published.
LEMMA BeginLocal ==
    ASSUME RollbackIsApart, TypeInv, UNCHANGED snapshots, NEW u \in Users,
           Local(u), NEW k \in DOMAIN Plan[u], Begin(u, k), next'[u] = k,
           Untouched(u, k), Submitted(u)', Listed(u)'
    PROVE  Local(u)'
  <1> DEFINE o == Plan[u][k]
  <1>1. /\ pc \in [Users -> Locations] /\ stage \in [Users -> Stages]
    BY DEF TypeInv, TypeOK
  <1>2. /\ stage'[u] = FirstStage(o)
        /\ pc'[u] = IF Misplaced(o) THEN "reject"
                    ELSE IF FirstStage(o) = "COMPACT" /\ ~HasCompactChanges(o)
                    THEN "finish" ELSE "hint"
    BY <1>1 DEF Begin
  <1>3. /\ Untouched(u, next[u])' /\ Sequenced(u)'
        /\ ~Done(u, k, "APPEND")' /\ ~Done(u, k, "COMPACT")'
    BY SameTable DEF Local, Untouched
  <1>4. Op(u)' = o
    BY DEF Op
  <1>5. /\ FirstStage(o) = "ROLLBACK" <=> o.op = "rollback"
        /\ FirstStage(o) = "APPEND" => NeedsAppend(o)
        /\ FirstStage(o) = "COMPACT" => ~NeedsAppend(o)
        /\ FirstStage(o) \in Stages
    BY DEF FirstStage, Stages
  <1> HIDE DEF o
  <1>6. Carried(u)'
    BY <1>2 DEF Carried, InFlight
  <1>7. Finished(u)'
    BY <1>2, <1>4, <1>5 DEF Finished
  <1>8. Staged(u)'
    <2> SUFFICES ASSUME Begun(u)'
                 PROVE  /\ stage'[u] = "ROLLBACK" <=> Op(u)'.op = "rollback"
                        /\ stage'[u] = "APPEND" =>
                            NeedsAppend(Op(u))' /\ ~Done(u, next[u], "COMPACT")'
                        /\ stage'[u] = "COMPACT" =>
                            /\ HasCompactChanges(Op(u))'
                            /\ ~NeedsAppend(Op(u))'
                        /\ stage'[u] # "ROLLBACK" => ~Done(u, next[u], stage[u])'
      BY DEF Staged
    <2>1. stage'[u] = "COMPACT" => HasCompactChanges(o)
      BY <1>2 DEF Begun, InFlight
    <2>2. stage'[u] \in {"APPEND", "COMPACT"} => ~Done(u, k, stage[u])'
      BY <1>3 DEF Done
    <2> QED BY <1>2, <1>3, <1>4, <1>5, <2>1, <2>2 DEF Stages
  <1> QED BY <1>3, <1>6, <1>7, <1>8 DEF Local

\* An operation that failed before its first half was published is untouched.
LEMMA NoTrace ==
    ASSUME NEW u \in Users, Local(u), stage[u] \in Stages,
           next[u] \in DOMAIN Plan[u],
           \/ pc[u] = "prepare"
           \/ pc[u] = "lost" /\ Unpublished(u)
           \/ pc[u] = "reject",
           stage[u] = "COMPACT" => ~NeedsAppend(Op(u))
    PROVE  Untouched(u, next[u])
  <1>1. CASE pc[u] = "reject"
    BY <1>1 DEF Local, Unstarted
  <1>2. CASE pc[u] # "reject"
    <2>1. Begun(u) /\ (pc[u] \in InFlight => Unpublished(u))
      BY <1>2 DEF Begun, InFlight
    <2>2. CASE stage[u] = "APPEND"
      BY <2>1, <2>2 DEF Local, Staged, Untouched
    <2>3. CASE stage[u] = "COMPACT"
      <3>1. ~Done(u, next[u], "COMPACT") /\ ~NeedsAppend(Op(u))
        BY <2>1, <2>3 DEF Local, Staged
      <3>2. ~Done(u, next[u], "APPEND")
        BY <3>1 DEF Done, HalfOf, Op
      <3> QED BY <3>1, <3>2 DEF Untouched
    <2>4. CASE stage[u] = "ROLLBACK"
      <3>1. Op(u).op = "rollback"
        BY <2>1, <2>4 DEF Local, Staged
      <3> QED BY <3>1 DEF Untouched, Done, HalfOf, Op
    <2> QED BY <2>2, <2>3, <2>4 DEF Stages
  <1> QED BY <1>1, <1>2

\* A call that returns an error.
LEMMA FailLocal ==
    ASSUME RollbackIsApart, TypeInv, UNCHANGED <<snapshots, attempt>>,
           NEW u \in Users, Local(u), NEW how \in {"failed", "uncertain"},
           Fail(u, how), pc[u] # "idle",
           \/ how = "uncertain"
           \/ pc[u] = "prepare"
           \/ pc[u] = "lost" /\ Unpublished(u)
           \/ pc[u] = "reject"
    PROVE  Local(u)'
  <1>1. /\ pc'[u] = "idle" /\ stage' = stage
        /\ IF Filterable(Op(u)) THEN next'[u] = next[u] /\ outcome'[u] = how
           ELSE next'[u] = next[u] + 1 /\ outcome'[u] = "none"
    BY FailView
  <1>2. /\ next[u] \in Nat /\ next[u] \in DOMAIN Plan[u]
        /\ stage[u] \in Stages
    <2>1. /\ next[u] \in 1..(Len(Plan[u]) + 1) /\ next[u] <= Len(Plan[u])
          /\ stage[u] \in Stages
      BY DEF TypeInv, TypeOK, CallInv
    <2> QED BY <2>1, PlanType, PlanAssumption, SMT
  <1>3. Submitted(u)'
    BY <1>1 DEF Submitted
  <1>4. CASE Filterable(Op(u))
    <2>1. Listed(u)'
      BY <1>1, <1>4, ListedSame DEF Local
    <2>2. ASSUME Unstarted(u)' PROVE Untouched(u, next'[u])
      <3>1. Op(u)' = Op(u)
        BY <1>1, <1>4 DEF Op
      <3>2. /\ how = "failed"
            /\ stage[u] = "COMPACT" => ~NeedsAppend(Op(u))
        BY <1>1, <1>4, <2>2, <3>1 DEF Unstarted, NothingPublished
      <3> QED BY <1>1, <1>2, <1>4, <3>2, NoTrace
    <2> QED BY <1>1, <1>3, <2>1, <2>2, OutsideLocal
  <1>5. CASE ~Filterable(Op(u))
    <2>1. next'[u] \in Nat /\ next'[u] > next[u]
      BY <1>1, <1>2, <1>5, SMT
    <2>2. Listed(u)'
      BY <1>1, <1>2, <2>1, ListedLater DEF Local
    <2>3. Untouched(u, next'[u])
      BY <1>2, <2>1, Beyond DEF Local
    <2> QED BY <1>1, <1>3, <2>2, <2>3, OutsideLocal
  <1> QED BY <1>4, <1>5

\* A step inside a call that goes on with its operation.
LEMMA WithinLocal ==
    ASSUME UNCHANGED snapshots, NEW u \in Users, Local(u),
           next'[u] = next[u], upto'[u] = upto[u], stage'[u] = stage[u],
           pc[u] # "idle", pc'[u] \notin {"idle", "reject", "finish"},
           pc'[u] \in {"filterHint", "filterLatest", "filter"} =>
                pc[u] \in {"filterHint", "filterLatest", "filter"},
           pc'[u] = "filter" => \A n \in Mine(u) : n <= base'[u].id,
           Begun(u)' => Begun(u),
           Begun(u)' /\ (pc'[u] \in InFlight => Unpublished(u)')
                => (pc[u] \in InFlight => Unpublished(u)),
           Carried(u)'
    PROVE  Local(u)'
  <1>1. /\ \A i, st : Done(u, i, st)' <=> Done(u, i, st)
        /\ Sequenced(u)'
        /\ \A i : Written(u, i)' <=> Written(u, i)
    BY SameTable DEF Local
  <1>2. Op(u)' = Op(u)
    BY DEF Op
  <1>3. Listed(u)'
    BY ListedSame DEF Local
  <1>4. Submitted(u)'
    BY <1>1, <1>2 DEF Local, Submitted, Filterable
  <1>5. Staged(u)'
    BY <1>1, <1>2 DEF Local, Staged
  <1>6. Finished(u)' /\ ~Unstarted(u)'
    BY DEF Finished, Unstarted
  <1> QED BY <1>1, <1>3, <1>4, <1>5, <1>6 DEF Local

\* The filter lets an operation through only when nothing of it is published:
\* had it been, the user's latest snapshot would carry its identifier.
LEMMA FilterSees ==
    ASSUME TypeInv, ChainInv, NEW u \in Users, Listed(u), pc[u] = "filter",
           next[u] \in DOMAIN Plan[u],
           ~CommittedByUser(u, base[u].id, Plan[u][next[u]].identifier)
    PROVE  Untouched(u, next[u])
  <1> SUFFICES ASSUME NEW st \in {"APPEND", "COMPACT"}, NEW m \in DOMAIN snapshots,
                      HalfOf(snapshots[m], u, next[u], st)
               PROVE  FALSE
    BY DEF Untouched, Done
  <1>1. m \in Mine(u)
    BY DEF Mine, HalfOf
  <1>2. PICK n \in Mine(u) : \A i \in Mine(u) : i <= n
    BY <1>1 DEF Listed
  <1>3. PICK t \in {"APPEND", "COMPACT"} : HalfOf(snapshots[n], u, next[u], t)
    BY <1>1, <1>2 DEF Listed
  <1>4. snapshots[n].identifier = Plan[u][next[u]].identifier
    BY <1>3 DEF HalfOf
  <1>5. Plan[u][next[u]].identifier <= snapshots[n].identifier
    <2>1. Plan[u][next[u]] \in Operation
      BY PlanAssumption, SMT
    <2> QED BY <1>4, <2>1, SMT DEF Operation
  <1>6. n \in Reachable(base[u].id)
    <2>1. /\ n \in DOMAIN snapshots /\ n \in Nat \ {0} /\ n <= base[u].id
          /\ base[u].id \in DOMAIN snapshots \cup {0}
          /\ DOMAIN snapshots \subseteq Nat \ {0}
      BY <1>2 DEF Mine, Listed, TypeInv, TypeOK, ChainInv, IsLoaded
    <2>2. base[u].id \in DOMAIN snapshots /\ base[u].id \in Nat
      BY <2>1, SMT
    <2>3. 1..base[u].id \subseteq DOMAIN snapshots
      BY <2>2 DEF ChainInv, History
    <2>4. n..base[u].id \subseteq 1..base[u].id
      BY <2>1, <2>2, SMT
    <2> QED BY <2>1, <2>3, <2>4 DEF Reachable
  <1>7. \A i \in Reachable(base[u].id) : snapshots[i].user = u => i <= n
    BY <1>2 DEF Reachable, Mine
  <1>8. snapshots[n].user = u
    BY <1>3 DEF HalfOf
  <1> QED BY <1>5, <1>6, <1>7, <1>8 DEF CommittedByUser
=============================================================================
