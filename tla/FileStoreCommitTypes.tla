----------------------- MODULE FileStoreCommitTypes -------------------------
(***************************************************************************)
(* Types, and the chain of snapshots: preserved by every step, for every   *)
(* plan and number of users.                                               *)
(***************************************************************************)
EXTENDS FileStoreCommitSteps

USE Zenon

-----------------------------------------------------------------------------
(* Types                                                                    *)

\* The limits are numbers.
LEMMA Bounds ==
    MaxRetries \in Nat /\ MaxFaults \in Nat /\ MaxIdentifier \in Nat
  BY PlanAssumption

\* Every TryCommit has a commit kind.
LEMMA KindType ==
    ASSUME NEW o, NEW st PROVE CommitKind(o, st) \in Kinds
  BY DEF CommitKind, Kinds

\* The row id counter stays a number.
LEMMA RowIdType ==
    ASSUME NEW o \in Operation, NEW st \in Stages, NEW b, b.nextRowId \in Nat,
           Cardinality(Delta(o, st, b).add) \in Nat,
           st = "ROLLBACK" => At(o.target).nextRowId \in Nat
    PROVE  NextRowId(o, st, b) \in Nat
  <1>1. CASE st = "ROLLBACK"
    <2>1. NextRowId(o, st, b) = IF At(o.target).nextRowId > b.nextRowId
                                THEN At(o.target).nextRowId ELSE b.nextRowId
      BY <1>1, Zenon DEF NextRowId
    <2> QED BY <1>1, <2>1
  <1>2. CASE st = "APPEND"
    <2>1. NextRowId(o, st, b) = b.nextRowId + Cardinality(Delta(o, st, b).add)
      BY <1>2, Zenon DEF NextRowId
    <2> QED BY <2>1, SMT
  <1>3. CASE st = "COMPACT"
    <2>1. NextRowId(o, st, b) = b.nextRowId
      BY <1>3, Zenon DEF NextRowId
    <2> QED BY <2>1
  <1> QED BY <1>1, <1>2, <1>3 DEF Stages

\* What an attempt that was not rejected builds is a snapshot.
LEMMA NewSnapshotType ==
    ASSUME Counting, TypeOK, NEW u \in Users, next[u] <= Len(Plan[u]), ~Rejected(u),
           NEW S \in SUBSET (base[u].base \cup base[u].delta),
           NEW x \in NewIndexes(u)
    PROVE  NewSnapshot(u, base[u], S, x) \in Snapshot
  <1> DEFINE o == Op(u)
             st == stage[u]
             b == base[u]
             d == Delta(o, st, b)
  <1>1. o \in Operation
    BY PlanType, SMT DEF Op, TypeOK
  <1>2. st \in Stages /\ attempt[u] + 1 \in Nat
    BY SMT DEF TypeOK
  <1>3. b \in Snapshot \cup {EmptyTable}
    BY DEF TypeOK
  <1>4. st = "ROLLBACK" => At(o.target) \in Snapshot \cup {EmptyTable}
    BY AtType DEF Rejected
  <1>5. d.add \subseteq Files /\ d.del \subseteq Files
    BY <1>1, <1>2, <1>3, <1>4, BaseFields, DeltaType
  <1>6. TotalRecordCount(o, st, b) \in Int
    <2>1. Cardinality(d.add) \in Nat /\ Cardinality(d.del) \in Nat
      BY <1>5 DEF Counting
    <2>2. /\ b.total \in Int
          /\ st = "ROLLBACK" => At(o.target).total \in Int
      BY <1>3, <1>4, BaseFields
    <2> QED BY <2>1, <2>2, SMT DEF TotalRecordCount
  <1>7. NextRowId(o, st, b) \in Nat
    BY <1>1, <1>2, <1>3, <1>4, <1>5, BaseFields, RowIdType DEF Counting
  <1>8. CommitKind(o, st) \in Kinds
    BY KindType
  <1>9. \A part \in {"list", "delta", "merged", "index"} :
            <<u, attempt[u] + 1, part>> \in FileNames
    BY <1>2 DEF FileNames
  <1>10. x \in FileNames \cup {None}
    <2>1. (st = "ROLLBACK" => At(o.target).index \in FileNames \cup {None})
          /\ b.index \in FileNames \cup {None}
      BY <1>3, <1>4, BaseFields
    <2> QED BY <1>9, <2>1 DEF NewIndexes, IndexManifests
  <1>11. MergeManifests(b, S, <<u, attempt[u] + 1, "merged">>)
            \subseteq FileNames
    BY <1>3, <1>9, BaseFields DEF MergeManifests
  <1>12. (b.live \ d.del) \cup d.add \subseteq Files /\ b.id + 1 \in Nat \ {0}
    BY <1>3, <1>5, BaseFields, SMT
  <1>13. o.identifier \in Nat /\ MaxIdentifier \in Nat
    BY <1>1, Bounds DEF Operation
  <1> HIDE DEF o, st, b, d
  <1> QED
    BY <1>2, <1>5, <1>6, <1>7, <1>8, <1>9, <1>10, <1>11, <1>12, <1>13
    DEF NewSnapshot, Snapshot, o, st, b, d

\* A call that returns resets its locals to values of their types.
LEMMA ReturnType ==
    ASSUME TypeInv, NEW u \in Users, Return(u)
    PROVE  /\ pc' \in [Users -> Locations]
           /\ pc' = [pc EXCEPT ![u] = "idle"]
           /\ upto' \in [Users -> Nat]
           /\ upto' = [upto EXCEPT ![u] = 0]
           /\ filtering' \in [Users -> BOOLEAN]
           /\ retry' \in [Users -> 0..MaxRetries]
           /\ hint' \in [Users -> Nat]
           /\ base' \in [Users -> Snapshot \cup {EmptyTable}]
           /\ prep' \in [Users -> Snapshot \cup {EmptyTable}]
           /\ prep' = [prep EXCEPT ![u] = EmptyTable]
  BY Bounds, SMT
  DEF TypeInv, TypeOK, Return, Forget, Locations

\* A caller moves on to operation k of its plan, or past the last one.
LEMMA NextOperation ==
    ASSUME TypeOK, NEW u \in Users, NEW k \in 1..(Len(Plan[u]) + 1),
           next' = [next EXCEPT ![u] = k]
    PROVE  /\ next' \in [Users -> Nat]
           /\ \A v \in Users : next'[v] \in 1..(Len(Plan[v]) + 1)
  <1>1. next \in [Users -> Nat]
        /\ \A v \in Users : next[v] \in 1..(Len(Plan[v]) + 1)
    BY DEF TypeOK
  <1>2. k \in Nat
    BY PlanType, SMT
  <1>3. next' \in [Users -> Nat]
    BY <1>1, <1>2
  <1>4. ASSUME NEW v \in Users PROVE next'[v] \in 1..(Len(Plan[v]) + 1)
    <2>1. CASE v = u
      <3>1. next'[v] = k
        BY <1>1, <2>1
      <3> QED BY <3>1, <2>1
    <2>2. CASE v # u
      <3>1. next'[v] = next[v]
        BY <1>1, <2>2
      <3> QED BY <3>1, <1>1
    <2> QED BY <2>1, <2>2
  <1> QED BY <1>3, <1>4

\* The operation after the one a user has reached.
LEMMA Successor ==
    ASSUME TypeOK, NEW u \in Users, next[u] <= Len(Plan[u])
    PROVE  next[u] + 1 \in 1..(Len(Plan[u]) + 1)
  <1>1. Len(Plan[u]) \in Nat
    BY PlanType
  <1> QED BY <1>1, SMT DEF TypeOK

\* A call that returns an error keeps the types, whatever step it fails in.
LEMMA FailType ==
    ASSUME TypeInv, NEW u \in Users, NEW how \in Outcomes,
           Fail(u, how), pc[u] # "idle",
           UNCHANGED <<snapshots, latestHint, files, attempt>>,
           manifests' \subseteq FileNames, faults' \in 0..MaxFaults
    PROVE  TypeInv'
  <1>1. next[u] <= Len(Plan[u]) /\ TypeOK
    BY DEF TypeInv, CallInv
  <1>2. /\ next' \in [Users -> Nat]
        /\ \A v \in Users : next'[v] \in 1..(Len(Plan[v]) + 1)
    <2>1. next[u] \in 1..(Len(Plan[u]) + 1)
      BY <1>1 DEF TypeOK
    <2>2. next[u] + 1 \in 1..(Len(Plan[u]) + 1)
      BY <1>1, Successor
    <2>3. PICK k \in {next[u], next[u] + 1} : next' = [next EXCEPT ![u] = k]
      BY Zenon DEF Fail
    <2> QED BY <1>1, <2>1, <2>2, <2>3, NextOperation, Zenon
  <1>3. outcome' \in [Users -> Outcomes]
    BY DEF Fail, TypeInv, TypeOK, Outcomes
  <1>4. \A v \in Users : v # u => next'[v] = next[v]
    BY DEF Fail, TypeInv, TypeOK
  <1>5. TypeOK'
    BY <1>2, <1>3, ReturnType, Zenon DEF Fail, TypeInv, TypeOK
  <1>6. CallInv'
    <2>1. pc' = [pc EXCEPT ![u] = "idle"] /\ upto' = [upto EXCEPT ![u] = 0]
          /\ prep' = [prep EXCEPT ![u] = EmptyTable]
      BY ReturnType DEF Fail
    <2>2. pc \in [Users -> Locations] /\ upto \in [Users -> Nat]
          /\ prep \in [Users -> Snapshot \cup {EmptyTable}]
      BY DEF TypeInv, TypeOK
    <2> QED BY <1>4, <2>1, <2>2 DEF TypeInv, CallInv, InFlight
  <1> QED BY <1>5, <1>6 DEF TypeInv

\* Where an action leaves the call variables of every other user alone, CallInv
\* is a matter of the acting user.
LEMMA CallInvStep ==
    ASSUME TypeInv, NEW u \in Users,
           \A v \in Users \ {u} :
                /\ pc'[v] = pc[v] /\ next'[v] = next[v]
                /\ upto'[v] = upto[v] /\ prep'[v] = prep[v],
           pc'[u] # "idle" =>
                next'[u] <= Len(Plan[u]) /\ upto'[u] <= Len(Plan[u]),
           pc'[u] \in InFlight => prep'[u] \in Snapshot
    PROVE  CallInv'
  BY DEF TypeInv, CallInv

\* A call that returns leaves the other users' calls inside their plans.
LEMMA ReturnCallInv ==
    ASSUME TypeInv, NEW u \in Users, NEW n, Return(u),
           next' = [next EXCEPT ![u] = n]
    PROVE  CallInv'
  <1>1. /\ pc \in [Users -> Locations] /\ upto \in [Users -> Nat]
        /\ next \in [Users -> Nat]
        /\ prep \in [Users -> Snapshot \cup {EmptyTable}]
    BY DEF TypeInv, TypeOK
  <1>2. \A v \in Users \ {u} :
            /\ pc'[v] = pc[v] /\ next'[v] = next[v]
            /\ upto'[v] = upto[v] /\ prep'[v] = prep[v]
    BY <1>1, ReturnType, SMT
  <1>3. pc'[u] = "idle"
    BY <1>1, ReturnType, SMT
  <1> QED BY <1>2, <1>3, CallInvStep DEF InFlight

\* Operation indexes are acknowledged or given up one set at a time.
LEMMA IndexSets ==
    ASSUME NEW f \in [Users -> SUBSET Nat], NEW u \in Users,
           NEW S \in SUBSET Nat
    PROVE  [f EXCEPT ![u] = f[u] \cup S] \in [Users -> SUBSET Nat]
  BY Zenon

\* One more retry stays within the limit when the limit was not reached.
LEMMA RetryBound ==
    ASSUME NEW f \in [Users -> 0..MaxRetries], NEW u \in Users,
           f[u] < MaxRetries
    PROVE  [f EXCEPT ![u] = f[u] + 1] \in [Users -> 0..MaxRetries]
  <1>1. f[u] \in 0..MaxRetries
    OBVIOUS
  <1>2. f[u] + 1 \in 0..MaxRetries
    BY <1>1, Bounds, SMT
  <1> DEFINE k == f[u] + 1
  <1>3. k \in 0..MaxRetries
    BY <1>2
  <1> HIDE DEF k
  <1>4. [f EXCEPT ![u] = k] \in [Users -> 0..MaxRetries]
    BY <1>3
  <1> QED BY <1>4 DEF k

\* The user whose call goes on with operation n.
LEMMA BeginCallInv ==
    ASSUME TypeInv, NEW u \in Users, NEW n \in 1..Len(Plan[u]), Begin(u, n),
           next' = [next EXCEPT ![u] = n], UNCHANGED upto,
           upto[u] <= Len(Plan[u]),
           \A v \in Users \ {u} : prep'[v] = prep[v]
    PROVE  CallInv'
  <1>1. /\ pc \in [Users -> Locations] /\ next \in [Users -> Nat]
    BY DEF TypeInv, TypeOK
  <1>2. \A v \in Users \ {u} : pc'[v] = pc[v] /\ next'[v] = next[v]
    BY <1>1, BeginType
  <1>3. next'[u] <= Len(Plan[u])
    BY <1>1, PlanType, SMT
  <1>4. pc'[u] \notin InFlight
    BY BeginType
  <1> QED BY <1>2, <1>3, <1>4, CallInvStep

\* The steps outside an attempt preserve the type invariant.
LEMMA CallType ==
    ASSUME TypeInv, NEW u \in Users, CallStep(u)
    PROVE  TypeInv'
  <1> USE DEF TypeInv
  <1>0. \A v \in Users : Len(Plan[v]) \in Nat
    BY PlanType
  <1>1. CASE Submit(u)
    <2>1. TypeOK'
      BY <1>1, BeginType, Zenon DEF Submit, Ready, TypeOK, store, attemptVars
    <2>2. CallInv'
      BY <1>1, <1>0, BeginType, CallInvStep, Zenon
      DEF Submit, Ready, TypeOK, store, attemptVars, Locations
    <2> QED BY <2>1, <2>2
  <1>2. CASE SubmitFiltered(u)
    <2>1. PICK k \in next[u]..Len(Plan[u]) : upto' = [upto EXCEPT ![u] = k]
      BY <1>2, ZenonT(30) DEF SubmitFiltered
    <2>2. k \in Nat /\ k <= Len(Plan[u]) /\ next[u] <= Len(Plan[u])
      BY <1>0, <2>1, SMT DEF TypeOK
    <2>3. TypeOK'
      BY <1>2, <2>1, <2>2
      DEF SubmitFiltered, TypeOK, store, attemptVars, Locations, Outcomes
    <2>4. CallInv'
      BY <1>2, <2>1, <2>2, CallInvStep, Zenon
      DEF SubmitFiltered, TypeOK, store, attemptVars, InFlight
    <2> QED BY <2>3, <2>4
  <1>3. CASE Abort(u)
    <2>1. aborted' \in [Users -> SUBSET Nat]
      <3>1. {next[u]} \subseteq Nat
        BY DEF TypeOK
      <3> QED BY <1>3, <3>1, IndexSets DEF Abort, TypeOK
    <2>2. /\ next' \in [Users -> Nat]
          /\ \A v \in Users : next'[v] \in 1..(Len(Plan[v]) + 1)
      BY <1>3, Successor, NextOperation, Zenon DEF Abort
    <2>3. TypeOK'
      BY <1>3, <2>1, <2>2, Zenon DEF Abort, TypeOK, attemptVars, Outcomes
    <2>4. CallInv'
      BY <1>3, CallInvStep, ZenonT(30) DEF Abort, TypeOK, attemptVars, InFlight
    <2> QED BY <2>3, <2>4
  <1>4. CASE Filter(u)
    <2>1. PICK k \in next[u]..(upto[u] + 1) :
            /\ next' = [next EXCEPT ![u] = k]
            /\ acked' = [acked EXCEPT ![u] = @ \cup next[u]..(k - 1)]
            /\ \/ /\ Return(u)
                  /\ outcome' = [outcome EXCEPT ![u] = "none"]
                  /\ UNCHANGED stage
               \/ /\ Return(u)
                  /\ outcome' = [outcome EXCEPT ![u] = "failed"]
                  /\ stage' = [stage EXCEPT ![u] = FirstStage(Plan[u][k])]
               \/ /\ k..upto[u] # {}
                  /\ Begin(u, k)
                  /\ Forget(u)
                  /\ UNCHANGED <<upto, filtering, outcome, retry>>
      BY <1>4, Zenon DEF Filter
    <2>2. /\ pc[u] = "filter"
          /\ UNCHANGED <<snapshots, latestHint, files, manifests, aborted,
                         attempt, faults>>
      BY <1>4 DEF Filter, store
    <2>3. /\ next[u] \in Nat /\ upto[u] \in Nat /\ upto[u] <= Len(Plan[u])
          /\ next[u] >= 1 /\ k \in 1..(Len(Plan[u]) + 1)
      <3>1. next[u] \in Nat /\ next[u] >= 1 /\ upto[u] \in Nat
        BY SMT DEF TypeOK
      <3>2. upto[u] <= Len(Plan[u])
        BY <2>2, Zenon DEF CallInv
      <3>3. k \in next[u]..(upto[u] + 1)
        BY <2>1
      <3> QED BY <1>0, <3>1, <3>2, <3>3, SMT
    <2>4. /\ next' \in [Users -> Nat]
          /\ \A v \in Users : next'[v] \in 1..(Len(Plan[v]) + 1)
      BY <2>1, <2>3, NextOperation, Zenon
    <2>5. acked' \in [Users -> SUBSET Nat]
      <3>1. next[u]..(k - 1) \subseteq Nat
        BY <2>3, SMT
      <3> QED BY <2>1, <3>1, IndexSets DEF TypeOK
    <2>6. ASSUME Return(u), outcome' \in [Users -> Outcomes],
                 stage' \in [Users -> Stages]
          PROVE  TypeInv'
      <3>1. TypeOK'
        BY <2>2, <2>4, <2>5, <2>6, ReturnType, Zenon DEF TypeOK
      <3>2. CallInv'
        BY <2>1, <2>6, ReturnCallInv, Zenon
      <3> QED BY <3>1, <3>2
    <2>7. CASE /\ Return(u) /\ outcome' = [outcome EXCEPT ![u] = "none"]
               /\ UNCHANGED stage
      BY <2>6, <2>7, Zenon DEF TypeOK, Outcomes
    <2>8. CASE /\ Return(u) /\ outcome' = [outcome EXCEPT ![u] = "failed"]
               /\ stage' = [stage EXCEPT ![u] = FirstStage(Plan[u][k])]
      BY <2>6, <2>8, StageType, Zenon DEF TypeOK, Outcomes
    <2>9. CASE /\ k..upto[u] # {} /\ Begin(u, k) /\ Forget(u)
               /\ UNCHANGED <<upto, filtering, outcome, retry>>
      <3>1. TypeOK'
        BY <2>2, <2>4, <2>5, <2>9, BeginType, Zenon DEF TypeOK, Forget
      <3>2. k \in 1..Len(Plan[u])
        BY <2>3, <2>9, <1>0, SMT
      <3>3. \A v \in Users \ {u} : prep'[v] = prep[v]
        BY <2>9 DEF Forget, TypeOK
      <3>4. CallInv'
        BY <2>1, <2>3, <2>9, <3>2, <3>3, BeginCallInv, Zenon
      <3> QED BY <3>1, <3>4
    <2> QED BY <2>1, <2>7, <2>8, <2>9
  <1>5. CASE Finish(u)
    <2>1. /\ pc[u] = "finish"
          /\ next' = [next EXCEPT ![u] = @ + 1]
          /\ acked' = [acked EXCEPT ![u] = @ \cup {next[u]}]
          /\ UNCHANGED <<snapshots, latestHint, files, manifests, aborted,
                         attempt, faults>>
      BY <1>5 DEF Finish, store
    <2>2. /\ next' \in [Users -> Nat]
          /\ \A v \in Users : next'[v] \in 1..(Len(Plan[v]) + 1)
      BY <2>1, Successor, NextOperation, Zenon DEF CallInv
    <2>5. acked' \in [Users -> SUBSET Nat]
      <3>1. {next[u]} \subseteq Nat
        BY DEF TypeOK
      <3> QED BY <2>1, <3>1, IndexSets DEF TypeOK
    <2>3. CASE /\ next[u] < upto[u] /\ Begin(u, next[u] + 1)
               /\ UNCHANGED <<upto, filtering, outcome, retry, attemptVars>>
      <3>1. TypeOK'
        BY <2>1, <2>2, <2>3, <2>5, BeginType, Zenon DEF TypeOK, attemptVars
      <3>2. upto[u] <= Len(Plan[u]) /\ next[u] + 1 \in 1..Len(Plan[u])
        BY <1>0, <2>1, <2>3, SMT DEF CallInv, TypeOK
      <3>3. CallInv'
        BY <2>1, <2>3, <3>2, BeginCallInv, Zenon DEF attemptVars
      <3> QED BY <3>1, <3>3
    <2>4. CASE /\ Return(u) /\ outcome' = [outcome EXCEPT ![u] = "none"]
               /\ UNCHANGED stage
      <3>1. outcome' \in [Users -> Outcomes]
        BY <2>4 DEF TypeOK, Outcomes
      <3>2. TypeOK'
        BY <2>1, <2>2, <2>4, <2>5, <3>1, ReturnType, Zenon DEF TypeOK
      <3>3. CallInv'
        BY <2>1, <2>4, ReturnCallInv, Zenon
      <3> QED BY <3>2, <3>3
    <2> QED BY <1>5, <2>3, <2>4 DEF Finish
  <1>6. CASE Reject(u)
    BY <1>6, FailType, Zenon DEF Reject, store, Outcomes, TypeOK
  <1> QED BY <1>1, <1>2, <1>3, <1>4, <1>5, <1>6 DEF CallStep

\* Every action preserves the type invariant.
LEMMA TypeInvNext ==
    ASSUME Counting, TypeInv, [Next]_vars
    PROVE  TypeInv'
  <1> USE DEF TypeInv
  <1>1. ASSUME NEW u \in Users, ReadHint(u) PROVE TypeInv'
    <2>1. TypeOK'
      BY <1>1, SMT DEF ReadHint, TypeOK, store, call, Locations
    <2>2. CallInv'
      BY <1>1, CallInvStep DEF ReadHint, TypeOK, CallInv, call, InFlight
    <2> QED BY <2>1, <2>2
  <1>2. ASSUME NEW u \in Users, LoadLatest(u) PROVE TypeInv'
    <2>1. CASE Fail(u, "uncertain")
      BY <1>2, <2>1, FailType, Zenon DEF LoadLatest, store, Outcomes, TypeOK
    <2>2. CASE ~Fail(u, "uncertain")
      <3>1. PICK id \in DOMAIN snapshots \cup {0} :
                /\ base' = [base EXCEPT ![u] = At(id)]
                /\ hint' = [hint EXCEPT ![u] = 0]
                /\ pc' = [pc EXCEPT ![u] =
                            IF pc[u] = "latest" THEN "prepare" ELSE "filter"]
                /\ UNCHANGED <<call, stage, retry, prep>>
        BY <1>2, <2>2 DEF LoadLatest
      <3>2. At(id) \in Snapshot \cup {EmptyTable}
        BY AtType
      <3>3. TypeOK'
        BY <1>2, <3>1, <3>2
        DEF LoadLatest, TypeOK, store, call, Locations
      <3>4. CallInv'
        BY <1>2, <3>1, CallInvStep
        DEF LoadLatest, TypeOK, CallInv, call, InFlight
      <3> QED BY <3>3, <3>4
    <2> QED BY <2>1, <2>2
  <1>3. ASSUME NEW u \in Users, Prepare(u) PROVE TypeInv'
    <2>1. CASE Rejected(u)
      BY <1>3, <2>1, FailType, Zenon DEF Prepare, Outcomes, TypeOK
    <2>2. CASE ~Rejected(u)
      <3>1. PICK S \in MergeGroups(base[u]), x \in NewIndexes(u) :
                LET s == NewSnapshot(u, base[u], S, x) IN
                /\ prep' = [prep EXCEPT ![u] = s]
                /\ manifests' = manifests \cup
                      {n \in Referenced(s) : <<n[1], n[2]>> = s.uuid}
                /\ attempt' = [attempt EXCEPT ![u] = @ + 1]
                /\ pc' = [pc EXCEPT ![u] = "exists"]
                /\ UNCHANGED <<call, stage, retry, hint, base>>
        BY <1>3, <2>2 DEF Prepare
      <3> DEFINE s == NewSnapshot(u, base[u], S, x)
      <3>2. s \in Snapshot
        BY <1>3, <2>2, NewSnapshotType, ZenonT(30)
        DEF Prepare, CallInv, MergeGroups
      <3>3. Referenced(s) \subseteq FileNames
        BY <3>2 DEF Referenced, Snapshot
      <3> HIDE DEF s
      <3>4. TypeOK'
        <4>1. /\ prep' \in [Users -> Snapshot \cup {EmptyTable}]
              /\ attempt' \in [Users -> Nat]
              /\ pc' \in [Users -> Locations]
          BY <3>1, <3>2, SMT DEF TypeOK, Locations, s
        <4>2. manifests' \subseteq FileNames
          BY <3>1, <3>3 DEF TypeOK, s
        <4>3. UNCHANGED <<snapshots, latestHint, files, faults, next, upto,
                          filtering, outcome, acked, aborted, stage, retry,
                          hint, base>>
          BY <1>3, <3>1 DEF Prepare, call
        <4> QED BY <4>1, <4>2, <4>3 DEF TypeOK
      <3>5. CallInv'
        BY <1>3, <3>1, <3>2, CallInvStep, Zenon
        DEF Prepare, TypeOK, CallInv, call, s
      <3> QED BY <3>4, <3>5
    <2> QED BY <2>1, <2>2
  <1>4. ASSUME NEW u \in Users, CheckExists(u) PROVE TypeInv'
    <2>1. TypeOK'
      BY <1>4
      DEF CheckExists, TypeOK, store, call, attemptVars, Locations
    <2>2. CallInv'
      BY <1>4, CallInvStep
      DEF CheckExists, TypeOK, CallInv, call, attemptVars, InFlight
    <2> QED BY <2>1, <2>2
  <1>5. ASSUME NEW u \in Users, PutSnapshot(prep[u]), prep[u] \in Snapshot
         PROVE  /\ DOMAIN snapshots' \subseteq Nat \ {0}
                /\ \A n \in DOMAIN snapshots' : snapshots'[n] \in Snapshot
    <2>1. prep[u].id \in Nat \ {0}
      BY <1>5 DEF Snapshot
    <2> QED BY <1>5, <2>1 DEF PutSnapshot, TypeOK
  <1>6. ASSUME NEW u \in Users, Rename(u) PROVE TypeInv'
    <2>1. prep[u] \in Snapshot
      BY <1>6, Zenon DEF Rename, CallInv, InFlight
    <2>2. /\ DOMAIN snapshots' \subseteq Nat \ {0}
          /\ \A n \in DOMAIN snapshots' : snapshots'[n] \in Snapshot
      BY <1>5, <1>6, <2>1, Zenon DEF Rename, TypeOK
    <2>3. /\ \E l \in {"confirm", "publishHint", "replace"} :
                pc' = [pc EXCEPT ![u] = l]
          /\ UNCHANGED <<latestHint, files, manifests, call, stage, retry,
                         attempt, attemptVars, faults>>
      BY <1>6, Zenon DEF Rename
    <2>4. TypeOK'
      BY <2>2, <2>3 DEF TypeOK, call, attemptVars, Locations
    <2>5. CallInv'
      BY <1>6, <2>1, <2>3, CallInvStep, ZenonT(30)
      DEF Rename, TypeOK, CallInv, call, attemptVars
    <2> QED BY <2>4, <2>5
  <1>7. ASSUME NEW u \in Users, Replace(u) PROVE TypeInv'
    <2>1. prep[u] \in Snapshot
      BY <1>7 DEF Replace, CallInv, InFlight
    <2>2. /\ DOMAIN snapshots' \subseteq Nat \ {0}
          /\ \A n \in DOMAIN snapshots' : snapshots'[n] \in Snapshot
      BY <1>5, <1>7, <2>1 DEF Replace
    <2>3. TypeOK'
      BY <1>7, <2>2, Zenon DEF Replace, TypeOK, call, attemptVars, Locations
    <2>4. CallInv'
      BY <1>7, <2>1, CallInvStep, ZenonT(30)
      DEF Replace, TypeOK, CallInv, call, attemptVars
    <2> QED BY <2>3, <2>4
  <1>8. ASSUME NEW u \in Users, Confirm(u) PROVE TypeInv'
    <2>1. CASE prep[u].id \notin DOMAIN snapshots
      BY <1>8, <2>1, FailType, Zenon DEF Confirm, store, Outcomes, TypeOK
    <2>2. CASE prep[u].id \in DOMAIN snapshots
      <3>1. /\ pc[u] = "confirm"
            /\ \E l \in {"publishHint", "lost"} : pc' = [pc EXCEPT ![u] = l]
            /\ UNCHANGED <<store, call, stage, retry, attempt, attemptVars,
                           faults>>
        BY <1>8, <2>2, Zenon DEF Confirm
      <3>2. TypeOK'
        BY <3>1 DEF TypeOK, store, call, attemptVars, Locations
      <3>3. CallInv'
        BY <3>1, CallInvStep, Zenon
        DEF TypeOK, CallInv, call, attemptVars, InFlight
      <3> QED BY <3>2, <3>3
    <2> QED BY <2>1, <2>2
  <1>9. ASSUME NEW u \in Users, PublishHint(u) PROVE TypeInv'
    <2>1. /\ pc[u] = "publishHint"
          /\ latestHint' = prep[u].id
          /\ Forget(u)
          /\ retry' = [retry EXCEPT ![u] = 0]
          /\ \E l \in {"hint", "finish"} : pc' = [pc EXCEPT ![u] = l]
          /\ \/ stage' = [stage EXCEPT ![u] = "COMPACT"]
             \/ stage' = stage
          /\ UNCHANGED <<snapshots, files, manifests, call, attempt, faults>>
      BY <1>9 DEF PublishHint
    <2>2. prep[u].id \in Nat
      BY <2>1, Zenon DEF CallInv, InFlight, Snapshot
    <2>3. MaxRetries \in Nat
      BY Bounds
    <2>4. /\ retry' \in [Users -> 0..MaxRetries]
          /\ pc' \in [Users -> Locations]
          /\ stage' \in [Users -> Stages]
          /\ hint' \in [Users -> Nat]
          /\ base' \in [Users -> Snapshot \cup {EmptyTable}]
          /\ prep' \in [Users -> Snapshot \cup {EmptyTable}]
      <3>1. 0 \in 0..MaxRetries
        BY <2>3, SMT
      <3> QED BY <2>1, <3>1, Zenon DEF TypeOK, Forget, Locations, Stages
    <2>6. TypeOK'
      BY <2>1, <2>2, <2>4, Zenon DEF TypeOK, call
    <2>5. CallInv'
      BY <2>1, CallInvStep DEF TypeOK, CallInv, Forget, call, InFlight
    <2> QED BY <2>5, <2>6
  <1>10. ASSUME NEW u \in Users, LoseRace(u) PROVE TypeInv'
    <2>1. /\ pc[u] = "lost" /\ manifests' \subseteq FileNames
          /\ UNCHANGED <<snapshots, latestHint, files, attempt, faults>>
      BY <1>10 DEF LoseRace, TypeOK
    <2>2. CASE Fail(u, "failed")
      BY <2>1, <2>2, FailType, Zenon DEF Outcomes, TypeOK
    <2>3. CASE /\ retry[u] < MaxRetries
               /\ retry' = [retry EXCEPT ![u] = @ + 1]
               /\ pc' = [pc EXCEPT ![u] = "hint"]
               /\ Forget(u)
               /\ UNCHANGED <<call, stage>>
      <3>1. retry' \in [Users -> 0..MaxRetries]
        BY <2>3, RetryBound, Zenon DEF TypeOK
      <3>2. TypeOK'
        BY <2>1, <2>3, <3>1 DEF TypeOK, Forget, call, Locations
      <3>3. CallInv'
        BY <2>1, <2>3, CallInvStep DEF TypeOK, CallInv, Forget, call, InFlight
      <3> QED BY <3>2, <3>3
    <2> QED BY <1>10, <2>2, <2>3, Zenon DEF LoseRace
  <1>11. ASSUME faults < MaxFaults, faults' = faults + 1
         PROVE  faults' \in 0..MaxFaults
    BY <1>11, Bounds, SMT DEF TypeOK
  <1>12. ASSUME NEW u \in Users, Crash(u) PROVE TypeInv'
    BY <1>11, <1>12, FailType, ZenonT(30) DEF Crash, store, Outcomes, TypeOK
  <1>13. ASSUME NEW u \in Users, FaultyPrepare(u) PROVE TypeInv'
    BY <1>11, <1>13, FailType, ZenonT(30)
    DEF FaultyPrepare, store, Outcomes, TypeOK
  <1>14. ASSUME NEW u \in Users, FaultyRename(u) PROVE TypeInv'
    <2>1. prep[u] \in Snapshot
      BY <1>14 DEF FaultyRename, CallInv, InFlight
    <2>2. /\ DOMAIN snapshots' \subseteq Nat \ {0}
          /\ \A n \in DOMAIN snapshots' : snapshots'[n] \in Snapshot
      BY <1>5, <1>14, <2>1 DEF FaultyRename, TypeOK
    <2>3. faults' \in 0..MaxFaults
      BY <1>11, <1>14 DEF FaultyRename
    <2>4. TypeOK'
      BY <1>14, <2>2, <2>3
      DEF FaultyRename, TypeOK, call, attemptVars, Locations
    <2>5. CallInv'
      BY <1>14, <2>1, CallInvStep, ZenonT(30)
      DEF FaultyRename, TypeOK, CallInv, call, attemptVars
    <2> QED BY <2>4, <2>5
  <1>15. ASSUME NEW u \in Users, FaultyHint(u) PROVE TypeInv'
    BY <1>11, <1>15, FailType, ZenonT(30)
    DEF FaultyHint, store, Outcomes, TypeOK
  <1>16. CASE UNCHANGED vars
    BY <1>16 DEF vars, store, call, attemptVars, TypeOK, CallInv
  <1> QED
    BY CallType, <1>1, <1>2, <1>3, <1>4, <1>6, <1>7, <1>8, <1>9, <1>10,
       <1>12, <1>13, <1>14, <1>15, <1>16
    DEF Next, Step, Fault, Terminated, CallStep

\* The type invariant holds for the new table.
LEMMA TypeInvInit == Init => TypeInv
  <1> SUFFICES ASSUME Init PROVE TypeInv
    OBVIOUS
  <1>1. files \subseteq Files
    <2>1. ASSUME NEW u \in Users PROVE PlannedFiles(u) \subseteq Files
      <3>1. \A i \in DOMAIN Plan[u] : Plan[u][i] \in Operation
        BY PlanType, PlanAssumption, SMT
      <3> QED BY <3>1 DEF PlannedFiles, Operation
    <2> QED BY <2>1 DEF Init
  <1>2. TypeOK
    <2>1. DOMAIN snapshots = {}
      BY DEF Init
    <2>2. /\ latestHint \in Nat /\ manifests \subseteq FileNames
          /\ faults \in 0..MaxFaults
      BY Bounds, SMT DEF Init
    <2>3. ASSUME NEW u \in Users PROVE next[u] \in 1..(Len(Plan[u]) + 1)
      BY PlanType, SMT DEF Init
    <2>4. /\ pc \in [Users -> Locations] /\ next \in [Users -> Nat]
          /\ upto \in [Users -> Nat] /\ stage \in [Users -> Stages]
          /\ filtering \in [Users -> BOOLEAN] /\ hint \in [Users -> Nat]
          /\ attempt \in [Users -> Nat] /\ outcome \in [Users -> Outcomes]
      BY DEF Init, Locations, Stages, Outcomes
    <2>5. retry \in [Users -> 0..MaxRetries]
      BY Bounds, SMT DEF Init
    <2>6. /\ base \in [Users -> Snapshot \cup {EmptyTable}]
          /\ prep \in [Users -> Snapshot \cup {EmptyTable}]
          /\ acked \in [Users -> SUBSET Nat]
          /\ aborted \in [Users -> SUBSET Nat]
      BY DEF Init
    <2> QED BY <1>1, <2>1, <2>2, <2>3, <2>4, <2>5, <2>6 DEF TypeOK
  <1>3. CallInv
    BY DEF Init, CallInv, InFlight
  <1> QED BY <1>2, <1>3 DEF TypeInv

-----------------------------------------------------------------------------
(* The chain of snapshots                                                   *)

\* A step of u that publishes nothing keeps the chain.
LEMMA ChainStep ==
    ASSUME ChainInv, NEW u \in Users, UNCHANGED snapshots,
           \A v \in Users \ {u} : /\ pc'[v] = pc[v] /\ base'[v] = base[v]
                                  /\ prep'[v] = prep[v],
           IsLoaded(base'[u]), pc'[u] # "replace",
           pc'[u] \in InFlight => Extends(prep'[u], base'[u])
    PROVE  ChainInv'
  <1>1. History'
    BY DEF ChainInv, History, At
  <1>2. ASSUME NEW v \in Users
        PROVE  /\ IsLoaded(base[v])'
               /\ pc'[v] \in InFlight => Extends(prep[v], base[v])'
               /\ pc'[v] # "replace"
    <2>1. CASE v = u
      BY <2>1 DEF IsLoaded, At, Extends
    <2>2. CASE v # u
      BY <2>2, SMT DEF ChainInv, IsLoaded, At, Extends
    <2> QED BY <2>1, <2>2
  <1> QED BY <1>1, <1>2 DEF ChainInv

\* The step of u that publishes the snapshot it prepared, under an id that is
\* free, keeps the chain.
LEMMA ChainPublish ==
    ASSUME TypeInv, ChainInv, NEW u \in Users, pc[u] \in InFlight,
           prep[u].id \notin DOMAIN snapshots, PutSnapshot(prep[u]),
           UNCHANGED <<base, prep>>, pc'[u] \in InFlight, pc'[u] # "replace",
           \A v \in Users \ {u} : pc'[v] = pc[v]
    PROVE  ChainInv'
  <1> DEFINE s == prep[u]
             b == base[u]
  <1>1. /\ s \in Snapshot /\ IsLoaded(b) /\ Extends(s, b)
        /\ DOMAIN snapshots \subseteq Nat \ {0}
    BY Zenon DEF TypeInv, TypeOK, CallInv, ChainInv
  <1>2. /\ s.id \in Nat \ {0} /\ b.id \in Nat /\ s.id - 1 = b.id
        /\ b.id # s.id
    <2>1. s.id \in Nat \ {0}
      BY <1>1 DEF Snapshot
    <2>2. b.id \in Nat
      BY <1>1, SMT DEF IsLoaded
    <2>3. s.id = b.id + 1
      BY <1>1 DEF Extends
    <2> HIDE DEF s, b
    <2> QED BY <2>1, <2>2, <2>3, SMT
  <1>3. /\ DOMAIN snapshots' = DOMAIN snapshots \cup {s.id}
        /\ snapshots'[s.id] = s
        /\ \A n \in DOMAIN snapshots : snapshots'[n] = snapshots[n]
    BY DEF PutSnapshot
  <1>4. \A n \in DOMAIN snapshots \cup {0} : At(n)' = At(n)
    BY <1>3 DEF At
  <1>5. \A c : IsLoaded(c) => IsLoaded(c)'
    BY <1>3, <1>4 DEF IsLoaded
  <1>6. 1..s.id \subseteq DOMAIN snapshots'
    <2>1. 1..b.id \subseteq DOMAIN snapshots
      BY <1>1, <1>2, SMT DEF IsLoaded, ChainInv, History
    <2> QED BY <1>2, <1>3, <2>1, SMT
  <1>7. ASSUME NEW n \in DOMAIN snapshots
        PROVE  /\ snapshots'[n].id = n
               /\ 1..n \subseteq DOMAIN snapshots'
               /\ snapshots'[n].live =
                   (At(n - 1)'.live \ snapshots'[n].del) \cup snapshots'[n].add
    <2>1. /\ snapshots[n].id = n /\ 1..n \subseteq DOMAIN snapshots
          /\ snapshots[n].live =
              (At(n - 1).live \ snapshots[n].del) \cup snapshots[n].add
      BY DEF ChainInv, History
    <2>2. n - 1 \in DOMAIN snapshots \cup {0}
      <3>1. n \in Nat \ {0}
        BY <1>1
      <3>2. n = 1 \/ n - 1 \in 1..n
        BY <3>1, SMT
      <3> QED BY <2>1, <3>1, <3>2, SMT
    <2> QED BY <1>3, <1>4, <2>1, <2>2
  <1>8. /\ snapshots'[s.id].id = s.id
        /\ snapshots'[s.id].live =
            (At(s.id - 1)'.live \ snapshots'[s.id].del) \cup snapshots'[s.id].add
    <2>1. At(s.id - 1)' = b
      BY <1>1, <1>2, <1>4 DEF IsLoaded
    <2> QED BY <1>1, <1>3, <2>1 DEF Extends
  <1>9. History'
    BY <1>3, <1>6, <1>7, <1>8 DEF History
  <1> QED BY <1>5, <1>9 DEF ChainInv, Extends, IsLoaded

\* A step that publishes nothing and leaves u with the base it had or none.
LEMMA ChainIdle ==
    ASSUME TypeInv, ChainInv, NEW u \in Users, UNCHANGED snapshots,
           \E l : pc' = [pc EXCEPT ![u] = l] /\ l \notin InFlight,
           Forget(u) \/ UNCHANGED attemptVars
              \/ UNCHANGED <<base, prep>>
    PROVE  ChainInv'
  <1>1. /\ pc \in [Users -> Locations]
        /\ base \in [Users -> Snapshot \cup {EmptyTable}]
        /\ prep \in [Users -> Snapshot \cup {EmptyTable}]
    BY DEF TypeInv, TypeOK
  <1>2. /\ pc'[u] \notin InFlight
        /\ \A v \in Users \ {u} : /\ pc'[v] = pc[v] /\ base'[v] = base[v]
                                  /\ prep'[v] = prep[v]
        /\ base'[u] \in {base[u], EmptyTable}
    BY <1>1 DEF Forget, attemptVars
  <1>3. IsLoaded(base'[u])
    <2>1. IsLoaded(EmptyTable)
      BY Zenon DEF IsLoaded, EmptyTable, At
    <2> QED BY <1>2, <2>1 DEF ChainInv
  <1>4. pc'[u] # "replace"
    BY <1>2 DEF InFlight
  <1> QED BY <1>2, <1>3, <1>4, ChainStep

\* A call that fails drops its attempt.
LEMMA ChainFail ==
    ASSUME TypeInv, ChainInv, NEW u \in Users, NEW how, UNCHANGED snapshots,
           Fail(u, how)
    PROVE  ChainInv'
  <1>1. pc' = [pc EXCEPT ![u] = "idle"] /\ Forget(u)
    BY DEF Fail, Return
  <1>2. "idle" \notin InFlight
    BY DEF InFlight
  <1> QED BY <1>1, <1>2, ChainIdle, ZenonT(30)

\* A step of an attempt in flight that publishes nothing.
LEMMA ChainFlight ==
    ASSUME TypeInv, ChainInv, NEW u \in Users, pc[u] \in InFlight,
           UNCHANGED <<snapshots, base, prep>>,
           NEW l, pc' = [pc EXCEPT ![u] = l], l # "replace"
    PROVE  ChainInv'
  <1>1. /\ pc \in [Users -> Locations]
    BY DEF TypeInv, TypeOK
  <1>2. pc'[u] # "replace" /\ \A v \in Users \ {u} : pc'[v] = pc[v]
    BY <1>1
  <1> QED BY <1>2, ChainStep DEF ChainInv

\* The snapshot an attempt builds extends the one it loaded.
LEMMA NewSnapshotExtends ==
    ASSUME NEW u, NEW b, NEW S, NEW x
    PROVE  Extends(NewSnapshot(u, b, S, x), b)
  BY Zenon DEF Extends, NewSnapshot

\* Where rename refuses an existing target in one step, every step keeps the
\* chain and leaves published snapshots alone.
LEMMA ChainInvNext ==
    ASSUME AtomicRename, TypeInv, ChainInv, [Next]_vars
    PROVE  /\ ChainInv'
           /\ \A n \in DOMAIN snapshots :
                n \in DOMAIN snapshots' /\ snapshots'[n] = snapshots[n]
  <1> DEFINE Kept == \A n \in DOMAIN snapshots :
                        n \in DOMAIN snapshots' /\ snapshots'[n] = snapshots[n]
  <1>0. /\ UNCHANGED snapshots => Kept
        /\ \A u \in Users : prep[u].id \notin DOMAIN snapshots
                            /\ PutSnapshot(prep[u]) => Kept
    BY DEF PutSnapshot
  <1> HIDE DEF Kept
  <1>1. ASSUME NEW u \in Users, Submit(u) PROVE ChainInv' /\ Kept
    <2>1. Begin(u, next[u]) /\ UNCHANGED <<snapshots, attemptVars>>
      BY <1>1 DEF Submit, store
    <2> QED BY <1>0, <2>1, BeginType, ChainIdle
  <1>2. ASSUME NEW u \in Users, SubmitFiltered(u) PROVE ChainInv' /\ Kept
    <2>1. /\ UNCHANGED <<snapshots, attemptVars>>
          /\ pc' = [pc EXCEPT ![u] = "filterHint"]
      BY <1>2 DEF SubmitFiltered, store
    <2>2. "filterHint" \notin InFlight
      BY DEF InFlight
    <2> QED BY <1>0, <2>1, <2>2, ChainIdle, ZenonT(30)
  <1>3. ASSUME NEW u \in Users, Abort(u) PROVE ChainInv' /\ Kept
    <2>1. UNCHANGED <<snapshots, attemptVars, pc>>
      BY <1>3 DEF Abort
    <2> QED BY <1>0, <2>1, ChainStep DEF ChainInv, attemptVars
  <1>4. ASSUME NEW u \in Users, Filter(u) PROVE ChainInv' /\ Kept
    <2>1. /\ UNCHANGED snapshots
          /\ Forget(u)
          /\ \/ pc' = [pc EXCEPT ![u] = "idle"]
             \/ \E k : Begin(u, k)
      BY <1>4, Zenon DEF Filter, store, Return
    <2>2. \E l : pc' = [pc EXCEPT ![u] = l] /\ l \notin InFlight
      BY <2>1, BeginType DEF InFlight
    <2> QED BY <1>0, <2>1, <2>2, ChainIdle, Zenon
  <1>5. ASSUME NEW u \in Users, Finish(u) PROVE ChainInv' /\ Kept
    <2>1. /\ UNCHANGED snapshots
          /\ Forget(u) \/ UNCHANGED attemptVars
          /\ \/ pc' = [pc EXCEPT ![u] = "idle"]
             \/ \E k : Begin(u, k)
      BY <1>5, Zenon DEF Finish, store, Return
    <2>2. \E l : pc' = [pc EXCEPT ![u] = l] /\ l \notin InFlight
      BY <2>1, BeginType DEF InFlight
    <2> QED BY <1>0, <2>1, <2>2, ChainIdle, ZenonT(30)
  <1>6. ASSUME NEW u \in Users, Reject(u) PROVE ChainInv' /\ Kept
    BY <1>0, <1>6, ChainFail DEF Reject, store
  <1>7. ASSUME NEW u \in Users, ReadHint(u) PROVE ChainInv' /\ Kept
    <2>1. /\ UNCHANGED <<snapshots, base, prep>>
          /\ \E l \in {"latest", "filterLatest"} : pc' = [pc EXCEPT ![u] = l]
      BY <1>7, Zenon DEF ReadHint, store
    <2>2. \E l : pc' = [pc EXCEPT ![u] = l] /\ l \notin InFlight
      BY <2>1, ZenonT(30) DEF InFlight
    <2> QED BY <1>0, <2>1, <2>2, ChainIdle, Zenon
  <1>8. ASSUME NEW u \in Users, LoadLatest(u) PROVE ChainInv' /\ Kept
    <2>1. UNCHANGED snapshots
      BY <1>8 DEF LoadLatest, store
    <2>2. CASE Fail(u, "uncertain")
      BY <1>0, <2>1, <2>2, ChainFail
    <2>3. ASSUME NEW id \in DOMAIN snapshots \cup {0},
                 base' = [base EXCEPT ![u] = At(id)], UNCHANGED prep,
                 \E l \in {"prepare", "filter"} : pc' = [pc EXCEPT ![u] = l]
          PROVE  ChainInv' /\ Kept
      <3>1. /\ pc \in [Users -> Locations]
            /\ base \in [Users -> Snapshot \cup {EmptyTable}]
        BY DEF TypeInv, TypeOK
      <3>2. /\ base'[u] = At(id) /\ pc'[u] \notin InFlight
            /\ \A v \in Users \ {u} : pc'[v] = pc[v] /\ base'[v] = base[v]
        BY <2>3, <3>1 DEF InFlight
      <3>3. IsLoaded(At(id))
        BY Zenon DEF ChainInv, History, IsLoaded, At, EmptyTable
      <3> QED BY <1>0, <2>1, <2>3, <3>2, <3>3, ChainStep DEF InFlight
    <2> QED BY <1>8, <2>2, <2>3 DEF LoadLatest
  <1>9. ASSUME NEW u \in Users, Prepare(u) PROVE ChainInv' /\ Kept
    <2>1. UNCHANGED snapshots
      BY <1>9 DEF Prepare
    <2>2. CASE Fail(u, "failed")
      BY <1>0, <2>1, <2>2, ChainFail
    <2>3. ASSUME NEW S, NEW x,
                 prep' = [prep EXCEPT ![u] = NewSnapshot(u, base[u], S, x)],
                 pc' = [pc EXCEPT ![u] = "exists"], UNCHANGED base
          PROVE  ChainInv' /\ Kept
      <3>1. /\ pc \in [Users -> Locations]
            /\ prep \in [Users -> Snapshot \cup {EmptyTable}]
        BY DEF TypeInv, TypeOK
      <3>2. /\ prep'[u] = NewSnapshot(u, base[u], S, x) /\ pc'[u] = "exists"
            /\ \A v \in Users \ {u} : pc'[v] = pc[v] /\ prep'[v] = prep[v]
        BY <2>3, <3>1
      <3>3. Extends(prep'[u], base'[u])
        BY <2>3, <3>2, NewSnapshotExtends, SMT
      <3> QED BY <1>0, <2>1, <2>3, <3>2, <3>3, ChainStep, Zenon DEF ChainInv
    <2> QED BY <1>9, <2>2, <2>3, ZenonT(30) DEF Prepare
  <1>10. ASSUME NEW u \in Users, CheckExists(u) PROVE ChainInv' /\ Kept
    <2>1. /\ pc[u] \in InFlight /\ UNCHANGED <<snapshots, base, prep>>
          /\ \E l \in {"lost", "rename"} : pc' = [pc EXCEPT ![u] = l]
      BY <1>10, ZenonT(30) DEF CheckExists, store, attemptVars, InFlight
    <2> QED BY <1>0, <2>1, ChainFlight, Zenon
  <1>11. ASSUME NEW u \in Users, pc[u] \in {"rename", "replace"},
                prep[u].id \notin DOMAIN snapshots, PutSnapshot(prep[u]),
                \E l \in {"confirm", "publishHint"} : pc' = [pc EXCEPT ![u] = l],
                UNCHANGED attemptVars
         PROVE  ChainInv' /\ Kept
    <2>1. pc \in [Users -> Locations]
      BY DEF TypeInv, TypeOK
    <2>2. /\ pc[u] \in InFlight /\ pc'[u] \in InFlight /\ pc'[u] # "replace"
          /\ \A v \in Users \ {u} : pc'[v] = pc[v]
      BY <1>11, <2>1 DEF InFlight
    <2>3. UNCHANGED <<base, prep>>
      BY <1>11 DEF attemptVars
    <2> QED BY <1>0, <1>11, <2>2, <2>3, ChainPublish
  <1>12. ASSUME NEW u \in Users, Rename(u) PROVE ChainInv' /\ Kept
    <2>1. CASE prep[u].id \in DOMAIN snapshots
      <3>1. /\ pc[u] \in InFlight /\ UNCHANGED <<snapshots, base, prep>>
            /\ pc' = [pc EXCEPT ![u] = "confirm"]
        BY <1>12, <2>1 DEF Rename, attemptVars, InFlight
      <3> QED BY <1>0, <3>1, ChainFlight, Zenon
    <2>2. CASE prep[u].id \notin DOMAIN snapshots
      BY <1>11, <1>12, <2>2 DEF Rename
    <2> QED BY <2>1, <2>2
  <1>13. ASSUME NEW u \in Users, Replace(u) PROVE ChainInv' /\ Kept
    BY <1>13 DEF Replace, ChainInv
  <1>14. ASSUME NEW u \in Users, Confirm(u) PROVE ChainInv' /\ Kept
    <2>1. CASE Fail(u, "uncertain")
      BY <1>0, <1>14, <2>1, ChainFail DEF Confirm, store
    <2>2. CASE /\ \E l \in {"publishHint", "lost"} : pc' = [pc EXCEPT ![u] = l]
               /\ UNCHANGED attemptVars
      <3>1. pc[u] \in InFlight /\ UNCHANGED <<snapshots, base, prep>>
        BY <1>14, <2>2 DEF Confirm, store, attemptVars, InFlight
      <3> QED BY <1>0, <2>2, <3>1, ChainFlight, ZenonT(30)
    <2> QED BY <1>14, <2>1, <2>2 DEF Confirm
  <1>15. ASSUME NEW u \in Users, PublishHint(u) PROVE ChainInv' /\ Kept
    <2>1. /\ UNCHANGED snapshots /\ Forget(u)
          /\ \E l \in {"hint", "finish"} : pc' = [pc EXCEPT ![u] = l]
      BY <1>15 DEF PublishHint
    <2>2. \E l : pc' = [pc EXCEPT ![u] = l] /\ l \notin InFlight
      BY <2>1, Zenon DEF InFlight
    <2> QED BY <1>0, <2>1, <2>2, ChainIdle, Zenon
  <1>16. ASSUME NEW u \in Users, LoseRace(u) PROVE ChainInv' /\ Kept
    <2>1. UNCHANGED snapshots
      BY <1>16, Zenon DEF LoseRace
    <2>2. CASE Fail(u, "failed")
      BY <1>0, <2>1, <2>2, ChainFail
    <2>3. CASE pc' = [pc EXCEPT ![u] = "hint"] /\ Forget(u)
      <3>1. "hint" \notin InFlight
        BY DEF InFlight
      <3> QED BY <1>0, <2>1, <2>3, <3>1, ChainIdle, ZenonT(30)
    <2> QED BY <1>16, <2>2, <2>3 DEF LoseRace
  <1>17. ASSUME NEW u \in Users, Crash(u) PROVE ChainInv' /\ Kept
    BY <1>0, <1>17, ChainFail DEF Crash, store
  <1>18. ASSUME NEW u \in Users, FaultyPrepare(u) PROVE ChainInv' /\ Kept
    BY <1>0, <1>18, ChainFail DEF FaultyPrepare, store
  <1>19. ASSUME NEW u \in Users, FaultyRename(u) PROVE ChainInv' /\ Kept
    <2>1. CASE UNCHANGED snapshots
      <3>1. /\ pc[u] \in InFlight /\ UNCHANGED <<base, prep>>
            /\ pc' = [pc EXCEPT ![u] = "confirm"]
        BY <1>19 DEF FaultyRename, attemptVars, InFlight
      <3> QED BY <1>0, <2>1, <3>1, ChainFlight, Zenon
    <2>2. CASE prep[u].id \notin DOMAIN snapshots /\ PutSnapshot(prep[u])
      BY <1>11, <1>19, <2>2, ZenonT(30) DEF FaultyRename
    <2> QED BY <1>19, <2>1, <2>2 DEF FaultyRename
  <1>20. ASSUME NEW u \in Users, FaultyHint(u) PROVE ChainInv' /\ Kept
    BY <1>0, <1>20, ChainFail DEF FaultyHint, store
  <1>21. ASSUME UNCHANGED <<snapshots, pc, base, prep>> PROVE ChainInv' /\ Kept
    <2>1. ChainInv'
      BY <1>21, Zenon DEF ChainInv, History, IsLoaded, Extends, At
    <2> QED BY <1>0, <1>21, <2>1
  <1>22. ASSUME NEW u \in Users, Step(u) PROVE ChainInv' /\ Kept
    BY <1>4, <1>5, <1>6, <1>7, <1>8, <1>9, <1>10, <1>12, <1>13, <1>14, <1>15,
       <1>16, <1>22 DEF Step
  <1>23. ASSUME NEW u \in Users, Fault(u) PROVE ChainInv' /\ Kept
    BY <1>17, <1>18, <1>19, <1>20, <1>23 DEF Fault
  <1>24. ChainInv' /\ Kept
    <2>1. CASE Terminated
      BY <1>21, <2>1 DEF Terminated, vars, store, attemptVars
    <2>2. ASSUME NEW u \in Users,
                 \/ Submit(u) \/ SubmitFiltered(u) \/ Abort(u)
                 \/ Step(u) \/ Fault(u)
          PROVE  ChainInv' /\ Kept
      BY <1>1, <1>2, <1>3, <1>22, <1>23, <2>2
    <2>3. CASE UNCHANGED vars
      BY <1>21, <2>3 DEF vars, store, attemptVars
    <2> QED BY <2>1, <2>2, <2>3 DEF Next
  <1> QED BY <1>24 DEF Kept

\* The empty table has an empty chain.
LEMMA ChainInvInit == Init => ChainInv
  <1> SUFFICES ASSUME Init PROVE ChainInv
    OBVIOUS
  <1>1. History
    BY DEF Init, History
  <1>2. IsLoaded(EmptyTable)
    BY Zenon DEF IsLoaded, At, EmptyTable
  <1>3. \A u \in Users : base[u] = EmptyTable /\ pc[u] = "idle"
    BY DEF Init
  <1> QED BY <1>1, <1>2, <1>3 DEF ChainInv, InFlight
=============================================================================
