---------------------- MODULE FileStoreCommitHistory ------------------------
(***************************************************************************)
(* What the history of the table keeps: the row id counter never falls,    *)
(* what an attempt cleans up is in no snapshot, the halves of an operation *)
(* are published in order and once, and what was acknowledged is there.    *)
(***************************************************************************)
EXTENDS FileStoreCommitSteps

USE Zenon

-----------------------------------------------------------------------------
(* Row ids                                                                  *)

\* Row ids never fall along the history, and what is in flight starts where
\* its base ended.
RowInv ==
    /\ RowIdsNotReused
    /\ \A u \in Users :
        pc[u] \in InFlight => base[u].nextRowId <= prep[u].nextRowId

\* The counter of a new snapshot is not below that of its base.
LEMMA NextRowIdGrows ==
    ASSUME NEW o \in Operation, NEW st \in Stages, NEW b, b.nextRowId \in Nat,
           Cardinality(Delta(o, st, b).add) \in Nat,
           st = "ROLLBACK" => At(o.target).nextRowId \in Nat
    PROVE  b.nextRowId <= NextRowId(o, st, b)
  <1>1. CASE st = "ROLLBACK"
    <2>1. NextRowId(o, st, b) = IF At(o.target).nextRowId > b.nextRowId
                                THEN At(o.target).nextRowId ELSE b.nextRowId
      BY <1>1, Zenon DEF NextRowId
    <2> QED BY <1>1, <2>1, SMT
  <1>2. CASE st = "APPEND"
    <2>1. NextRowId(o, st, b) = b.nextRowId + Cardinality(Delta(o, st, b).add)
      BY <1>2, Zenon DEF NextRowId
    <2> QED BY <2>1, SMT
  <1>3. CASE st = "COMPACT"
    <2>1. NextRowId(o, st, b) = b.nextRowId
      BY <1>3, Zenon DEF NextRowId
    <2> QED BY <2>1, SMT
  <1> QED BY <1>1, <1>2, <1>3 DEF Stages

\* Every step keeps the row ids in order.
LEMMA RowInvNext ==
    ASSUME Counting, AtomicRename, TypeInv, ChainInv, RowInv, NEW u \in Users, Acts(u)
    PROVE  RowInv'
  <1>0. Others(u)
    BY OthersKept
  <1>1. ASSUME UNCHANGED snapshots,
               pc'[u] \in InFlight => base'[u].nextRowId <= prep'[u].nextRowId
        PROVE  RowInv'
    <2>1. RowIdsNotReused'
      BY <1>1 DEF RowInv, RowIdsNotReused
    <2>2. ASSUME NEW v \in Users, pc'[v] \in InFlight
          PROVE  base'[v].nextRowId <= prep'[v].nextRowId
      BY <1>0, <1>1, <2>2 DEF Others, RowInv
    <2> QED BY <2>1, <2>2 DEF RowInv
  <1>2. CASE Rests(u) \/ Moves(u) \/ Cleans(u)
    BY <1>1, <1>2 DEF Rests, Moves, Cleans, RowInv
  <1>3. CASE Publishes(u)
    <2> DEFINE s == prep[u]
               b == base[u]
    <2>1. /\ pc[u] \in InFlight /\ s.id \notin DOMAIN snapshots
          /\ PutSnapshot(s) /\ UNCHANGED <<base, prep>>
      BY <1>3 DEF Publishes, InFlight
    <2>2. /\ s \in Snapshot
          /\ DOMAIN snapshots' = DOMAIN snapshots \cup {s.id}
          /\ snapshots'[s.id] = s
          /\ \A n \in DOMAIN snapshots : snapshots'[n] = snapshots[n]
          /\ s.id \in Nat \ {0} /\ b.id \in Nat /\ s.id = b.id + 1
          /\ b.id \in DOMAIN snapshots \cup {0} /\ b = At(b.id)
          /\ \A n \in DOMAIN snapshots : n \in Nat /\ n <= b.id
      BY <2>1, PublishedLast
    <2>3. b.nextRowId <= s.nextRowId /\ b.nextRowId \in Nat /\ s.nextRowId \in Nat
      BY <2>1, <2>2, BaseFields DEF RowInv, TypeInv, TypeOK
    <2> HIDE DEF s, b
    <2>4. \A n \in DOMAIN snapshots : snapshots[n].nextRowId \in Nat
      BY BaseFields DEF TypeInv, TypeOK
    <2>5. ASSUME NEW m \in DOMAIN snapshots
          PROVE  snapshots[m].nextRowId <= s.nextRowId
      <3>1. m \in Nat /\ m <= b.id /\ snapshots[m].nextRowId \in Nat /\ m # 0
        BY <2>2, <2>4 DEF TypeInv, TypeOK
      <3>2. b = snapshots[b.id] /\ b.id \in DOMAIN snapshots
        BY <2>2, <3>1, SMT DEF At
      <3>3. CASE m = b.id
        BY <2>3, <3>2, <3>3
      <3>4. CASE m < b.id
        <4>1. snapshots[m].nextRowId <= b.nextRowId
          BY <3>2, <3>4 DEF RowInv, RowIdsNotReused
        <4> QED BY <2>3, <3>1, <4>1, SMT
      <3> QED BY <2>2, <3>1, <3>3, <3>4, SMT
    <2>6. RowIdsNotReused'
      <3> SUFFICES ASSUME NEW m \in DOMAIN snapshots', NEW n \in DOMAIN snapshots',
                          m < n
                   PROVE  snapshots'[m].nextRowId <= snapshots'[n].nextRowId
        BY DEF RowIdsNotReused
      <3>1. CASE n = s.id
        <4>1. m \in DOMAIN snapshots
          BY <2>2, <3>1, SMT
        <4> QED BY <2>2, <2>5, <3>1, <4>1
      <3>2. CASE n # s.id
        <4>1. n \in DOMAIN snapshots /\ m \in DOMAIN snapshots
          <5>1. n \in DOMAIN snapshots /\ n \in Nat /\ n <= b.id
            BY <2>2, <3>2
          <5>2. m # s.id
            BY <2>2, <5>1, SMT
          <5> QED BY <2>2, <5>1, <5>2
        <4> QED BY <2>2, <4>1 DEF RowInv, RowIdsNotReused
      <3> QED BY <3>1, <3>2
    <2>7. ASSUME NEW v \in Users, pc'[v] \in InFlight
          PROVE  base'[v].nextRowId <= prep'[v].nextRowId
      <3>1. CASE v = u
        BY <2>1, <2>3, <3>1 DEF s, b
      <3>2. CASE v # u
        BY <1>0, <2>7, <3>2 DEF Others, RowInv
      <3> QED BY <3>1, <3>2
    <2> QED BY <2>6, <2>7 DEF RowInv
  <1>4. CASE Builds(u)
    <2>1. PICK S, x : prep'[u] = NewSnapshot(u, base[u], S, x)
      BY <1>4 DEF Builds
    <2>2. pc[u] = "prepare" /\ ~Rejected(u) /\ UNCHANGED <<snapshots, base>>
      BY <1>4 DEF Builds
    <2>3. /\ Op(u) \in Operation /\ stage[u] \in Stages
          /\ base[u].nextRowId \in Nat
          /\ Cardinality(Delta(Op(u), stage[u], base[u]).add) \in Nat
          /\ stage[u] = "ROLLBACK" => At(Op(u).target).nextRowId \in Nat
      <3>1. /\ base[u] \in Snapshot \cup {EmptyTable}
            /\ stage[u] = "ROLLBACK" =>
                    At(Op(u).target) \in Snapshot \cup {EmptyTable}
            /\ Delta(Op(u), stage[u], base[u]).add \in SUBSET Files
            /\ Op(u) \in Operation /\ stage[u] \in Stages
        BY <2>2, BuildContext
      <3>2. Cardinality(Delta(Op(u), stage[u], base[u]).add) \in Nat
        BY <3>1 DEF Counting
      <3>3. base[u].nextRowId \in Nat
        BY <3>1, BaseFields, Zenon
      <3>4. stage[u] = "ROLLBACK" => At(Op(u).target).nextRowId \in Nat
        BY <3>1, BaseFields, Zenon
      <3> QED BY <3>1, <3>2, <3>3, <3>4
    <2>4. base[u].nextRowId <= NextRowId(Op(u), stage[u], base[u])
      BY <2>3, NextRowIdGrows
    <2>5. prep'[u].nextRowId = NextRowId(Op(u), stage[u], base[u])
      <3>1. NewSnapshot(u, base[u], S, x).nextRowId =
                NextRowId(Op(u), stage[u], base[u])
        BY DEF NewSnapshot
      <3> QED BY <2>1, <3>1
    <2> QED BY <1>1, <2>2, <2>4, <2>5
  <1> QED BY <1>2, <1>3, <1>4, StoreSteps

-----------------------------------------------------------------------------
(* Metadata files                                                           *)

\* The metadata files of a snapshot are named by user and attempt.
LEMMA NamesType ==
    ASSUME NEW s \in Snapshot, NEW f \in Referenced(s)
    PROVE  f \in FileNames /\ f[1] \in Users /\ f[2] \in Nat
  <1>1. f \in FileNames
    BY DEF Referenced, Snapshot
  <1> QED BY <1>1 DEF FileNames

\* What an attempt takes over from its base.
LEMMA BaseNames ==
    ASSUME TypeInv, ChainInv, NEW u \in Users,
           NEW f \in base[u].base \cup base[u].delta \cup {base[u].index},
           f # None
    PROVE  \E n \in DOMAIN snapshots : f \in Referenced(snapshots[n])
  <1>1. base[u].id \in DOMAIN snapshots \cup {0} /\ base[u] = At(base[u].id)
    BY DEF ChainInv, IsLoaded
  <1>2. CASE base[u].id = 0
    <2>1. base[u] = EmptyTable
      BY <1>1, <1>2, Zenon DEF At
    <2> QED BY <2>1, SMT DEF EmptyTable
  <1>3. CASE base[u].id # 0
    <2>1. base[u].id \in DOMAIN snapshots /\ base[u] = snapshots[base[u].id]
      BY <1>1, <1>3 DEF At
    <2> QED BY <1>3, <2>1 DEF Referenced
  <1> QED BY <1>2, <1>3

\* A new snapshot refers to files of its own and to files of published ones, and
\* would clean up its own only.
LEMMA BuiltNames ==
    ASSUME TypeInv, ChainInv, NEW u \in Users, pc[u] = "prepare", ~Rejected(u),
           NEW S \in MergeGroups(base[u]), NEW x \in NewIndexes(u)
    PROVE  LET s == NewSnapshot(u, base[u], S, x) IN
           /\ s.uuid = <<u, attempt[u] + 1>>
           /\ \A f \in Referenced(s) :
                \/ <<f[1], f[2]>> = s.uuid
                \/ \E n \in DOMAIN snapshots : f \in Referenced(snapshots[n])
           /\ stage[u] # "ROLLBACK" =>
                \A f \in CleanUpTmpManifests(s, base[u]) :
                    <<f[1], f[2]>> = s.uuid
  <1> DEFINE s == NewSnapshot(u, base[u], S, x)
             b == base[u]
             own(part) == <<u, attempt[u] + 1, part>>
  <1>2. /\ s.uuid = <<u, attempt[u] + 1>>
        /\ s.delta = {own("delta")} /\ s.list = own("list") /\ s.index = x
        /\ s.base = IF stage[u] = "ROLLBACK" THEN {own("merged")}
                    ELSE MergeManifests(b, S, own("merged"))
    BY DEF NewSnapshot
  <1>3. s.base \subseteq b.base \cup b.delta \cup {own("merged")}
    BY <1>2 DEF MergeManifests
  <1>4. \/ x = own("index")
        \/ x = b.index
        \/ stage[u] = "ROLLBACK" /\ x = At(Op(u).target).index
    BY Zenon DEF NewIndexes, IndexManifests
  <1> HIDE DEF s, b
  <1>5. ASSUME NEW f \in Referenced(s)
        PROVE  \/ <<f[1], f[2]>> = s.uuid
               \/ \E n \in DOMAIN snapshots : f \in Referenced(snapshots[n])
    <2>1. f # None /\ f \in s.base \cup s.delta \cup {s.list, s.index}
      BY <1>5, Zenon DEF Referenced
    <2>2. CASE \E part \in {"merged", "delta", "list", "index"} : f = own(part)
      BY <1>2, <2>2, SMT
    <2>3. CASE f \in b.base \cup b.delta \cup {b.index}
      BY <2>1, <2>3, BaseNames DEF b
    <2>4. CASE stage[u] = "ROLLBACK" /\ f = At(Op(u).target).index
      <3>1. Op(u).target \in DOMAIN snapshots
        BY <2>4, BuildContext
      <3>2. /\ At(Op(u).target) = snapshots[Op(u).target]
            /\ snapshots[Op(u).target].id # 0
        BY <3>1 DEF At, TypeInv, TypeOK, Snapshot
      <3> QED BY <2>1, <2>4, <3>1, <3>2 DEF Referenced
    <2> QED BY <1>2, <1>3, <1>4, <2>1, <2>2, <2>3, <2>4
  <1>6. ASSUME stage[u] # "ROLLBACK", NEW f \in CleanUpTmpManifests(s, b)
        PROVE  <<f[1], f[2]>> = s.uuid
    <2>1. \E part \in {"merged", "delta", "list", "index"} : f = own(part)
      BY <1>2, <1>3, <1>4, <1>6 DEF CleanUpTmpManifests
    <2> QED BY <1>2, <2>1, SMT
  <1> QED BY <1>2, <1>5, <1>6 DEF s, b

\* Every step keeps the metadata files of the table and of every attempt.
LEMMA ManifestInvNext ==
    ASSUME AtomicRename, TypeInv, TypeInv', ChainInv, ManifestInv,
           NEW u \in Users, Acts(u)
    PROVE  ManifestInv'
  <1>0. /\ Others(u)
        /\ \A v \in Users : pc'[v] \in InFlight => prep'[v] \in Snapshot
        /\ attempt \in [Users -> Nat] /\ attempt' \in [Users -> Nat]
        /\ \A n \in DOMAIN snapshots : snapshots[n] \in Snapshot
        /\ \A v \in Users : pc[v] \in InFlight => prep[v] \in Snapshot
    BY OthersKept DEF TypeInv, TypeOK, CallInv
  <1>1. ASSUME NEW s, Safe(s), Referenced(s) \subseteq manifests',
               \A v \in Users : attempt[v] <= attempt'[v], s \in Snapshot
        PROVE  Safe(s)'
    <2>1. s.uuid[1] \in Users /\ s.uuid[2] \in Nat
      BY <1>1 DEF Snapshot
    <2>2. s.uuid[2] <= attempt'[s.uuid[1]]
      BY <1>0, <1>1, <2>1, SMT DEF Safe
    <2>3. \A f \in Referenced(s) : f[2] <= attempt'[f[1]]
      BY <1>0, <1>1, NamesType, SMT DEF Safe
    <2> QED BY <1>1, <2>2, <2>3 DEF Safe, Referenced
  <1>2. ASSUME UNCHANGED <<snapshots, manifests, attempt>>,
               \A v \in Users : pc'[v] \in InFlight =>
                    /\ pc[v] \in InFlight /\ prep'[v] = prep[v]
                    /\ base'[v] = base[v] /\ stage'[v] = stage[v]
                    /\ pc'[v] \in {"exists", "rename", "lost"} => Unpublished(v)
        PROVE  ManifestInv'
    <2>1. \A n \in DOMAIN snapshots : Safe(snapshots[n])'
      BY <1>2 DEF ManifestInv, Safe, Referenced
    <2>2. ASSUME NEW v \in Users, pc'[v] \in InFlight
          PROVE  Safe(prep[v])' /\ OwnNames(v)'
      <3>1. /\ pc[v] \in InFlight /\ prep'[v] = prep[v]
            /\ base'[v] = base[v] /\ stage'[v] = stage[v]
            /\ pc'[v] \in {"exists", "rename", "lost"} => Unpublished(v)
            /\ Safe(prep[v]) /\ OwnNames(v)
        BY <1>2, <2>2 DEF ManifestInv
      <3>2. Safe(prep[v])'
        BY <1>2, <3>1 DEF Safe, Referenced
      <3>3. OwnNames(v)'
        BY <1>2, <3>1, SMT DEF OwnNames, Unpublished, CleanUpTmpManifests
      <3> QED BY <3>2, <3>3
    <2>3. ASSUME NEW v \in Users, pc'[v] \in InFlight, Unpublished(v)'
          PROVE  /\ \A n \in DOMAIN snapshots' :
                        ~Mentions(snapshots[n], prep[v].uuid)'
                 /\ \A w \in Users \ {v} : pc'[w] \in InFlight =>
                        ~Mentions(prep[w], prep[v].uuid)'
      <3>1. pc[v] \in InFlight /\ Unpublished(v) /\ prep'[v] = prep[v]
        BY <1>2, <2>3 DEF Unpublished
      <3>2. \A n \in DOMAIN snapshots' : ~Mentions(snapshots[n], prep[v].uuid)'
        BY <1>2, <3>1, SMT DEF ManifestInv, Mentions, Referenced
      <3>3. ASSUME NEW w \in Users \ {v}, pc'[w] \in InFlight
            PROVE  ~Mentions(prep[w], prep[v].uuid)'
        <4>1. ~Mentions(prep[w], prep[v].uuid) /\ prep'[w] = prep[w]
          BY <1>2, <3>1, <3>3 DEF ManifestInv
        <4> QED BY <3>1, <4>1 DEF Mentions, Referenced
      <3> QED BY <3>2, <3>3
    <2> QED BY <1>2, <2>1, <2>2, <2>3 DEF ManifestInv
  <1>3. CASE Rests(u) \/ Moves(u)
    <2>1. UNCHANGED <<snapshots, manifests, attempt>>
      BY <1>3 DEF Rests, Moves
    <2>2. ASSUME NEW v \in Users, pc'[v] \in InFlight
          PROVE  /\ pc[v] \in InFlight /\ prep'[v] = prep[v]
                 /\ base'[v] = base[v] /\ stage'[v] = stage[v]
                 /\ pc'[v] \in {"exists", "rename", "lost"} => Unpublished(v)
      <3>1. CASE v # u
        BY <1>0, <2>2, <3>1 DEF Others, ManifestInv, OwnNames
      <3>2. CASE v = u
        <4>1. pc[u] \in InFlight => OwnNames(u)
          BY DEF ManifestInv
        <4> QED BY <1>3, <2>2, <3>2, <4>1 DEF Rests, Moves, OwnNames
      <3> QED BY <3>1, <3>2
    <2> QED BY <1>2, <2>1, <2>2
  <1>4. CASE Publishes(u)
    <2>1. /\ pc[u] \in InFlight /\ prep[u].id \notin DOMAIN snapshots
          /\ PutSnapshot(prep[u]) /\ pc'[u] \in {"confirm", "publishHint"}
          /\ UNCHANGED <<manifests, attempt, base, prep, stage>>
      BY <1>4 DEF Publishes, InFlight
    <2>2. /\ DOMAIN snapshots' = DOMAIN snapshots \cup {prep[u].id}
          /\ snapshots'[prep[u].id] = prep[u]
          /\ \A n \in DOMAIN snapshots : snapshots'[n] = snapshots[n]
      BY <2>1, PublishedLast
    <2>3. /\ ~Unpublished(u)'
          /\ \A v \in Users : Unpublished(v)' => Unpublished(v)
      BY <2>1, <2>2 DEF Unpublished
    <2>4. \A v \in Users : pc'[v] \in InFlight => pc[v] \in InFlight
      BY <1>0, <2>1 DEF Others
    <2>5. ASSUME NEW n \in DOMAIN snapshots' PROVE Safe(snapshots[n])'
      <3>1. Safe(snapshots'[n])
        BY <2>1, <2>2 DEF ManifestInv
      <3> QED BY <2>1, <3>1 DEF Safe, Referenced
    <2>6. ASSUME NEW v \in Users, pc'[v] \in InFlight
          PROVE  Safe(prep[v])' /\ OwnNames(v)'
      <3>1. Safe(prep[v]) /\ OwnNames(v) /\ OwnNames(u)
        BY <2>1, <2>4, <2>6 DEF ManifestInv
      <3>2. Safe(prep[v])'
        BY <2>1, <3>1 DEF Safe, Referenced
      <3>3. ASSUME pc'[v] \in {"exists", "rename", "lost"}
            PROVE  Unpublished(v)'
        <4>1. v # u /\ Unpublished(v)
          BY <1>0, <2>1, <3>1, <3>3 DEF Others, OwnNames
        <4>2. prep[v] # prep[u]
          BY <3>1, <4>1, SMT DEF OwnNames
        <4> QED BY <2>1, <2>2, <4>1, <4>2 DEF Unpublished
      <3>4. OwnNames(v)'
        BY <2>1, <3>1, <3>3 DEF OwnNames, CleanUpTmpManifests
      <3> QED BY <3>2, <3>4
    <2>7. ASSUME NEW v \in Users, pc'[v] \in InFlight, Unpublished(v)'
          PROVE  /\ \A n \in DOMAIN snapshots' :
                        ~Mentions(snapshots[n], prep[v].uuid)'
                 /\ \A w \in Users \ {v} : pc'[w] \in InFlight =>
                        ~Mentions(prep[w], prep[v].uuid)'
      <3>1. v # u /\ pc[v] \in InFlight /\ Unpublished(v)
        BY <2>3, <2>4, <2>7
      <3>2. \A w \in Users \ {v} : pc[w] \in InFlight =>
                ~Mentions(prep[w], prep[v].uuid)
        BY <3>1 DEF ManifestInv
      <3>3. ASSUME NEW n \in DOMAIN snapshots'
            PROVE  ~Mentions(snapshots'[n], prep[v].uuid)
        BY <2>1, <2>2, <3>1, <3>2 DEF ManifestInv
      <3> QED BY <2>1, <2>4, <3>2, <3>3 DEF Mentions, Referenced
    <2> QED BY <2>5, <2>6, <2>7 DEF ManifestInv
  <1>5. CASE Builds(u)
    <2>1. PICK S \in MergeGroups(base[u]), x \in NewIndexes(u) :
            LET s == NewSnapshot(u, base[u], S, x) IN
            /\ prep'[u] = s
            /\ manifests' = manifests \cup
                  {n \in Referenced(s) : <<n[1], n[2]>> = s.uuid}
      BY <1>5 DEF Builds
    <2> DEFINE s == NewSnapshot(u, base[u], S, x)
    <2>2. /\ pc[u] = "prepare" /\ ~Rejected(u) /\ pc'[u] = "exists"
          /\ attempt'[u] = attempt[u] + 1
          /\ UNCHANGED <<snapshots, base, stage>>
      BY <1>5 DEF Builds
    <2>3. /\ s \in Snapshot /\ s.uuid = <<u, attempt[u] + 1>>
          /\ \A f \in Referenced(s) :
                \/ <<f[1], f[2]>> = s.uuid
                \/ \E n \in DOMAIN snapshots : f \in Referenced(snapshots[n])
          /\ stage[u] # "ROLLBACK" =>
                \A f \in CleanUpTmpManifests(s, base[u]) : <<f[1], f[2]>> = s.uuid
      <3>1. s \in Snapshot
        BY <1>0, <2>1, <2>2 DEF InFlight
      <3> QED BY <2>2, <3>1, BuiltNames
    <2>4. prep'[u] = s /\ manifests' = manifests \cup
                  {n \in Referenced(s) : <<n[1], n[2]>> = s.uuid}
      BY <2>1
    <2> HIDE DEF s
    <2>5. \A v \in Users : /\ attempt[v] \in Nat /\ attempt'[v] \in Nat
                          /\ attempt[v] <= attempt'[v]
      BY <1>0, <2>2, SMT DEF Others
    <2>6. \A n \in DOMAIN snapshots : Safe(snapshots[n]) /\ Safe(snapshots[n])'
      BY <1>0, <1>1, <2>2, <2>4, <2>5, SMT DEF ManifestInv, Safe, Referenced
    <2>7. ASSUME NEW c \in Snapshot, Safe(c)
          PROVE  ~Mentions(c, s.uuid) /\ c # s
      <3>1. attempt[u] \in Nat
        BY <1>0
      <3>2. c # s
        BY <2>3, <2>7, <3>1, SMT DEF Safe
      <3>3. ASSUME NEW f \in Referenced(c), <<f[1], f[2]>> = s.uuid PROVE FALSE
        BY <2>3, <2>7, <3>1, <3>3, SMT DEF Safe
      <3> QED BY <3>2, <3>3 DEF Mentions
    <2>8. Safe(prep[u])'
      <3>1. Referenced(s) \subseteq manifests'
        BY <2>3, <2>4, <2>6 DEF Safe
      <3>2. s.uuid[2] <= attempt'[s.uuid[1]]
        BY <2>2, <2>3, <2>5, SMT
      <3>3. ASSUME NEW f \in Referenced(s) PROVE f[2] <= attempt'[f[1]]
        <4>1. CASE <<f[1], f[2]>> = s.uuid
          BY <2>2, <2>3, <2>5, <4>1, SMT
        <4>2. CASE \E n \in DOMAIN snapshots : f \in Referenced(snapshots[n])
          <5>1. PICK n \in DOMAIN snapshots : f \in Referenced(snapshots[n])
            BY <4>2
          <5>2. Safe(snapshots[n]) /\ snapshots[n] \in Snapshot
            BY <1>0, <2>6
          <5>3. f[2] <= attempt[f[1]] /\ f[1] \in Users /\ f[2] \in Nat
            BY <5>1, <5>2, NamesType DEF Safe
          <5> QED BY <2>5, <5>3, SMT
        <4> QED BY <2>3, <4>1, <4>2
      <3> QED BY <2>4, <3>1, <3>2, <3>3 DEF Safe, Referenced
    <2>9. Unpublished(u)'
      BY <1>0, <2>2, <2>4, <2>6, <2>7 DEF Unpublished
    <2>10. OwnNames(u)'
      BY <2>2, <2>3, <2>4, <2>9 DEF OwnNames, CleanUpTmpManifests
    <2>11. ASSUME NEW v \in Users, pc'[v] \in InFlight, v # u
           PROVE  /\ pc[v] \in InFlight /\ prep'[v] = prep[v]
                  /\ prep[v] \in Snapshot
                  /\ Safe(prep[v]) /\ Safe(prep[v])' /\ OwnNames(v)
                  /\ OwnNames(v)'
      <3>1. /\ pc[v] \in InFlight /\ prep'[v] = prep[v] /\ prep[v] \in Snapshot
            /\ Safe(prep[v]) /\ OwnNames(v) /\ pc'[v] = pc[v]
            /\ attempt'[v] = attempt[v]
        BY <1>0, <2>11 DEF Others, ManifestInv
      <3>2. Referenced(prep[v]) \subseteq manifests'
        BY <2>4, <3>1 DEF Safe
      <3>3. Safe(prep[v])'
        <4>1. prep[v].uuid[1] \in Users /\ prep[v].uuid[2] \in Nat
          BY <3>1 DEF Snapshot
        <4>2. prep[v].uuid[2] <= attempt'[prep[v].uuid[1]]
          BY <2>5, <3>1, <4>1, SMT DEF Safe
        <4>3. ASSUME NEW f \in Referenced(prep[v]) PROVE f[2] <= attempt'[f[1]]
          <5>1. f[1] \in Users /\ f[2] \in Nat /\ f[2] <= attempt[f[1]]
            BY <3>1, NamesType DEF Safe
          <5> QED BY <2>5, <5>1, SMT
        <4> QED BY <3>1, <3>2, <4>2, <4>3 DEF Safe, Referenced
      <3>4. OwnNames(v)'
        BY <2>2, <3>1 DEF OwnNames, Unpublished, CleanUpTmpManifests
      <3> QED BY <3>1, <3>3, <3>4
    <2>12. ASSUME NEW v \in Users, pc'[v] \in InFlight, Unpublished(v)'
           PROVE  /\ \A n \in DOMAIN snapshots' :
                        ~Mentions(snapshots[n], prep[v].uuid)'
                  /\ \A w \in Users \ {v} : pc'[w] \in InFlight =>
                        ~Mentions(prep[w], prep[v].uuid)'
      <3>1. CASE v = u
        <4>1. \A n \in DOMAIN snapshots : ~Mentions(snapshots[n], s.uuid)
          BY <1>0, <2>6, <2>7
        <4>2. \A w \in Users \ {u} : pc'[w] \in InFlight =>
                ~Mentions(prep'[w], s.uuid)
          BY <2>7, <2>11
        <4> QED BY <2>2, <2>4, <3>1, <4>1, <4>2 DEF Mentions, Referenced
      <3>2. CASE v # u
        <4>1. /\ pc[v] \in InFlight /\ prep'[v] = prep[v] /\ Unpublished(v)
              /\ prep[v].uuid = <<v, attempt[v]>>
          BY <2>2, <2>11, <2>12, <3>2 DEF Unpublished, OwnNames
        <4>2. \A n \in DOMAIN snapshots : ~Mentions(snapshots[n], prep[v].uuid)
          BY <4>1 DEF ManifestInv
        <4>3. ~Mentions(s, prep[v].uuid)
          BY <2>3, <3>2, <4>1, <4>2, SMT DEF Mentions
        <4>4. \A w \in Users \ {v, u} : pc'[w] \in InFlight =>
                ~Mentions(prep'[w], prep[v].uuid)
          BY <2>11, <4>1 DEF ManifestInv
        <4> QED BY <2>2, <2>4, <4>1, <4>2, <4>3, <4>4 DEF Mentions, Referenced
      <3> QED BY <3>1, <3>2
    <2>13. \A v \in Users : pc'[v] \in InFlight => Safe(prep[v])' /\ OwnNames(v)'
      BY <2>8, <2>10, <2>11
    <2> QED BY <2>2, <2>6, <2>12, <2>13 DEF ManifestInv
  <1>6. CASE Cleans(u)
    <2>1. /\ pc[u] = "lost" /\ pc'[u] \notin InFlight
          /\ manifests' = IF stage[u] = "ROLLBACK" THEN manifests
                          ELSE manifests \ CleanUpTmpManifests(prep[u], base[u])
          /\ UNCHANGED <<snapshots, attempt>>
      BY <1>6 DEF Cleans
    <2>2. pc[u] \in InFlight /\ Unpublished(u) /\ OwnNames(u)
      BY <2>1 DEF ManifestInv, OwnNames, InFlight
    <2>3. ASSUME NEW c, Referenced(c) \subseteq manifests,
                 ~Mentions(c, prep[u].uuid)
          PROVE  Referenced(c) \subseteq manifests'
      BY <2>1, <2>2, <2>3 DEF OwnNames, Mentions
    <2>4. ASSUME NEW n \in DOMAIN snapshots PROVE Safe(snapshots[n])'
      <3>1. Safe(snapshots[n]) /\ ~Mentions(snapshots[n], prep[u].uuid)
        BY <2>2 DEF ManifestInv
      <3>2. Referenced(snapshots[n]) \subseteq manifests'
        BY <2>3, <3>1 DEF Safe
      <3> QED BY <2>1, <3>1, <3>2 DEF Safe, Referenced
    <2>5. ASSUME NEW v \in Users, pc'[v] \in InFlight
          PROVE  /\ v # u /\ pc[v] \in InFlight /\ prep'[v] = prep[v]
                 /\ Safe(prep[v])' /\ OwnNames(v)'
      <3>1. /\ v # u /\ pc[v] \in InFlight /\ prep'[v] = prep[v]
            /\ base'[v] = base[v] /\ stage'[v] = stage[v] /\ pc'[v] = pc[v]
        BY <1>0, <2>1, <2>5 DEF Others
      <3>2. Safe(prep[v]) /\ OwnNames(v) /\ ~Mentions(prep[v], prep[u].uuid)
        BY <2>2, <3>1 DEF ManifestInv
      <3>3. Referenced(prep[v]) \subseteq manifests'
        BY <2>3, <3>2 DEF Safe
      <3>4. Safe(prep[v])'
        BY <2>1, <3>1, <3>2, <3>3 DEF Safe, Referenced
      <3>5. OwnNames(v)'
        BY <2>1, <3>1, <3>2 DEF OwnNames, Unpublished, CleanUpTmpManifests
      <3> QED BY <3>1, <3>4, <3>5
    <2>6. ASSUME NEW v \in Users, pc'[v] \in InFlight, Unpublished(v)'
          PROVE  /\ \A n \in DOMAIN snapshots' :
                        ~Mentions(snapshots[n], prep[v].uuid)'
                 /\ \A w \in Users \ {v} : pc'[w] \in InFlight =>
                        ~Mentions(prep[w], prep[v].uuid)'
      <3>1. pc[v] \in InFlight /\ Unpublished(v) /\ prep'[v] = prep[v]
        BY <2>1, <2>5, <2>6 DEF Unpublished
      <3>2. \A n \in DOMAIN snapshots' : ~Mentions(snapshots[n], prep[v].uuid)'
        BY <2>1, <3>1, SMT DEF ManifestInv, Mentions, Referenced
      <3>3. ASSUME NEW w \in Users \ {v}, pc'[w] \in InFlight
            PROVE  ~Mentions(prep[w], prep[v].uuid)'
        <4>1. ~Mentions(prep[w], prep[v].uuid) /\ prep'[w] = prep[w]
          BY <2>5, <3>1, <3>3 DEF ManifestInv
        <4> QED BY <3>1, <4>1 DEF Mentions, Referenced
      <3> QED BY <3>2, <3>3
    <2> QED BY <2>1, <2>4, <2>5, <2>6 DEF ManifestInv
  <1> QED BY <1>3, <1>4, <1>5, <1>6, StoreSteps

\* Both hold for the empty table.
LEMMA StoreInvInit == Init => RowInv /\ ManifestInv
  <1>1. Init => DOMAIN snapshots = {} /\ \A u \in Users : pc[u] \notin InFlight
    BY DEF Init, InFlight
  <1> QED BY <1>1 DEF RowInv, RowIdsNotReused, ManifestInv

-----------------------------------------------------------------------------
(* What the call and the attempt of a user do to the history              *)

\* The steps outside an attempt.
LEMMA CallLocal ==
    ASSUME RollbackIsApart, TypeInv, ChainInv, NEW u \in Users, Local(u),
           CallStep(u)
    PROVE  Local(u)'
  <1>0. /\ pc \in [Users -> Locations] /\ next \in [Users -> Nat]
        /\ upto \in [Users -> Nat] /\ outcome \in [Users -> Outcomes]
        /\ next[u] \in Nat /\ upto[u] \in Nat /\ next[u] >= 1
        /\ DOMAIN Plan[u] = 1..Len(Plan[u]) /\ Len(Plan[u]) \in Nat
        /\ pc[u] # "idle" =>
                next[u] \in DOMAIN Plan[u] /\ upto[u] \in DOMAIN Plan[u] \cup {0}
    BY Ranges
  <1>1. UNCHANGED <<snapshots, attempt>>
    BY DEF CallStep, Submit, SubmitFiltered, Abort, Filter, Finish, Reject, store
  <1>2. \A i : Written(u, i)' <=> Written(u, i)
    BY <1>1, SameTable
  <1>3. Listed(u)
    BY DEF Local
  <1>a. ASSUME NEW i, Begin(u, i)
        PROVE  pc'[u] \notin {"idle", "filterHint", "filterLatest", "filter"}
    BY <1>0, <1>a DEF Begin
  <1>4. CASE Submit(u)
    <2>1. /\ pc[u] = "idle" /\ next[u] <= Len(Plan[u]) /\ Written(u, next[u])
          /\ outcome[u] = "none" /\ Begin(u, next[u])
          /\ upto'[u] = next[u] /\ next'[u] = next[u]
      BY <1>0, <1>4 DEF Submit, Ready
    <2>2. next[u] \in DOMAIN Plan[u]
      BY <1>0, <2>1, SMT
    <2>3. Untouched(u, next[u])
      BY <2>1, <2>2 DEF Local, Unstarted
    <2>4. Listed(u)'
      BY <1>1, <1>3, <1>a, <2>1, ListedSame
    <2>5. Submitted(u)'
      <3>1. \A i \in next'[u]..upto'[u] : i = next[u]
        BY <1>0, <2>1, SMT
      <3> QED BY <1>0, <1>2, <1>a, <2>1, <3>1, SMT DEF Submitted
    <2> QED BY <1>1, <2>1, <2>2, <2>3, <2>4, <2>5, BeginLocal
  <1>5. CASE SubmitFiltered(u)
    <2>1. PICK k \in next[u]..Len(Plan[u]) :
                /\ \A i \in (next[u] + 1)..k : Written(u, i)
                /\ upto' = [upto EXCEPT ![u] = k]
      BY <1>5, ZenonT(30) DEF SubmitFiltered
    <2>2. /\ Written(u, next[u]) /\ Filterable(Op(u))
          /\ next'[u] = next[u] /\ pc'[u] = "filterHint" /\ upto'[u] = k
      BY <1>0, <1>5, <2>1 DEF SubmitFiltered, Ready
    <2>3. Op(u)' = Op(u)
      BY <2>2 DEF Op
    <2>4. \A i \in next[u]..k : i = next[u] \/ i \in (next[u] + 1)..k
      BY <1>0, SMT
    <2>5. Submitted(u)'
      BY <1>0, <1>2, <2>1, <2>2, <2>3, <2>4, SMT DEF Submitted, Filterable
    <2>6. Listed(u)'
      BY <1>1, <1>3, <2>2, ListedSame
    <2>7. ~Unstarted(u)'
      BY <2>2 DEF Unstarted
    <2> QED BY <1>1, <2>2, <2>5, <2>6, <2>7, OutsideLocal
  <1>6. CASE Abort(u)
    <2>1. next'[u] = next[u] + 1 /\ pc'[u] = "idle"
      BY <1>0, <1>6 DEF Abort
    <2>2. next'[u] \in Nat /\ next'[u] > next[u]
      BY <1>0, <2>1, SMT
    <2>3. Untouched(u, next'[u]) /\ Listed(u)'
      BY <1>0, <1>1, <1>3, <2>1, <2>2, Beyond, ListedLater
    <2>4. Submitted(u)'
      BY <2>1 DEF Submitted
    <2> QED BY <1>1, <2>1, <2>3, <2>4, OutsideLocal
  <1>7. CASE Filter(u)
    <2>1. pc[u] = "filter"
      BY <1>7 DEF Filter
    <2>2. PICK k \in next[u]..(upto[u] + 1) :
            /\ \A i \in k..upto[u] :
                    ~CommittedByUser(u, base[u].id, Plan[u][i].identifier)
            /\ next' = [next EXCEPT ![u] = k]
            /\ \/ k..upto[u] = {} /\ Return(u)
               \/ Return(u) /\ k..upto[u] # {}
               \/ k..upto[u] # {} /\ Begin(u, k) /\ UNCHANGED upto
      BY <1>7, Zenon DEF Filter
    <2>3. /\ next'[u] = k /\ k \in Nat /\ k >= next[u]
          /\ next[u] <= upto[u] /\ \A i \in next[u]..upto[u] : Written(u, i)
          /\ next[u] \in DOMAIN Plan[u]
      BY <1>0, <2>1, <2>2, SMT DEF Local, Submitted
    <2>4. k..upto[u] = {} => k > next[u]
      <3> SUFFICES ASSUME k = next[u] PROVE k \in k..upto[u]
        BY <1>0, <2>3, SMT
      <3> QED BY <1>0, <2>3, SMT
    <2>5. Untouched(u, k)
      <3>1. CASE k = next[u]
        <4>1. k \in k..upto[u]
          BY <1>0, <2>3, <3>1, SMT
        <4>2. ~CommittedByUser(u, base[u].id, Plan[u][next[u]].identifier)
          BY <2>2, <3>1, <4>1
        <4> QED BY <1>3, <2>1, <2>3, <3>1, <4>2, FilterSees
      <3>2. CASE k > next[u]
        BY <1>0, <1>3, <2>3, <3>2, Beyond
      <3> QED BY <1>0, <2>3, <3>1, <3>2, SMT
    <2>6. pc'[u] \notin {"filterHint", "filterLatest", "filter"}
      BY <1>0, <1>a, <2>2 DEF Return
    <2>7. Listed(u)'
      <3>1. CASE k = next[u]
        BY <1>1, <1>3, <2>3, <2>6, <3>1, ListedSame
      <3>2. CASE k > next[u]
        BY <1>0, <1>1, <1>3, <2>3, <2>6, <3>2, ListedLater
      <3> QED BY <1>0, <2>3, <3>1, <3>2, SMT
    <2>8. CASE Return(u)
      <3>1. pc'[u] = "idle"
        BY <1>0, <2>8 DEF Return
      <3>2. Submitted(u)'
        BY <3>1 DEF Submitted
      <3> QED BY <1>1, <2>3, <2>5, <2>7, <3>1, <3>2, OutsideLocal
    <2>9. CASE k..upto[u] # {} /\ Begin(u, k) /\ UNCHANGED upto
      <3>1. k <= upto[u] /\ upto[u] \in DOMAIN Plan[u]
        BY <1>0, <2>1, <2>3, <2>9, SMT
      <3>2. k \in DOMAIN Plan[u]
        BY <1>0, <2>3, <3>1, SMT
      <3>3. \A i \in k..upto[u] : i \in next[u]..upto[u]
        BY <1>0, <2>3, SMT
      <3>4. Submitted(u)'
        BY <1>2, <2>3, <2>6, <2>9, <3>1, <3>3 DEF Submitted
      <3> QED BY <1>1, <2>3, <2>5, <2>7, <2>9, <3>2, <3>4, BeginLocal
    <2> QED BY <2>2, <2>8, <2>9
  <1>8. CASE Finish(u)
    <2>1. /\ pc[u] = "finish" /\ next'[u] = next[u] + 1
          /\ \/ next[u] < upto[u] /\ Begin(u, next[u] + 1) /\ UNCHANGED upto
             \/ Return(u)
      BY <1>0, <1>8 DEF Finish
    <2>2. next'[u] \in Nat /\ next'[u] > next[u]
      BY <1>0, <2>1, SMT
    <2>3. pc'[u] \notin {"filterHint", "filterLatest", "filter"}
      BY <1>0, <1>a, <2>1 DEF Return
    <2>4. Untouched(u, next'[u]) /\ Listed(u)'
      BY <1>0, <1>1, <1>3, <2>2, <2>3, Beyond, ListedLater
    <2>5. CASE Return(u)
      <3>1. pc'[u] = "idle"
        BY <1>0, <2>5 DEF Return
      <3>2. Submitted(u)'
        BY <3>1 DEF Submitted
      <3> QED BY <1>1, <2>4, <3>1, <3>2, OutsideLocal
    <2>6. CASE next[u] < upto[u] /\ Begin(u, next[u] + 1) /\ UNCHANGED upto
      <3>1. next[u] + 1 \in DOMAIN Plan[u] /\ next[u] + 1 <= upto[u]
        BY <1>0, <2>1, <2>6, SMT
      <3>2. \A i \in (next[u] + 1)..upto[u] : i \in next[u]..upto[u]
        BY <1>0, SMT
      <3>3. \A i \in next[u]..upto[u] : Written(u, i)
        BY <2>1 DEF Local, Submitted
      <3>4. Submitted(u)'
        BY <1>2, <2>1, <2>3, <2>6, <3>1, <3>2, <3>3 DEF Submitted
      <3> QED BY <1>1, <2>1, <2>4, <2>6, <3>1, <3>4, BeginLocal
    <2> QED BY <2>1, <2>5, <2>6
  <1>9. CASE Reject(u)
    BY <1>1, <1>9, FailLocal DEF Reject
  <1> QED BY <1>4, <1>5, <1>6, <1>7, <1>8, <1>9 DEF CallStep

\* The half an attempt builds.
LEMMA BuiltHalf ==
    ASSUME TypeInv, NEW u \in Users, Local(u), pc[u] = "prepare", ~Rejected(u),
           NEW S, NEW x
    PROVE  HalfOf(NewSnapshot(u, base[u], S, x), u, next[u], stage[u])
  <1> DEFINE s == NewSnapshot(u, base[u], S, x)
  <1>1. Op(u) \in Operation /\ stage[u] \in Stages /\ next[u] \in DOMAIN Plan[u]
    BY BuildContext
  <1>2. s.user = u
    BY DEF NewSnapshot
  <1>3. s.identifier = IF stage[u] = "ROLLBACK" THEN MaxIdentifier
                       ELSE Op(u).identifier
    BY DEF NewSnapshot
  <1>4. s.kind = CommitKind(Op(u), stage[u])
    BY DEF NewSnapshot
  <1>5. s.add = Delta(Op(u), stage[u], base[u]).add
    BY DEF NewSnapshot
  <1> HIDE DEF s
  <1>6. /\ stage[u] = "ROLLBACK" <=> Op(u).op = "rollback"
        /\ stage[u] = "APPEND" => NeedsAppend(Op(u))
        /\ stage[u] = "COMPACT" => HasCompactChanges(Op(u))
    BY DEF Local, Staged, Begun
  <1>7. /\ stage[u] = "APPEND" =>
                Delta(Op(u), stage[u], base[u]).add \subseteq Op(u).add
        /\ stage[u] = "COMPACT" =>
                Delta(Op(u), stage[u], base[u]).add \subseteq Op(u).after
    BY DEF Delta, OverwriteChanges
  <1>8. HalfOf(s, u, next[u], stage[u])
    BY <1>1, <1>2, <1>3, <1>4, <1>5, <1>6, <1>7 DEF HalfOf, Op
  <1> QED BY <1>8 DEF s

\* An attempt that reads and prepares, or moves on without publishing.
LEMMA AttemptLocal ==
    ASSUME RollbackIsApart, TypeInv, ChainInv, ManifestInv, NEW u \in Users,
           Local(u),
           \/ ReadHint(u) \/ LoadLatest(u) \/ Builds(u) \/ Moves(u)
           \/ LoseRace(u)
    PROVE  Local(u)'
  <1>0. /\ pc \in [Users -> Locations]
        /\ base \in [Users -> Snapshot \cup {EmptyTable}]
    BY Ranges
  <1>1. CASE ReadHint(u)
    <2>1. /\ UNCHANGED <<snapshots, next, upto, stage>>
          /\ \/ pc[u] = "hint" /\ pc'[u] = "latest"
             \/ pc[u] = "filterHint" /\ pc'[u] = "filterLatest"
      BY <1>0, <1>1 DEF ReadHint, store, call
    <2> QED BY <2>1, WithinLocal DEF Begun, InFlight, Carried
  <1>2. CASE LoadLatest(u)
    <2>1. UNCHANGED <<snapshots, attempt>> /\ pc[u] \in {"latest", "filterLatest"}
      BY <1>2 DEF LoadLatest, store
    <2>2. PICK id \in {0, hint[u]} \cup DOMAIN snapshots :
            /\ FindLatest(hint[u], id)
            /\ IF id # 0 /\ id \notin DOMAIN snapshots
               THEN Fail(u, "uncertain")
               ELSE /\ base' = [base EXCEPT ![u] = At(id)]
                    /\ pc' = [pc EXCEPT ![u] =
                                IF pc[u] = "latest" THEN "prepare" ELSE "filter"]
                    /\ UNCHANGED <<call, stage, retry, prep>>
      BY <1>2 DEF LoadLatest
    <2>3. CASE id # 0 /\ id \notin DOMAIN snapshots
      BY <2>1, <2>2, <2>3, FailLocal
    <2>4. CASE id = 0 \/ id \in DOMAIN snapshots
      <3>1. /\ UNCHANGED <<next, upto, stage>>
            /\ base'[u] = At(id)
            /\ \/ pc[u] = "latest" /\ pc'[u] = "prepare"
               \/ pc[u] = "filterLatest" /\ pc'[u] = "filter"
        BY <1>0, <2>1, <2>2, <2>4 DEF call
      <3>2. At(id).id = id
        BY <2>4 DEF At, EmptyTable, ChainInv, History
      <3>3. \A n \in Mine(u) : n <= base'[u].id
        BY <2>2, <3>1, <3>2, FindLatestSeesAll, SMT DEF Mine, TypeInv, TypeOK
      <3> QED BY <2>1, <3>1, <3>3, WithinLocal DEF Begun, InFlight, Carried
    <2> QED BY <2>3, <2>4
  <1>3. CASE Builds(u)
    <2>1. /\ pc[u] = "prepare" /\ pc'[u] = "exists" /\ ~Rejected(u)
          /\ UNCHANGED <<snapshots, base, stage, next, upto>>
      BY <1>3 DEF Builds
    <2>2. PICK S, x : prep'[u] = NewSnapshot(u, base[u], S, x)
      BY <1>3 DEF Builds
    <2>3. HalfOf(prep'[u], u, next[u], stage[u])
      BY <2>1, <2>2, BuiltHalf
    <2>4. Carried(u)'
      BY <2>1, <2>3 DEF Carried
    <2> QED BY <2>1, <2>4, WithinLocal DEF Begun, InFlight
  <1>4. CASE Moves(u)
    <2>1. /\ UNCHANGED <<snapshots, base, prep, stage, next, upto>>
          /\ pc[u] \in InFlight /\ pc'[u] \in InFlight
          /\ pc'[u] = "publishHint" => ~Unpublished(u)
      BY <1>4 DEF Moves
    <2>2. Unpublished(u)' <=> Unpublished(u)
      BY <2>1 DEF Unpublished
    <2>3. HalfOf(prep'[u], u, next[u], stage[u])
      BY <2>1 DEF Local, Carried
    <2>4. Carried(u)'
      BY <2>1, <2>2, <2>3 DEF Carried
    <2> QED BY <2>1, <2>2, <2>4, WithinLocal DEF Begun, InFlight
  <1>5. CASE LoseRace(u)
    <2>1. /\ UNCHANGED <<snapshots, attempt>> /\ pc[u] = "lost"
          /\ \/ Fail(u, "failed")
             \/ pc' = [pc EXCEPT ![u] = "hint"] /\ UNCHANGED <<call, stage>>
      BY <1>5 DEF LoseRace
    <2>2. Unpublished(u)
      BY <2>1 DEF ManifestInv, OwnNames, InFlight
    <2>3. CASE Fail(u, "failed")
      BY <2>1, <2>2, <2>3, FailLocal
    <2>4. CASE pc' = [pc EXCEPT ![u] = "hint"] /\ UNCHANGED <<call, stage>>
      <3>1. pc'[u] = "hint" /\ UNCHANGED <<next, upto, stage>>
        BY <1>0, <2>4 DEF call
      <3> QED BY <2>1, <2>2, <3>1, WithinLocal DEF Begun, InFlight, Carried
    <2> QED BY <2>1, <2>3, <2>4
  <1> QED BY <1>1, <1>2, <1>3, <1>4, <1>5

\* A TryCommit that succeeded hands over to the next one or to the caller.
LEMMA HandOver ==
    ASSUME RollbackIsApart, TypeInv, NEW u \in Users, Local(u), PublishHint(u)
    PROVE  Local(u)'
  <1>0. pc \in [Users -> Locations] /\ stage \in [Users -> Stages]
    BY Ranges
  <1>1. /\ pc[u] = "publishHint" /\ UNCHANGED <<snapshots, next, upto>>
        /\ IF stage[u] = "APPEND" /\ HasCompactChanges(Op(u))
           THEN stage'[u] = "COMPACT" /\ pc'[u] = "hint"
           ELSE stage'[u] = stage[u] /\ pc'[u] = "finish"
    BY <1>0 DEF PublishHint, call
  <1>2. Op(u)' = Op(u)
    BY <1>1 DEF Op
  <1>3. /\ \A i, st : Done(u, i, st)' <=> Done(u, i, st)
        /\ Sequenced(u)'
        /\ \A i : Written(u, i)' <=> Written(u, i)
    BY <1>1, SameTable DEF Local
  <1>4. Done(u, next[u], stage[u])
    <2>1. HalfOf(prep[u], u, next[u], stage[u]) /\ ~Unpublished(u)
      BY <1>1 DEF Local, Carried, InFlight
    <2>2. prep[u].id \in DOMAIN snapshots /\ snapshots[prep[u].id] = prep[u]
      BY <2>1 DEF Unpublished
    <2> QED BY <2>1, <2>2 DEF Done
  <1>5. Listed(u)'
    BY <1>1, ListedSame DEF Local
  <1>6. Submitted(u)'
    BY <1>1, <1>3 DEF Local, Submitted
  <1>7. Carried(u)' /\ ~Unstarted(u)'
    BY <1>1 DEF Carried, Unstarted, InFlight
  <1>8. /\ stage[u] = "ROLLBACK" <=> Op(u).op = "rollback"
        /\ stage[u] = "APPEND" =>
            NeedsAppend(Op(u)) /\ ~Done(u, next[u], "COMPACT")
        /\ stage[u] = "COMPACT" /\ NeedsAppend(Op(u)) => Done(u, next[u], "APPEND")
    BY <1>1 DEF Local, Staged, Begun, InFlight
  <1>9. CASE stage[u] = "APPEND" /\ HasCompactChanges(Op(u))
    <2>1. Staged(u)'
      BY <1>1, <1>2, <1>3, <1>4, <1>8, <1>9 DEF Staged
    <2>2. Finished(u)'
      BY <1>1, <1>9 DEF Finished
    <2> QED BY <1>3, <1>5, <1>6, <1>7, <2>1, <2>2 DEF Local
  <1>10. CASE ~(stage[u] = "APPEND" /\ HasCompactChanges(Op(u)))
    <2>1. Staged(u)'
      BY <1>1, <1>10 DEF Staged, Begun, InFlight
    <2>2. NeedsAppend(Op(u)) => Done(u, next[u], "APPEND")
      BY <1>0, <1>4, <1>8 DEF NeedsAppend, Stages
    <2>3. FirstStage(Op(u)) = "COMPACT" => Done(u, next[u], "COMPACT")
      BY <1>0, <1>4, <1>8 DEF FirstStage, Stages
    <2>4. Finished(u)'
      BY <1>1, <1>2, <1>3, <2>2, <2>3 DEF Finished
    <2> QED BY <1>3, <1>5, <1>6, <1>7, <2>1, <2>4 DEF Local
  <1> QED BY <1>9, <1>10

\* The step that publishes adds the half in flight to the history.
LEMMA PublishLocal ==
    ASSUME RollbackIsApart, TypeInv, ChainInv, NEW u \in Users, Local(u),
           Publishes(u)
    PROVE  Local(u)' /\ GrowsBy(u)
  <1> DEFINE s == prep[u]
             i0 == next[u]
             st0 == stage[u]
  <1>1. /\ pc[u] = "rename" /\ pc'[u] \in {"confirm", "publishHint"}
        /\ s.id \notin DOMAIN snapshots /\ PutSnapshot(s)
        /\ UNCHANGED <<base, prep, stage, next, upto>>
    BY DEF Publishes
  <1>2. /\ DOMAIN snapshots' = DOMAIN snapshots \cup {s.id}
        /\ snapshots'[s.id] = s
        /\ \A n \in DOMAIN snapshots : snapshots'[n] = snapshots[n]
        /\ s.id \in Nat /\ \A n \in DOMAIN snapshots : n \in Nat /\ n < s.id
    <2>1. pc[u] \in InFlight
      BY <1>1 DEF InFlight
    <2>2. /\ DOMAIN snapshots' = DOMAIN snapshots \cup {s.id}
          /\ snapshots'[s.id] = s
          /\ \A n \in DOMAIN snapshots : snapshots'[n] = snapshots[n]
          /\ s.id \in Nat \ {0} /\ base[u].id \in Nat
          /\ s.id = base[u].id + 1
          /\ \A n \in DOMAIN snapshots : n \in Nat /\ n <= base[u].id
      BY <1>1, <2>1, PublishedLast
    <2> QED BY <2>2, SMT
  <1>3. HalfOf(s, u, i0, st0)
    BY <1>1 DEF Local, Carried, InFlight
  <1>4. st0 \in Stages /\ i0 \in Nat /\ i0 >= 1 /\ i0 \in DOMAIN Plan[u]
    BY <1>1, Ranges
  <1>5. /\ st0 = "ROLLBACK" <=> Plan[u][i0].op = "rollback"
        /\ st0 = "APPEND" => ~Done(u, i0, "COMPACT")
        /\ st0 = "APPEND" => NeedsAppend(Plan[u][i0])
        /\ st0 = "COMPACT" => HasCompactChanges(Plan[u][i0])
        /\ st0 = "COMPACT" /\ NeedsAppend(Plan[u][i0]) => Done(u, i0, "APPEND")
        /\ st0 # "ROLLBACK" => ~Done(u, i0, st0)
    <2>1. Begun(u) /\ Unpublished(u)
      BY <1>1 DEF Begun, InFlight, Unpublished
    <2> QED BY <2>1 DEF Local, Staged, Op
  <1>6. GrowsBy(u)
    BY <1>2, <1>3 DEF GrowsBy, HalfOf
  <1>7. ASSUME NEW i, NEW st \in {"APPEND", "COMPACT"}, HalfOf(s, u, i, st)
        PROVE  i = i0 /\ st = st0
    BY <1>3, <1>4, <1>7, HalfIndex DEF Stages
  <1>8. Submitted(u)'
    BY <1>1, <1>6, StillWritten DEF Local, Submitted
  <1>9. s.user = u
    BY <1>3 DEF HalfOf
  <1>10. ~Unpublished(u)'
    BY <1>1, <1>2 DEF Unpublished
  <1>11. Carried(u)'
    BY <1>1, <1>3, <1>10 DEF Carried
  <1>12. Finished(u)' /\ ~Unstarted(u)'
    BY <1>1 DEF Finished, Unstarted
  <1> HIDE DEF s, i0, st0
  <1>13. \A i, st : Done(u, i, st)' <=> Done(u, i, st) \/ HalfOf(s, u, i, st)
    BY <1>2 DEF Done
  <1>14. Staged(u)'
    <2>1. \A i : i = i0 /\ st0 = "APPEND" => ~Done(u, i, "COMPACT")'
      BY <1>5, <1>7, <1>13
    <2>2. \A i : i = i0 /\ st0 = "COMPACT" /\ NeedsAppend(Plan[u][i0])
                    => Done(u, i, "APPEND")'
      BY <1>5, <1>13
    <2>3. stage'[u] = st0 /\ next'[u] = i0 /\ pc'[u] \in InFlight
      BY <1>1 DEF st0, i0, InFlight
    <2>4. Op(u)' = Plan[u][i0]
      BY <2>3 DEF Op
    <2>5. /\ st0 = "APPEND" => ~Done(u, next[u], "COMPACT")'
          /\ st0 = "COMPACT" /\ NeedsAppend(Plan[u][i0]) =>
                Done(u, next[u], "APPEND")'
      BY <2>1, <2>2, <2>3
    <2> QED BY <1>5, <1>10, <2>3, <2>4, <2>5 DEF Staged
  <1>15. Mine(u)' = Mine(u) \cup {s.id}
    BY <1>2, <1>9 DEF Mine
  <1>16. \A n \in Mine(u) : /\ n \in DOMAIN snapshots /\ snapshots'[n] = snapshots[n]
                            /\ n \in Nat /\ n < s.id
    BY <1>2 DEF Mine
  <1>17. Listed(u)'
    <2>0. next'[u] = i0 /\ next[u] = i0
      BY <1>1 DEF i0
    <2>1. ASSUME NEW n \in Mine(u)'
          PROVE  \E i \in 1..i0, st \in Stages : HalfOf(snapshots'[n], u, i, st)
      <3>1. CASE n = s.id
        BY <1>2, <1>3, <1>4, <3>1, SMT
      <3>2. CASE n \in Mine(u)
        BY <1>16, <2>0, <3>2 DEF Local, Listed
      <3> QED BY <1>15, <3>1, <3>2
    <2>2. ASSUME NEW m \in Mine(u)', NEW n \in Mine(u)',
                 NEW st \in {"APPEND", "COMPACT"}, m <= n,
                 HalfOf(snapshots'[m], u, i0, st)
          PROVE  \E t \in {"APPEND", "COMPACT"} : HalfOf(snapshots'[n], u, i0, t)
      <3>1. CASE n = s.id
        <4>1. st0 # "ROLLBACK"
          BY <1>5, <2>2 DEF HalfOf
        <4> QED BY <1>2, <1>3, <1>4, <3>1, <4>1 DEF Stages
      <3>2. CASE n \in Mine(u)
        <4>1. m \in Mine(u)
          BY <1>2, <1>15, <1>16, <2>2, <3>2, SMT
        <4> QED BY <1>16, <2>0, <2>2, <3>2, <4>1 DEF Local, Listed
      <3> QED BY <1>15, <3>1, <3>2
    <2>3. \E n \in Mine(u)' : \A m \in Mine(u)' : m <= n
      BY <1>2, <1>15, <1>16, SMT
    <2>4. pc'[u] # "filter"
      BY <1>1
    <2> QED BY <2>0, <2>1, <2>2, <2>3, <2>4 DEF Listed
  <1>18. Sequenced(u)'
    <2>1. ASSUME NEW i \in DOMAIN Plan[u], NeedsAppend(Plan[u][i]),
                 Done(u, i, "COMPACT")'
          PROVE  Done(u, i, "APPEND")'
      <3>1. CASE Done(u, i, "COMPACT")
        BY <1>13, <2>1, <3>1 DEF Local, Sequenced
      <3>2. CASE HalfOf(s, u, i, "COMPACT")
        BY <1>5, <1>7, <1>13, <2>1, <3>2
      <3> QED BY <1>13, <2>1, <3>1, <3>2
    <2>2. ASSUME NEW i \in DOMAIN Plan[u], NEW st \in {"APPEND", "COMPACT"},
                 HalfOf(s, u, i, st), NEW n \in DOMAIN snapshots
          PROVE  ~HalfOf(snapshots[n], u, i, st)
      BY <1>5, <1>7, <2>2 DEF Done
    <2>3. ASSUME NEW i \in DOMAIN Plan[u], NEW st \in {"APPEND", "COMPACT"},
                 NEW m \in DOMAIN snapshots', NEW n \in DOMAIN snapshots',
                 HalfOf(snapshots'[m], u, i, st), HalfOf(snapshots'[n], u, i, st)
          PROVE  m = n
      <3>1. CASE m \in DOMAIN snapshots /\ n \in DOMAIN snapshots
        BY <1>2, <2>3, <3>1 DEF Local, Sequenced
      <3>2. CASE m = s.id \/ n = s.id
        BY <1>2, <2>2, <2>3, <3>2
      <3> QED BY <1>2, <3>1, <3>2
    <2> QED BY <2>1, <2>3 DEF Sequenced
  <1> QED BY <1>6, <1>8, <1>11, <1>12, <1>14, <1>17, <1>18 DEF Local

\* Every step keeps what the history says of the operations.
LEMMA HistoryInvNext ==
    ASSUME AtomicRename, RollbackIsApart, TypeInv, ChainInv, ManifestInv,
           HistoryInv, NEW u \in Users, Acts(u)
    PROVE  HistoryInv'
  <1>1. Others(u) /\ Local(u) /\ GrowsBy(u)
    BY OthersKept, Grows DEF HistoryInv
  <1>2. Local(u)'
    <2>1. CASE Publishes(u)
      BY <1>1, <2>1, PublishLocal
    <2>2. CASE ~Publishes(u)
      <3>1. Rests(u) \/ Moves(u) \/ Builds(u) \/ Cleans(u)
        BY <2>2, StoreSteps
      <3>3. UNCHANGED snapshots
        BY <3>1 DEF Rests, Moves, Builds, Cleans
      <3>4. ASSUME NEW how \in {"failed", "uncertain"}, Fail(u, how),
                   UNCHANGED attempt, pc[u] # "idle",
                   how = "uncertain" \/ pc[u] = "prepare"
            PROVE  Local(u)'
        BY <1>1, <3>3, <3>4, FailLocal
      <3>5. CASE Moves(u) \/ Builds(u)
        BY <1>1, <3>5, AttemptLocal
      <3>6. CASE ~(Moves(u) \/ Builds(u))
        <4>1. CASE CallStep(u)
          BY <1>1, <4>1, CallLocal
        <4>2. CASE ReadHint(u) \/ LoadLatest(u) \/ LoseRace(u)
          BY <1>1, <4>2, AttemptLocal
        <4>3. CASE PublishHint(u)
          BY <1>1, <4>3, HandOver
        <4>4. CASE Prepare(u)
          <5>1. pc[u] = "prepare" /\ pc'[u] \notin InFlight
            BY <3>1, <3>6, <4>4 DEF Rests, Cleans, Prepare
          <5>2. Rejected(u)
            <6> SUFFICES ASSUME ~Rejected(u)
                         PROVE  pc' = [pc EXCEPT ![u] = "exists"]
              BY <5>1, Ranges DEF InFlight
            <6> QED BY <4>4, Zenon DEF Prepare
          <5> QED BY <3>4, <4>4, <5>1, <5>2 DEF Prepare
        <4>5. CASE Confirm(u)
          <5>1. pc[u] = "confirm" /\ pc'[u] \notin InFlight /\ UNCHANGED attempt
            BY <3>1, <3>6, <4>5 DEF Rests, Cleans, Confirm
          <5>2. prep[u].id \notin DOMAIN snapshots
            <6> SUFFICES ASSUME prep[u].id \in DOMAIN snapshots
                         PROVE  \E l \in InFlight : pc' = [pc EXCEPT ![u] = l]
              BY <5>1, Ranges
            <6> QED BY <4>5 DEF Confirm, InFlight
          <5> QED BY <3>4, <4>5, <5>1, <5>2 DEF Confirm
        <4>6. CASE CheckExists(u) \/ Rename(u) \/ Replace(u) \/ FaultyRename(u)
          <5>1. pc'[u] \in InFlight
            BY <4>6, Ranges DEF CheckExists, Rename, Replace, FaultyRename, InFlight
          <5>2. pc[u] # "lost"
            BY <4>6 DEF CheckExists, Rename, Replace, FaultyRename
          <5> QED BY <3>1, <3>6, <5>1, <5>2 DEF Rests, Cleans
        <4>7. CASE Crash(u) \/ FaultyPrepare(u) \/ FaultyHint(u)
          BY <3>4, <4>7 DEF Crash, FaultyPrepare, FaultyHint
        <4> QED BY <4>1, <4>2, <4>3, <4>4, <4>5, <4>6, <4>7
                DEF Acts, Step, Fault, CallStep
      <3> QED BY <3>5, <3>6
    <2> QED BY <2>1, <2>2
  <1> QED BY <1>1, <1>2, Elsewhere DEF HistoryInv

\* Nothing is published in the beginning.
LEMMA HistoryInvInit == Init => HistoryInv
  <1> SUFFICES ASSUME Init, NEW u \in Users PROVE Local(u)
    BY DEF HistoryInv
  <1>1. DOMAIN snapshots = {} /\ pc[u] = "idle"
    BY DEF Init
  <1>2. Submitted(u) /\ Staged(u) /\ Carried(u) /\ Finished(u)
    BY <1>1 DEF Submitted, Staged, Begun, Carried, Finished, InFlight
  <1>3. Untouched(u, next[u]) /\ Mine(u) = {} /\ Sequenced(u)
    BY <1>1 DEF Untouched, Done, Mine, Sequenced
  <1>4. Listed(u)
    BY <1>1, <1>3 DEF Listed
  <1> QED BY <1>2, <1>3, <1>4 DEF Local

\* What stays the same when nothing happens.
LEMMA HistoryInvIdle ==
    ASSUME HistoryInv, UNCHANGED vars
    PROVE  HistoryInv'
  <1>1. UNCHANGED <<snapshots, pc, next, upto, stage, outcome, base, prep>>
    BY DEF vars, store, call, attemptVars
  <1> SUFFICES ASSUME NEW u \in Users PROVE Local(u)'
    BY DEF HistoryInv
  <1>2. Local(u)
    BY DEF HistoryInv
  <1>3. /\ \A i, st : Done(u, i, st)' <=> Done(u, i, st)
        /\ Sequenced(u)' /\ Mine(u)' = Mine(u)
        /\ \A i : Written(u, i)' <=> Written(u, i)
    BY <1>1, <1>2, SameTable DEF Local
  <1>4. Op(u)' = Op(u) /\ (Unpublished(u)' <=> Unpublished(u))
    BY <1>1 DEF Op, Unpublished
  <1>5. Listed(u)'
    BY <1>1, <1>2, <1>3 DEF Local, Listed
  <1>6. Submitted(u)'
    BY <1>1, <1>2, <1>3, <1>4 DEF Local, Submitted, Filterable
  <1>7. Staged(u)'
    BY <1>1, <1>2, <1>3, <1>4 DEF Local, Staged, Begun
  <1>8. Carried(u)'
    BY <1>1, <1>2, <1>4 DEF Local, Carried
  <1>9. Finished(u)'
    BY <1>1, <1>2, <1>3, <1>4 DEF Local, Finished
  <1>10. Unstarted(u)' => Untouched(u, next[u])'
    BY <1>1, <1>2, <1>3, <1>4 DEF Local, Unstarted, Untouched, NothingPublished
  <1> QED BY <1>3, <1>5, <1>6, <1>7, <1>8, <1>9, <1>10 DEF Local

-----------------------------------------------------------------------------
(* What is acknowledged                                                     *)

\* After a rollback its user submits nothing through the filter: the rollback
\* leaves the largest identifier there is, and FilterCommitted would take every
\* later committable of this user for committed.
RollbackIsLast ==
    \A u \in Users : \A i, j \in DOMAIN Plan[u] :
        i < j /\ Plan[u][i].op = "rollback" => ~Filterable(Plan[u][j])

\* The halves that a successful call stands for.
Settled(u, i) ==
    /\ NeedsAppend(Plan[u][i]) => Done(u, i, "APPEND")
    /\ FirstStage(Plan[u][i]) = "COMPACT" /\ HasCompactChanges(Plan[u][i]) =>
            Done(u, i, "COMPACT")

AckInv == \A u \in Users : \A i \in acked[u] : Settled(u, i)

\* Only the end of a call reports success.
LEMMA WhoAcknowledges ==
    ASSUME TypeInv, NEW u \in Users, Acts(u)
    PROVE  UNCHANGED acked \/ Filter(u) \/ Finish(u)
  <1>1. CASE Submit(u) \/ SubmitFiltered(u) \/ Abort(u) \/ Reject(u)
    BY <1>1 DEF Submit, SubmitFiltered, Abort, Reject, Fail
  <1>2. CASE ReadHint(u) \/ LoadLatest(u) \/ CheckExists(u)
    BY <1>2 DEF ReadHint, LoadLatest, CheckExists, Fail, call
  <1>3. CASE Prepare(u)
    BY <1>3, Zenon DEF Prepare, Fail, call
  <1>4. CASE Rename(u) \/ Replace(u) \/ Confirm(u)
    BY <1>4 DEF Rename, Replace, Confirm, Fail, call
  <1>5. CASE PublishHint(u) \/ LoseRace(u)
    BY <1>5 DEF PublishHint, LoseRace, Fail, call
  <1>6. CASE Fault(u)
    BY <1>6 DEF Fault, Crash, FaultyPrepare, FaultyRename, FaultyHint, Fail, call
  <1> QED BY <1>1, <1>2, <1>3, <1>4, <1>5, <1>6 DEF Acts, Step

\* What the filter drops is published: the latest snapshot of the user reaches
\* its identifier, so it is a half of this very operation.
LEMMA FilteredIsSettled ==
    ASSUME RollbackIsApart, RollbackIsLast, TypeInv, ChainInv, NEW u \in Users,
           Local(u), pc[u] = "filter", NEW i \in DOMAIN Plan[u], i >= next[u],
           CommittedByUser(u, base[u].id, Plan[u][i].identifier)
    PROVE  Settled(u, i)
  <1>0. next[u] \in Nat /\ next[u] >= 1 /\ next[u] \in DOMAIN Plan[u]
    BY Ranges
  <1>1. PICK n \in DOMAIN snapshots :
            /\ snapshots[n].user = u
            /\ Plan[u][i].identifier <= snapshots[n].identifier
    BY DEF CommittedByUser, Reachable
  <1>2. PICK j \in 1..next[u], t \in Stages : HalfOf(snapshots[n], u, j, t)
    BY <1>1 DEF Local, Listed, Mine
  <1>3. j \in DOMAIN Plan[u] /\ j \in Nat /\ i \in Nat
    <2>1. DOMAIN Plan[u] = 1..Len(Plan[u]) /\ Len(Plan[u]) \in Nat
      BY Ranges
    <2> QED BY <1>2, <2>1, SMT DEF HalfOf
  <1>4. t # "ROLLBACK"
    <2> SUFFICES ASSUME Plan[u][j].op = "rollback" PROVE FALSE
      BY <1>2 DEF HalfOf
    <2>1. Filterable(Plan[u][next[u]])
      BY DEF Local, Submitted, Op
    <2>2. j # next[u]
      BY <2>1 DEF Filterable
    <2>3. j < next[u]
      BY <1>0, <1>2, <1>3, <2>2, SMT
    <2> QED BY <1>0, <1>3, <2>1, <2>3 DEF RollbackIsLast
  <1>5. Plan[u][i].identifier <= Plan[u][j].identifier
    BY <1>1, <1>2, <1>4 DEF HalfOf
  <1>6. i = j
    <2>1. Plan[u][i] \in Operation /\ Plan[u][j] \in Operation
      BY <1>3, PlanAssumption, SMT
    <2>2. Plan[u][i].identifier \in Nat /\ Plan[u][j].identifier \in Nat
      BY <2>1 DEF Operation
    <2>3. j < i => Plan[u][j].identifier < Plan[u][i].identifier
      BY <1>3, PlanAssumption
    <2> QED BY <1>0, <1>2, <1>3, <1>5, <2>2, <2>3, SMT
  <1>7. Done(u, i, t)
    BY <1>2, <1>6 DEF Done
  <1>8. CASE t = "APPEND"
    <2>1. NeedsAppend(Plan[u][i])
      BY <1>2, <1>6, <1>8 DEF HalfOf
    <2> QED BY <1>7, <1>8, <2>1 DEF Settled, FirstStage
  <1>9. CASE t = "COMPACT"
    BY <1>7, <1>9 DEF Settled, Local, Sequenced
  <1> QED BY <1>4, <1>8, <1>9 DEF Stages

\* Every step keeps the promise.
LEMMA AckInvNext ==
    ASSUME AtomicRename, RollbackIsApart, RollbackIsLast, TypeInv, ChainInv,
           ManifestInv, HistoryInv, AckInv, NEW u \in Users, Acts(u)
    PROVE  AckInv'
  <1>1. GrowsBy(u) /\ Others(u) /\ Local(u)
    BY Grows, OthersKept DEF HistoryInv
  <1>2. ASSUME NEW v, NEW i, Settled(v, i) PROVE Settled(v, i)'
    <2>1. ASSUME NEW st, Done(v, i, st) PROVE Done(v, i, st)'
      BY <1>1, <2>1 DEF Done, GrowsBy
    <2> QED BY <1>2, <2>1 DEF Settled
  <1>3. ASSUME NEW i \in acked'[u] PROVE Settled(u, i)
    <2>0. /\ acked \in [Users -> SUBSET Nat] /\ next[u] \in Nat
          /\ next[u] >= 1 /\ DOMAIN Plan[u] = 1..Len(Plan[u])
          /\ upto[u] \in Nat /\ Len(Plan[u]) \in Nat
          /\ pc[u] # "idle" => upto[u] \in DOMAIN Plan[u] \cup {0}
      BY Ranges DEF TypeInv, TypeOK
    <2>1. CASE i \in acked[u]
      BY <2>1 DEF AckInv
    <2>2. CASE i \notin acked[u] /\ Filter(u)
      <3>1. PICK k \in next[u]..(upto[u] + 1) :
                /\ \A j \in next[u]..(k - 1) :
                    CommittedByUser(u, base[u].id, Plan[u][j].identifier)
                /\ acked' = [acked EXCEPT ![u] = @ \cup next[u]..(k - 1)]
        BY <2>2, Zenon DEF Filter
      <3>2. i \in next[u]..(k - 1)
        BY <1>3, <2>0, <2>2, <3>1
      <3>3. pc[u] = "filter"
        BY <2>2 DEF Filter
      <3>4. i \in DOMAIN Plan[u] /\ i >= next[u]
        BY <2>0, <3>1, <3>2, <3>3, SMT
      <3> QED BY <1>1, <3>1, <3>2, <3>3, <3>4, FilteredIsSettled
    <2>3. CASE i \notin acked[u] /\ Finish(u)
      <3>1. i = next[u] /\ pc[u] = "finish"
        BY <1>3, <2>0, <2>3 DEF Finish
      <3> QED BY <1>1, <3>1 DEF Local, Finished, Settled, Op
    <2> QED BY <1>3, <2>1, <2>2, <2>3, WhoAcknowledges
  <1>4. ASSUME NEW v \in Users, NEW i \in acked'[v] PROVE Settled(v, i)
    <2>1. CASE v = u
      BY <1>3, <1>4, <2>1
    <2>2. CASE v # u
      BY <1>1, <1>4, <2>2 DEF Others, AckInv
    <2> QED BY <2>1, <2>2
  <1> QED BY <1>2, <1>4 DEF AckInv
=============================================================================
