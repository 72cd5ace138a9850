-------------------- MODULE FileStoreCommitInvariants -----------------------
(***************************************************************************)
(* What is invariant in the commit protocol, and what its steps can do to  *)
(* it: the definitions the proofs share.                                   *)
(***************************************************************************)
EXTENDS FileStoreCommit

-----------------------------------------------------------------------------
(* Types                                                                    *)

\* What the record counts and the numbering use of finite sets.
Counting ==
    /\ Cardinality({}) = 0
    /\ \A S \in SUBSET Files : Cardinality(S) \in Nat
    /\ \A L, A, D \in SUBSET Files :
        D \subseteq L /\ A \cap L = {}
        => Cardinality((L \ D) \cup A) = Cardinality(L) + Cardinality(A) - Cardinality(D)
    /\ \A n \in Nat : Cardinality(1..n) = n

\* Where a committer has a prepared snapshot at hand.
InFlight == {"exists", "rename", "replace", "confirm", "publishHint", "lost"}

\* A call in progress is about operations of the plan, and what it is about to
\* publish is a snapshot.
CallInv ==
    \A u \in Users :
        /\ pc[u] # "idle" =>
            /\ next[u] <= Len(Plan[u])
            /\ upto[u] <= Len(Plan[u])
        /\ pc[u] \in InFlight => prep[u] \in Snapshot

TypeInv == TypeOK /\ CallInv

-----------------------------------------------------------------------------
(* The chain of snapshots                                                   *)

\* Snapshots are numbered without gaps and extend their predecessors; a base
\* is a snapshot that is still there, and an attempt in flight extends it.
History ==
    \A n \in DOMAIN snapshots :
        /\ snapshots[n].id = n
        /\ 1..n \subseteq DOMAIN snapshots
        /\ snapshots[n].live =
            (At(n - 1).live \ snapshots[n].del) \cup snapshots[n].add

IsLoaded(b) == b.id \in DOMAIN snapshots \cup {0} /\ b = At(b.id)

Extends(s, b) ==
    /\ s.id = b.id + 1
    /\ s.live = (b.live \ s.del) \cup s.add

ChainInv ==
    /\ History
    /\ \A u \in Users :
        /\ IsLoaded(base[u])
        /\ pc[u] \in InFlight => Extends(prep[u], base[u])
        /\ pc[u] # "replace"

-----------------------------------------------------------------------------
(* What a step does                                                         *)

\* The steps outside an attempt, from the submission of a call to its return.
CallStep(u) ==
    \/ Submit(u) \/ SubmitFiltered(u) \/ Abort(u)
    \/ Filter(u) \/ Finish(u) \/ Reject(u)

\* The steps of one user.
Acts(u) ==
    \/ Submit(u) \/ SubmitFiltered(u) \/ Abort(u) \/ Step(u) \/ Fault(u)

\* The variables of every other user stay as they are.
Others(u) ==
    \A v \in Users \ {u} :
        /\ pc'[v] = pc[v] /\ next'[v] = next[v] /\ upto'[v] = upto[v]
        /\ stage'[v] = stage[v] /\ outcome'[v] = outcome[v]
        /\ acked'[v] = acked[v] /\ base'[v] = base[v] /\ prep'[v] = prep[v]
        /\ attempt'[v] = attempt[v]

\* The snapshot u has prepared is not (or not any more) in the table.
Unpublished(u) ==
    prep[u].id \in DOMAIN snapshots => snapshots[prep[u].id] # prep[u]

\* A step outside an attempt in flight, or one that ends it.
Rests(u) ==
    /\ UNCHANGED <<snapshots, manifests, attempt>>
    /\ pc'[u] \notin InFlight

\* A step from one place to another of an attempt in flight.
Moves(u) ==
    /\ UNCHANGED <<snapshots, manifests, attempt, base, prep, stage, next, upto>>
    /\ pc[u] \in InFlight /\ pc'[u] \in InFlight \ {"exists"}
    /\ pc'[u] \in {"rename", "lost"} => pc[u] = "exists" \/ Unpublished(u)
    /\ pc'[u] = "publishHint" => ~Unpublished(u)

\* The prepared snapshot becomes part of the table.
Publishes(u) ==
    /\ pc[u] = "rename" /\ pc'[u] \in {"confirm", "publishHint"}
    /\ prep[u].id \notin DOMAIN snapshots
    /\ PutSnapshot(prep[u])
    /\ UNCHANGED <<manifests, attempt, base, prep, stage, next, upto>>

\* An attempt writes its manifests.
Builds(u) ==
    /\ pc[u] = "prepare" /\ pc'[u] = "exists"
    /\ ~Rejected(u)
    /\ \E S \in MergeGroups(base[u]), x \in NewIndexes(u) :
        LET s == NewSnapshot(u, base[u], S, x) IN
        /\ prep'[u] = s
        /\ manifests' = manifests \cup
              {n \in Referenced(s) : <<n[1], n[2]>> = s.uuid}
    /\ attempt'[u] = attempt[u] + 1
    /\ UNCHANGED <<snapshots, base, stage, next, upto>>

\* An attempt that lost its race removes them.
Cleans(u) ==
    /\ pc[u] = "lost" /\ pc'[u] \notin InFlight
    /\ manifests' = IF stage[u] = "ROLLBACK" THEN manifests
                    ELSE manifests \ CleanUpTmpManifests(prep[u], base[u])
    /\ UNCHANGED <<snapshots, attempt>>

-----------------------------------------------------------------------------
(* Metadata files                                                           *)

\* Snapshot s refers to a metadata file of the attempt with this uuid.
Mentions(s, uuid) == \E f \in Referenced(s) : <<f[1], f[2]>> = uuid

\* The metadata files of s exist, and s and they were written by attempts of
\* the past.
Safe(s) ==
    /\ Referenced(s) \subseteq manifests
    /\ s.uuid[2] <= attempt[s.uuid[1]]
    /\ \A f \in Referenced(s) : f[2] <= attempt[f[1]]

\* An attempt in flight is the last one of its user; what it would clean up is
\* its own.
OwnNames(u) ==
    /\ prep[u].uuid = <<u, attempt[u]>>
    /\ pc[u] \in {"exists", "rename", "lost"} => Unpublished(u)
    /\ stage[u] # "ROLLBACK" =>
        \A f \in CleanUpTmpManifests(prep[u], base[u]) :
            <<f[1], f[2]>> = prep[u].uuid

\* Until an attempt is published, nobody else refers to its files.
ManifestInv ==
    /\ \A n \in DOMAIN snapshots : Safe(snapshots[n])
    /\ \A u \in Users : pc[u] \in InFlight => Safe(prep[u]) /\ OwnNames(u)
    /\ \A u \in Users : pc[u] \in InFlight /\ Unpublished(u) =>
        /\ \A n \in DOMAIN snapshots : ~Mentions(snapshots[n], prep[u].uuid)
        /\ \A v \in Users \ {u} :
            pc[v] \in InFlight => ~Mentions(prep[v], prep[u].uuid)

-----------------------------------------------------------------------------
(* Operations and the history                                               *)

\* RollbackToAsLatest publishes under the largest identifier there is; the
\* committables of the same user have smaller ones.
RollbackIsApart ==
    \A u \in Users : \A i, j \in DOMAIN Plan[u] :
        Plan[u][i].op = "rollback" /\ Plan[u][j].op # "rollback"
        => Plan[u][j].identifier # MaxIdentifier

\* s is what TryCommit st of operation i of user u publishes.
HalfOf(s, u, i, st) ==
    LET o == Plan[u][i] IN
    /\ s.user = u
    /\ i \in DOMAIN Plan[u]
    /\ s.identifier = IF st = "ROLLBACK" THEN MaxIdentifier ELSE o.identifier
    /\ s.kind = CommitKind(o, st)
    /\ st = "ROLLBACK" <=> o.op = "rollback"
    /\ st = "APPEND" => NeedsAppend(o) /\ s.add \subseteq o.add
    /\ st = "COMPACT" => HasCompactChanges(o) /\ s.add \subseteq o.after

Done(u, i, st) == \E n \in DOMAIN snapshots : HalfOf(snapshots[n], u, i, st)

Untouched(u, i) == ~Done(u, i, "APPEND") /\ ~Done(u, i, "COMPACT")

Mine(u) == {n \in DOMAIN snapshots : snapshots[n].user = u}

\* A call in progress is about operations whose inputs exist.
Submitted(u) ==
    /\ pc[u] # "idle" =>
        /\ next[u] <= upto[u]
        /\ \A i \in next[u]..upto[u] : Written(u, i)
    /\ pc[u] \in {"filterHint", "filterLatest", "filter"} => Filterable(Op(u))

\* A running TryCommit is one its operation has; its half is not published
\* before it publishes it, the half before it is, the half after it is not.
Begun(u) == pc[u] \in {"hint", "latest", "prepare"} \cup InFlight

Staged(u) ==
    Begun(u) =>
        /\ stage[u] = "ROLLBACK" <=> Op(u).op = "rollback"
        /\ stage[u] = "APPEND" =>
            NeedsAppend(Op(u)) /\ ~Done(u, next[u], "COMPACT")
        /\ stage[u] = "COMPACT" =>
            /\ HasCompactChanges(Op(u))
            /\ NeedsAppend(Op(u)) => Done(u, next[u], "APPEND")
        /\ stage[u] # "ROLLBACK" /\ (pc[u] \in InFlight => Unpublished(u))
            => ~Done(u, next[u], stage[u])

\* What is in flight is the half being committed.
Carried(u) ==
    pc[u] \in InFlight =>
        /\ HalfOf(prep[u], u, next[u], stage[u])
        /\ pc[u] = "publishHint" => ~Unpublished(u)

\* A call that is about to report success has published what it had to.
Finished(u) ==
    pc[u] = "finish" =>
        /\ NeedsAppend(Op(u)) => Done(u, next[u], "APPEND")
        /\ FirstStage(Op(u)) = "COMPACT" /\ HasCompactChanges(Op(u)) =>
            Done(u, next[u], "COMPACT")

\* An operation that was not submitted, was refused, or failed without a trace
\* has published nothing.
Unstarted(u) ==
    /\ next[u] \in DOMAIN Plan[u]
    /\ \/ pc[u] = "idle" /\ outcome[u] = "none"
       \/ pc[u] = "idle" /\ NothingPublished(u)
       \/ pc[u] = "reject"

\* The user's snapshots come from its operations so far; once the current one
\* is among them it is the latest; the filter has seen them all.
Listed(u) ==
    /\ \A n \in Mine(u) : \E i \in 1..next[u], st \in Stages :
            HalfOf(snapshots[n], u, i, st)
    /\ \A m, n \in Mine(u), st \in {"APPEND", "COMPACT"} :
        m <= n /\ HalfOf(snapshots[m], u, next[u], st) =>
            \E t \in {"APPEND", "COMPACT"} : HalfOf(snapshots[n], u, next[u], t)
    /\ Mine(u) = {} \/ \E n \in Mine(u) : \A m \in Mine(u) : m <= n
    /\ pc[u] = "filter" => \A n \in Mine(u) : n <= base[u].id

\* Each half once, the append half first.
Sequenced(u) ==
    /\ \A i \in DOMAIN Plan[u] : NeedsAppend(Plan[u][i]) =>
            (Done(u, i, "COMPACT") => Done(u, i, "APPEND"))
    /\ \A i \in DOMAIN Plan[u], st \in {"APPEND", "COMPACT"} :
        \A m, n \in DOMAIN snapshots :
            HalfOf(snapshots[m], u, i, st) /\ HalfOf(snapshots[n], u, i, st)
            => m = n

Local(u) ==
    /\ Submitted(u) /\ Staged(u) /\ Carried(u) /\ Finished(u)
    /\ Unstarted(u) => Untouched(u, next[u])
    /\ Listed(u) /\ Sequenced(u)

HistoryInv == \A u \in Users : Local(u)

\* The table grows at most by a snapshot of u.
GrowsBy(u) ==
    /\ DOMAIN snapshots \subseteq DOMAIN snapshots'
    /\ \A n \in DOMAIN snapshots : snapshots'[n] = snapshots[n]
    /\ \A n \in DOMAIN snapshots' \ DOMAIN snapshots : snapshots'[n].user = u
=============================================================================
