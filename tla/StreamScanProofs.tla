--------------------------- MODULE StreamScanProofs ---------------------------
(***************************************************************************)
(* Proofs that a scan starts where it was asked to, delivers every         *)
(* snapshot once and gives up only for a reason, for any scans, any number *)
(* of snapshots and any failed reads.                                      *)
(*                                                                         *)
(* The invariant ties next_snapshot_id_ to the snapshots that exist: it is *)
(* at most one past the latest, except where a caller has asked for an id  *)
(* of the future and nothing has been delivered.                           *)
(***************************************************************************)
EXTENDS StreamScan, TLAPS

Commits == UNION {s.commits : s \in Scans}

Starting == {"create", "search", "earliest", "probe", "bisect", "start", "range", "load", "read"}
Following == {"exists", "load_next", "read_next", "next_earliest", "next_latest"}

Locals == [lo : Nat, hi : Int, found : Nat, id : Nat]

Types ==
    /\ snaps \in Seq(Commits)
    /\ first \in Nat \ {0} /\ meta \in Nat /\ first <= meta
    /\ meta <= Len(snaps) \/ meta = 1
    /\ scan \in Scans
    /\ start \in Nat /\ next \in Nat
    /\ pc \in {"idle"} \cup Starting \cup Following
    /\ local \in Locals
    /\ plans \in [full : Nat, deltas : SUBSET Nat, origin : Nat, known : Int]

\* Where the starting scanner starts.
Started ==
    /\ scan.mode = "time" /\ scan.streaming => start <= Len(snaps) + 1
    /\ scan.mode = "id" /\ created => start = scan.arg
    /\ ~created => next = None
    /\ pc \in {"start", "range", "load", "read"} => created

\* What a call that is at a label knows of the table.
Knows(label, l) ==
    /\ l.lo <= first \/ label = "bisect"
    /\ l.found <= Len(snaps)
    /\ label \in Starting => next = None
    /\ label \in Following => next # None
    /\ label = "create" => scan.mode = "latest"
    /\ label \in {"search", "earliest", "probe", "bisect"} => scan.mode = "time"
    /\ label = "read" => l.id <= Len(snaps)
    /\ label = "read_next" => next <= Len(snaps) /\ NeedScanSnapshot(snaps[next])

\* What has been delivered.
Delivered ==
    /\ next = None => plans.deltas = {} /\ plans.full = None
    /\ next # None => plans.origin \in 1..next
    /\ next > Len(snaps) + 1 => scan.mode = "id" /\ next = scan.arg /\ plans.origin = next
    /\ DeliveredExactly

IInv == Types /\ Started /\ Knows(pc, local) /\ Delivered

-----------------------------------------------------------------------------

\* The larger of two ids, as std::max in the starting scanners.
LEMMA MaxOfTwo ==
    ASSUME NEW a \in Nat, NEW b \in Nat
    PROVE  /\ Max({a, b}) \in {a, b}
           /\ Max({a, b}) >= a /\ Max({a, b}) >= b
<1>1. \E x \in {a, b} : \A y \in {a, b} : x >= y
  BY SMT
<1> QED
  BY <1>1, SMT DEF Max

\* The empty table and the scan that has not started satisfy the invariant.
LEMMA InitEstablishes == Init => IInv
  BY ScansAssumption, SMT
  DEF Init, IInv, Types, Started, Knows, Delivered, DeliveredExactly, Starting, Following,
      Locals, NoLocal, None

\* A step that leaves the snapshots, the plans and next_snapshot_id_ alone
\* delivers nothing.
LEMMA NothingDelivered ==
    ASSUME Delivered, UNCHANGED <<snaps, scan, next>>,
           plans'.full = plans.full, plans'.deltas = plans.deltas, plans'.origin = plans.origin
    PROVE  Delivered'
<1>1. DeliveredExactly'
  BY Zenon DEF Delivered, DeliveredExactly, Wanted, NeedScanSnapshot, None
<1> QED
  BY <1>1, SMT DEF Delivered, None

\* A call that moves on without a result.
LEMMA CallMoves ==
    ASSUME IInv, UNCHANGED <<snaps, first, meta, scan, next, plans>>, Started', start' \in Nat,
           NEW label \in {"idle"} \cup Starting \cup Following, NEW l \in Locals,
           pc' = label, local' = l, Knows(label, l)
    PROVE  IInv'
<1>1. Delivered'
  BY NothingDelivered DEF IInv
<1>2. Types'
  BY SMT DEF IInv, Types
<1>3. Knows(pc, local)'
  BY SMT DEF Knows, NeedScanSnapshot, None
<1> QED
  BY <1>1, <1>2, <1>3 DEF IInv

\* A call that returns without a plan.
LEMMA CallReturns ==
    ASSUME IInv, UNCHANGED <<snaps, first, meta, scan, created, start, next, plans>>,
           pc' = "idle", local' = NoLocal
    PROVE  IInv'
<1>1. NoLocal \in Locals /\ Knows("idle", NoLocal)
  BY SMT DEF IInv, Types, NoLocal, Locals, Knows, Starting, Following, None
<1>2. Started' /\ start' \in Nat
  BY Zenon DEF IInv, Types, Started
<1> QED
  BY <1>1, <1>2, CallMoves

-----------------------------------------------------------------------------

\* Commits, which only add snapshots (TryCommitOnce publishes the next id), and
\* expiration keep the invariant.
LEMMA TableKeeps ==
    ASSUME IInv, (\E c \in scan.commits : Publish(c)) \/ ExpireManifests \/ ExpireSnapshot
    PROVE  IInv'
<1> USE DEF reader, call
<1>1. CASE \E c \in scan.commits : Publish(c)
  <2>1. PICK c \in scan.commits : Publish(c)
    BY <1>1
  <2>2. c \in Commits
    BY SMT DEF IInv, Types, Commits
  <2>3. /\ snaps' \in Seq(Commits)
        /\ Len(snaps) \in Nat
        /\ Len(snaps') = Len(snaps) + 1
        /\ \A i \in 1..Len(snaps) : snaps'[i] = snaps[i]
    BY <2>1, <2>2, SMT DEF IInv, Types, Publish
  <2>4. UNCHANGED <<first, meta, scan, created, start, next, pc, local, plans>>
    BY <2>1 DEF Publish
  <2>5. Types'
    BY <2>3, <2>4, SMT DEF IInv, Types
  <2>6. Started'
    BY <2>3, <2>4, SMT DEF IInv, Types, Started
  <2>7. Knows(pc, local)'
    BY <2>3, <2>4, SMT DEF IInv, Types, Knows, Locals, Starting, Following, NeedScanSnapshot, None
  <2>8. DeliveredExactly'
    <3> SUFFICES ASSUME next # None
                 PROVE  plans.deltas = {i \in plans.origin..(next - 1) : i <= Len(snaps') /\ Wanted(i)'}
      BY <2>4, SMT DEF IInv, Delivered, DeliveredExactly, None
    <3>1. \A i \in plans.origin..(next - 1) : i \in 1..Len(snaps)
      BY <2>3, SMT DEF IInv, Types, Delivered, None
    <3>2. \A i \in plans.origin..(next - 1) : Wanted(i)' <=> Wanted(i)
      BY <3>1, <2>3, <2>4 DEF Wanted, NeedScanSnapshot
    <3> QED
      BY <3>1, <3>2, <2>3, SMT DEF IInv, Types, Delivered, DeliveredExactly
  <2> QED
    BY <2>3, <2>4, <2>5, <2>6, <2>7, <2>8, SMT DEF IInv, Types, Delivered, None
<1>2. CASE ExpireManifests \/ ExpireSnapshot
  <2>1. UNCHANGED <<snaps, scan, created, start, next, pc, local, plans>>
    BY <1>2 DEF ExpireManifests, ExpireSnapshot
  <2>2. Types'
    BY <1>2, <2>1, SMT DEF IInv, Types, ExpireManifests, ExpireSnapshot
  <2>3. first' >= first
    BY <1>2, SMT DEF IInv, Types, ExpireManifests, ExpireSnapshot
  <2>4. Knows(pc, local)'
    BY <2>1, <2>2, <2>3, SMT DEF IInv, Types, Locals, Knows, NeedScanSnapshot, None
  <2>5. Started' /\ Delivered'
    BY <2>1, NothingDelivered DEF IInv, Started
  <2> QED
    BY <2>2, <2>4, <2>5 DEF IInv
<1> QED
  BY <1>1, <1>2

-----------------------------------------------------------------------------

\* CreatePlan and failing reads keep the invariant.
LEMMA CallKeeps ==
    ASSUME IInv, CreatePlan \/ IoError
    PROVE  IInv'
<1> USE DEF table, reader
<1>1. CASE CreatePlan
  <2>1. /\ UNCHANGED <<snaps, first, meta, scan, next>>
        /\ local' = NoLocal
        /\ pc' \in {"idle", Entry}
        /\ start' \in {start, scan.arg}
        /\ plans' = [plans EXCEPT !.known = IF @ = -1 THEN Len(snaps) ELSE @]
    BY <1>1, Zenon DEF CreatePlan, Return, Goto
  <2>2. Started'
    <3>1. created => created'
      BY <1>1, Zenon DEF CreatePlan, Return, Goto, Entry
    <3>2. scan.mode = "time" => start' = start
      BY <1>1, Zenon DEF CreatePlan, Return, Goto
    <3>3. scan.mode = "id" /\ created' => start' = scan.arg
      BY <1>1, Zenon DEF CreatePlan, Return, Goto, IInv, Started, Entry
    <3>4. pc' \in {"start", "range", "load", "read"} => created'
      BY <1>1, Zenon DEF CreatePlan, Return, Goto
    <3> QED
      BY <2>1, <3>1, <3>2, <3>3, <3>4, Zenon DEF IInv, Started
  <2>3. /\ plans' \in [full : Nat, deltas : SUBSET Nat, origin : Nat, known : Int]
        /\ plans'.full = plans.full /\ plans'.deltas = plans.deltas /\ plans'.origin = plans.origin
    <3>1. PICK k : plans' = [plans EXCEPT !.known = k] /\ k \in {Len(snaps), plans.known}
      BY <2>1, Zenon
    <3>2. k \in Int
      BY <3>1, SMT DEF IInv, Types
    <3> QED
      BY <3>1, <3>2, SMT DEF IInv, Types
  <2>4. Delivered'
    BY <2>1, <2>3, NothingDelivered DEF IInv
  <2>5. IF created THEN (IF next = None THEN Entry = "start" ELSE Entry = "exists")
        ELSE Entry \in {"create", "search", "start"}
    BY Zenon DEF Entry
  <2>6. IF next = None THEN Entry \in {"create", "search", "start"} ELSE Entry = "exists"
    BY <2>5, Zenon DEF IInv, Started
  <2>9. Entry = "create" => scan.mode = "latest"
    BY Zenon DEF Entry
  <2>10. Entry = "search" => scan.mode = "time"
    BY Zenon DEF Entry
  <2>7. Types'
    <3>1. start' \in Nat
      BY <2>1, ScansAssumption DEF IInv, Types
    <3>2. local' \in Locals
      BY <2>1, SMT DEF Locals, NoLocal, None
    <3>3. pc' \in {"idle"} \cup Starting \cup Following
      BY <2>1, <2>6, Zenon DEF Starting, Following
    <3> QED
      BY <2>1, <2>3, <3>1, <3>2, <3>3, Zenon DEF IInv, Types
  <2>8. Knows(pc, local)'
    BY <2>1, <2>6, <2>9, <2>10, SMT DEF IInv, Types, Knows, NoLocal, None, Starting, Following
  <2> QED
    BY <2>2, <2>4, <2>7, <2>8 DEF IInv
<1>2. CASE IoError
  BY <1>2, CallReturns, Zenon DEF IoError, Return
<1> QED
  BY <1>1, <1>2

-----------------------------------------------------------------------------

\* Found ends the search: it fails, or the scanner starts at most one past the
\* latest snapshot.
LEMMA FoundKeeps ==
    ASSUME IInv, NEW id \in Nat, id <= Len(snaps), pc \in Starting, scan.mode = "time",
           UNCHANGED <<snaps, first, meta, scan, next, plans>>, Found(id)
    PROVE  IInv'
<1>1. CASE id = None /\ ~scan.streaming
  BY <1>1, CallReturns, Zenon DEF Found, Return
<1>2. CASE ~(id = None /\ ~scan.streaming)
  <2>1. /\ created' = TRUE /\ pc' = "start" /\ local' = NoLocal
        /\ start' \in {id, FirstId, id + 1}
    BY <1>2, Zenon DEF Found, Goto
  <2>2. start' \in Nat /\ start' <= Len(snaps) + 1
    BY <2>1, SMT DEF IInv, Types, FirstId
  <2>3. Started'
    BY <2>1, <2>2, Zenon DEF Started
  <2>4. NoLocal \in Locals /\ Knows("start", NoLocal) /\ "start" \in Starting
    BY SMT DEF IInv, Types, NoLocal, Locals, Knows, Starting, Following, None
  <2> QED
    BY <2>1, <2>2, <2>3, <2>4, CallMoves
<1> QED
  BY <1>1, <1>2

\* Creating the starting scanner keeps the invariant.
LEMMA SearchKeeps ==
    ASSUME IInv,
           CreateLatest \/ SearchLatest \/ SearchEarliest \/ ProbeEarliest \/ Bisect \/ EndSearch
    PROVE  IInv'
<1> USE DEF table, reader
<1>0. Len(snaps) \in Nat /\ local \in Locals /\ first \in Nat
  BY SMT DEF IInv, Types
<1>t. /\ pc \in {"search", "earliest", "probe", "bisect"} => scan.mode = "time"
      /\ pc = "create" => scan.mode = "latest"
  BY DEF IInv, Knows
<1>1. CASE CreateLatest
  <2>1. /\ UNCHANGED <<snaps, first, meta, scan, next, plans>>
        /\ start' = Len(snaps) /\ created' = TRUE /\ pc' = "start" /\ local' = local
        /\ pc = "create"
    BY <1>1, Zenon DEF CreateLatest, Goto, LatestSnapshotId
  <2>2. Started' /\ start' \in Nat
    BY <1>0, <1>t, <2>1, SMT DEF Started
  <2>3. Knows("start", local) /\ "start" \in Starting
    BY <2>1, SMT DEF IInv, Knows, Starting, Following
  <2> QED
    BY <1>0, <2>1, <2>2, <2>3, CallMoves
<1>2. CASE SearchLatest
  <2>1. UNCHANGED <<snaps, first, meta, scan, next, plans>> /\ pc = "search"
    BY <1>2, Zenon DEF SearchLatest
  <2>2. CASE Found(None)
    BY <1>0, <2>1, <2>2, <1>t, FoundKeeps, SMT DEF None, Starting
  <2>3. CASE /\ Goto("earliest", [local EXCEPT !.hi = LatestSnapshotId])
             /\ UNCHANGED <<created, start>>
    <3> DEFINE l == [local EXCEPT !.hi = LatestSnapshotId]
    <3>1. l \in Locals /\ l.lo = local.lo /\ l.found = local.found
      BY <1>0, SMT DEF Locals, LatestSnapshotId
    <3>2. Knows("earliest", l) /\ "earliest" \in Starting
      BY <2>1, <3>1, SMT DEF IInv, Knows, Starting, Following
    <3>3. Started' /\ start' \in Nat /\ pc' = "earliest" /\ local' = l
      BY <2>1, <2>3, Zenon DEF IInv, Types, Started, Goto
    <3> HIDE DEF l
    <3> QED
      BY <2>1, <3>1, <3>2, <3>3, CallMoves
  <2> QED
    BY <1>2, <2>2, <2>3, Zenon DEF SearchLatest
<1>3. CASE SearchEarliest
  <2> DEFINE l == [local EXCEPT !.lo = EarliestSnapshotId]
  <2>1. /\ UNCHANGED <<snaps, first, meta, scan, created, start, next, plans>>
        /\ pc = "earliest" /\ pc' = "probe" /\ local' = l
    BY <1>3, Zenon DEF SearchEarliest, Goto
  <2>2. l \in Locals /\ l.lo <= first /\ l.found = local.found
    BY <1>0, SMT DEF Locals, EarliestSnapshotId, None
  <2>3. Knows("probe", l) /\ "probe" \in Starting
    BY <2>1, <2>2, SMT DEF IInv, Knows, Starting, Following
  <2>4. Started' /\ start' \in Nat
    BY <2>1, Zenon DEF IInv, Types, Started
  <2> HIDE DEF l
  <2> QED
    BY <2>1, <2>2, <2>3, <2>4, CallMoves
<1>4. CASE ProbeEarliest
  <2>1. UNCHANGED <<snaps, first, meta, scan, next, plans>> /\ pc = "probe"
    BY <1>4, Zenon DEF ProbeEarliest
  <2>2. CASE Return("missing") /\ UNCHANGED <<created, start>>
    BY <2>1, <2>2, CallReturns, Zenon DEF Return
  <2>3. CASE Found(None)
    BY <1>0, <2>1, <2>3, <1>t, FoundKeeps, SMT DEF None, Starting
  <2>4. CASE Goto("bisect", local) /\ UNCHANGED <<created, start>>
    <3>1. Knows("bisect", local) /\ "bisect" \in Starting
      BY <2>1, SMT DEF IInv, Knows, Starting, Following
    <3>2. Started' /\ start' \in Nat /\ pc' = "bisect" /\ local' = local
      BY <2>1, <2>4, Zenon DEF IInv, Types, Started, Goto
    <3> QED
      BY <1>0, <2>1, <3>1, <3>2, CallMoves
  <2> QED
    BY <1>4, <2>2, <2>3, <2>4, Zenon DEF ProbeEarliest
<1>5. CASE Bisect
  <2> DEFINE mid == local.lo + (local.hi - local.lo) \div 2
             up == [local EXCEPT !.lo = mid + 1, !.found = mid]
             down == [local EXCEPT !.hi = mid - 1]
  <2>1. /\ UNCHANGED <<snaps, first, meta, scan, created, start, next, plans>>
        /\ pc = "bisect"
        /\ \/ Return("missing")
           \/ /\ SnapshotExists(mid)
              /\ pc' = "bisect"
              /\ local' \in {up, down}
    BY <1>5, Zenon DEF Bisect, Goto
  <2>2. mid \in Int
    BY <1>0, SMT DEF Locals
  <2> HIDE DEF mid
  <2>3. CASE Return("missing")
    BY <2>1, <2>3, CallReturns, Zenon DEF Return
  <2>4. CASE ~Return("missing")
    <3>1. mid \in Nat /\ mid <= Len(snaps)
      BY <1>0, <2>1, <2>2, <2>4, SMT DEF SnapshotExists
    <3>2. /\ up \in Locals /\ up.found = mid
          /\ down \in Locals /\ down.found = local.found
      <4>0. mid + 1 \in Nat
        BY <3>1, SMT
      <4>1. up \in Locals /\ up.found = mid
        BY <1>0, <3>1, <4>0, Zenon DEF Locals
      <4>2. mid - 1 \in Int
        BY <2>2, SMT
      <4>3. down \in Locals /\ down.found = local.found
        BY <1>0, <4>2, SMT DEF Locals
      <4> QED
        BY <4>1, <4>3
    <3>3. Knows("bisect", up) /\ Knows("bisect", down) /\ "bisect" \in Starting
      BY <2>1, <3>1, <3>2, SMT DEF IInv, Knows, Starting, Following
    <3>0. UNCHANGED <<snaps, scan, created, start, next>> /\ pc' = "bisect"
      BY <2>1, <2>4
    <3>4. Started' /\ start' \in Nat
      BY <3>0, Zenon DEF IInv, Types, Started
    <3> HIDE DEF up, down
    <3>5. local' \in Locals /\ Knows("bisect", local')
      BY <2>1, <2>4, <3>2, <3>3, Zenon
    <3> QED
      BY <2>1, <2>4, <3>3, <3>4, <3>5, CallMoves
  <2> QED
    BY <2>3, <2>4
<1>6. CASE EndSearch
  <2>1. UNCHANGED <<snaps, first, meta, scan, next, plans>> /\ pc = "bisect" /\ Found(local.found)
    BY <1>6, Zenon DEF EndSearch
  <2>2. local.found \in Nat /\ local.found <= Len(snaps)
    BY <1>0, SMT DEF IInv, Knows, Locals
  <2> QED
    BY <1>t, <2>1, <2>2, FoundKeeps DEF Starting
<1> QED
  BY <1>1, <1>2, <1>3, <1>4, <1>5, <1>6

-----------------------------------------------------------------------------

\* The first result: nothing was delivered before next_snapshot_id_ is set, so
\* the plans start there.
LEMMA FirstResult ==
    ASSUME IInv, pc \in {"start", "read"},
           UNCHANGED <<snaps, first, meta, scan, created, start>>, pc' = "idle", local' = NoLocal,
           NEW id \in Nat \ {0}, NEW full \in Nat, next' = id,
           plans' \in [full : Nat, deltas : SUBSET Nat, origin : Nat, known : Int],
           plans'.full = full, plans'.origin = id, plans'.deltas = plans.deltas,
           full # None => id = full + 1,
           id > Len(snaps) + 1 => scan.mode = "id" /\ id = scan.arg
    PROVE  IInv'
<1>1. next = None /\ plans.deltas = {} /\ created
  BY DEF IInv, Knows, Started, Delivered, Starting
<1>2. plans'.deltas = {}
  BY <1>1
<1>3. Types'
  BY <1>2, SMT DEF IInv, Types, Locals, NoLocal, None
<1>4. Started'
  BY <1>1, Zenon DEF IInv, Started
<1>5. Knows(pc, local)'
  BY SMT DEF IInv, Types, Knows, NoLocal, None, Starting, Following
<1>6. DeliveredExactly'
  BY <1>2, SMT DEF DeliveredExactly, None
<1>7. Delivered'
  BY <1>2, <1>6, SMT DEF Delivered, None
<1> QED
  BY <1>3, <1>4, <1>5, <1>7 DEF IInv

\* A starting scanner that returns the id to follow.
LEMMA FollowResult ==
    ASSUME IInv, pc = "start",
           UNCHANGED <<snaps, first, meta, scan, created, start>>, Return("empty"),
           NEW id \in Nat \ {0}, Follow(id),
           id > Len(snaps) + 1 => scan.mode = "id" /\ id = scan.arg
    PROVE  IInv'
<1>1. next = None /\ plans.full = None
  BY DEF IInv, Knows, Delivered, Starting
<1>2. next' = id /\ plans' = [plans EXCEPT !.origin = id] /\ pc' = "idle" /\ local' = NoLocal
  BY DEF Follow, Return
<1>3. /\ plans' \in [full : Nat, deltas : SUBSET Nat, origin : Nat, known : Int]
      /\ plans'.full = None /\ plans'.origin = id /\ plans'.deltas = plans.deltas
  BY <1>1, <1>2, SMT DEF IInv, Types
<1>4. None \in Nat
  BY SMT DEF None
<1> QED
  BY <1>2, <1>3, <1>4, FirstResult

\* The first plan keeps the invariant.
LEMMA StartKeeps ==
    ASSUME IInv,
           \/ FullStart \/ LatestStart \/ FromSnapshotStart \/ FromSnapshotFullStart
           \/ StaticStart \/ StaticRange \/ LoadStart \/ ReadStart
    PROVE  IInv'
<1> USE DEF table, reader
<1>0. /\ Len(snaps) \in Nat /\ local \in Locals /\ first \in Nat \ {0} /\ start \in Nat
      /\ next \in Nat
  BY SMT DEF IInv, Types
<1>a. ASSUME NEW i \in Nat
      PROVE  /\ [local EXCEPT !.id = i] \in Locals
             /\ [local EXCEPT !.id = i].lo = local.lo
             /\ [local EXCEPT !.id = i].found = local.found
  BY <1>0, SMT DEF Locals
<1>b. EarliestSnapshotId \in Nat /\ EarliestSnapshotId <= first
  BY <1>0, SMT DEF EarliestSnapshotId, None
<1>1. CASE FullStart
  <2> DEFINE id == IF start = None THEN LatestSnapshotId ELSE start
  <2>1. /\ UNCHANGED <<snaps, first, meta, scan, created, next, plans>>
        /\ pc = "start" /\ scan.mode \in {"full", "latest"} /\ start' = id
        /\ \/ Return("empty")
           \/ pc' = "load" /\ local' = [local EXCEPT !.id = id]
    BY <1>1, Zenon DEF FullStart, Goto
  <2>2. id \in Nat
    BY <1>0, SMT DEF LatestSnapshotId
  <2> HIDE DEF id
  <2>3. Started' /\ start' \in Nat
    BY <2>1, <2>2, SMT DEF IInv, Started
  <2>4. CASE Return("empty")
    <3>1. NoLocal \in Locals /\ Knows("idle", NoLocal)
      BY <1>0, SMT DEF NoLocal, Locals, Knows, Starting, Following, None
    <3> QED
      BY <2>1, <2>3, <2>4, <3>1, CallMoves DEF Return
  <2>5. CASE pc' = "load" /\ local' = [local EXCEPT !.id = id]
    <3>1. Knows("load", [local EXCEPT !.id = id]) /\ "load" \in Starting
      BY <1>a, <2>1, <2>2, SMT DEF IInv, Knows, Starting, Following
    <3> QED
      BY <1>a, <2>1, <2>2, <2>3, <2>5, <3>1, CallMoves
  <2> QED
    BY <2>1, <2>4, <2>5
<1>2. CASE LatestStart
  <2>1. /\ UNCHANGED <<snaps, first, meta, scan, created, start>>
        /\ pc = "start" /\ scan.mode = "latest" /\ Return("empty")
        /\ IF LatestSnapshotId = None THEN UNCHANGED <<next, plans>>
           ELSE Follow(IF start = None THEN FirstId ELSE LatestSnapshotId + 1)
    BY <1>2, Zenon DEF LatestStart
  <2>2. CASE LatestSnapshotId = None
    BY <2>1, <2>2, CallReturns, Zenon DEF Return
  <2>3. CASE LatestSnapshotId # None
    <3> DEFINE id == IF start = None THEN FirstId ELSE LatestSnapshotId + 1
    <3>1. id \in Nat \ {0} /\ id <= Len(snaps) + 1
      BY <1>0, <2>3, SMT DEF LatestSnapshotId, FirstId, None
    <3>2. Follow(id)
      BY <2>1, <2>3
    <3> HIDE DEF id
    <3> QED
      BY <1>0, <2>1, <3>1, <3>2, FollowResult, SMT
  <2> QED
    BY <2>2, <2>3
<1>3. CASE FromSnapshotStart
  <2>1. /\ UNCHANGED <<snaps, first, meta, scan, created, start>>
        /\ pc = "start" /\ scan.mode \in {"id", "time"} /\ scan.streaming /\ Return("empty")
        /\ IF EarliestSnapshotId = None THEN UNCHANGED <<next, plans>>
           ELSE Follow(Max({start, EarliestSnapshotId}))
    BY <1>3, Zenon DEF FromSnapshotStart
  <2>2. CASE EarliestSnapshotId = None
    BY <2>1, <2>2, CallReturns, Zenon DEF Return
  <2>3. CASE EarliestSnapshotId # None
    <3> DEFINE id == Max({start, EarliestSnapshotId})
    <3>1. id \in {start, EarliestSnapshotId} /\ id >= EarliestSnapshotId
      BY <1>0, <1>b, MaxOfTwo
    <3>2. id \in Nat \ {0}
      BY <1>0, <1>b, <2>3, <3>1, SMT DEF None
    <3>3. EarliestSnapshotId <= Len(snaps) + 1
      BY <1>0, <1>b, SMT DEF IInv, Types
    <3>4. scan.mode = "time" => start <= Len(snaps) + 1
      BY <2>1, Zenon DEF IInv, Started
    <3>5. scan.mode = "id" => start = scan.arg
      BY <2>1, Zenon DEF IInv, Started
    <3>6. Follow(id)
      BY <2>1, <2>3
    <3> HIDE DEF id
    <3>7. id > Len(snaps) + 1 => scan.mode = "id" /\ id = scan.arg
      BY <1>0, <1>b, <2>1, <3>1, <3>3, <3>4, <3>5, SMT
    <3> QED
      BY <2>1, <3>2, <3>6, <3>7, FollowResult
  <2> QED
    BY <2>2, <2>3
<1>4. CASE FromSnapshotFullStart
  <2> DEFINE id == Max({start, EarliestSnapshotId})
  <2>1. /\ UNCHANGED <<snaps, first, meta, scan, created, start, next, plans>> /\ pc = "start"
        /\ \/ Return("empty")
           \/ pc' = "load" /\ local' = [local EXCEPT !.id = id]
    BY <1>4, Zenon DEF FromSnapshotFullStart, Goto
  <2>2. id \in Nat
    BY <1>0, <1>b, MaxOfTwo
  <2> HIDE DEF id
  <2>3. CASE Return("empty")
    BY <2>1, <2>3, CallReturns DEF Return
  <2>4. CASE pc' = "load" /\ local' = [local EXCEPT !.id = id]
    <3>1. Knows("load", [local EXCEPT !.id = id]) /\ "load" \in Starting
      BY <1>a, <2>1, <2>2, SMT DEF IInv, Knows, Starting, Following
    <3>2. Started' /\ start' \in Nat
      BY <1>0, <2>1, <2>4, Zenon DEF IInv, Started
    <3> QED
      BY <1>a, <2>1, <2>2, <2>4, <3>1, <3>2, CallMoves
  <2> QED
    BY <2>1, <2>3, <2>4
<1>5. CASE StaticStart
  <2> DEFINE l == [local EXCEPT !.lo = EarliestSnapshotId, !.id = start]
  <2>1. /\ UNCHANGED <<snaps, first, meta, scan, created, start, next, plans>> /\ pc = "start"
        /\ pc' = "range" /\ local' = l
    BY <1>5, Zenon DEF StaticStart, Goto
  <2>2. l \in Locals /\ l.lo = EarliestSnapshotId /\ l.found = local.found
    BY <1>0, <1>b, Zenon DEF Locals
  <2> HIDE DEF l
  <2>3. Knows("range", l) /\ "range" \in Starting
    BY <1>b, <2>1, <2>2, SMT DEF IInv, Knows, Starting, Following
  <2>4. Started' /\ start' \in Nat
    BY <1>0, <2>1, Zenon DEF IInv, Started
  <2> QED
    BY <2>1, <2>2, <2>3, <2>4, CallMoves
<1>6. CASE StaticRange \/ LoadStart
  <2>1. /\ UNCHANGED <<snaps, first, meta, scan, created, start, next, plans>>
        /\ pc \in {"range", "load"}
        /\ \/ pc' = "idle" /\ local' = NoLocal
           \/ pc' = "load" /\ local' = local
           \/ pc' = "read" /\ local' = local /\ SnapshotExists(local.id)
    BY <1>6, Zenon DEF StaticRange, LoadStart, Goto, Return
  <2>2. CASE pc' = "idle" /\ local' = NoLocal
    BY <2>1, <2>2, CallReturns
  <2>3. CASE pc' = "load" /\ local' = local
    <3>1. Knows("load", local) /\ "load" \in Starting
      BY <2>1, SMT DEF IInv, Knows, Starting, Following
    <3>2. Started' /\ start' \in Nat
      BY <1>0, <2>1, <2>3, Zenon DEF IInv, Started
    <3> QED
      BY <1>0, <2>1, <2>3, <3>1, <3>2, CallMoves
  <2>4. CASE pc' = "read" /\ local' = local /\ SnapshotExists(local.id)
    <3>1. local.id <= Len(snaps)
      BY <1>0, <2>4, SMT DEF SnapshotExists, Locals
    <3>2. Knows("read", local) /\ "read" \in Starting
      BY <2>1, <3>1, SMT DEF IInv, Knows, Starting, Following
    <3>3. Started' /\ start' \in Nat
      BY <1>0, <2>1, <2>4, Zenon DEF IInv, Started
    <3> QED
      BY <1>0, <2>1, <2>4, <3>2, <3>3, CallMoves
  <2> QED
    BY <2>1, <2>2, <2>3, <2>4
<1>7. CASE ReadStart
  <2>1. /\ UNCHANGED <<snaps, first, meta, scan, created, start>> /\ pc = "read"
        /\ pc' = "idle" /\ local' = NoLocal
        /\ \/ UNCHANGED <<next, plans>>
           \/ /\ next' = local.id + 1
              /\ plans' = [plans EXCEPT !.full = local.id, !.origin = local.id + 1]
    BY <1>7, Zenon DEF ReadStart, Return
  <2>2. CASE UNCHANGED <<next, plans>>
    BY <2>1, <2>2, CallReturns
  <2>3. CASE /\ next' = local.id + 1
             /\ plans' = [plans EXCEPT !.full = local.id, !.origin = local.id + 1]
    <3>1. local.id \in Nat /\ local.id + 1 \in Nat \ {0} /\ local.id + 1 <= Len(snaps) + 1
      BY <1>0, <2>1, SMT DEF IInv, Knows, Locals
    <3>2. /\ plans' \in [full : Nat, deltas : SUBSET Nat, origin : Nat, known : Int]
          /\ plans'.full = local.id /\ plans'.origin = local.id + 1 /\ plans'.deltas = plans.deltas
      BY <2>3, <3>1, Zenon DEF IInv, Types
    <3>3. ~(local.id + 1 > Len(snaps) + 1)
      BY <1>0, <3>1, SMT
    <3> QED
      BY <2>1, <2>3, <3>1, <3>2, <3>3, FirstResult
  <2> QED
    BY <2>1, <2>2, <2>3
<1> QED
  BY <1>1, <1>2, <1>3, <1>4, <1>5, <1>6, <1>7

-----------------------------------------------------------------------------

\* Moving past a snapshot, with its plan if there is something to read in it.
LEMMA PastNext ==
    ASSUME IInv, UNCHANGED <<snaps, first, meta, scan, created, start>>,
           pc \in Following, next <= Len(snaps), next' = next + 1,
           pc' \in {"idle", "exists"}, local' \in {local, NoLocal}, local.lo <= first,
           \/ ~Wanted(next) /\ plans' = plans
           \/ Wanted(next) /\ plans' = [plans EXCEPT !.deltas = @ \cup {next}]
    PROVE  IInv'
<1>0. /\ next \in Nat \ {0} /\ Len(snaps) \in Nat /\ plans.origin \in 1..next
      /\ plans.deltas = {i \in plans.origin..(next - 1) : i <= Len(snaps) /\ Wanted(i)}
      /\ created
  BY SMT DEF IInv, Types, Knows, Started, Delivered, DeliveredExactly, None
<1>1. /\ plans' \in [full : Nat, deltas : SUBSET Nat, origin : Nat, known : Int]
      /\ plans'.full = plans.full /\ plans'.origin = plans.origin
      /\ plans'.deltas = plans.deltas \cup (IF Wanted(next) THEN {next} ELSE {})
  <2>1. CASE ~Wanted(next) /\ plans' = plans
    BY <2>1, Zenon DEF IInv, Types
  <2>2. CASE Wanted(next) /\ plans' = [plans EXCEPT !.deltas = @ \cup {next}]
    BY <1>0, <2>2, Zenon DEF IInv, Types
  <2> QED
    BY <2>1, <2>2
<1>2. Types'
  <2>1. local' \in Locals
    BY SMT DEF IInv, Types, Locals, NoLocal, None
  <2>2. next' \in Nat /\ pc' \in {"idle"} \cup Starting \cup Following
    BY <1>0, SMT DEF Following
  <2> QED
    BY <1>1, <2>1, <2>2 DEF IInv, Types
<1>3. Started'
  BY <1>0, Zenon DEF IInv, Started
<1>4. Knows(pc, local)'
  BY <1>0, SMT DEF IInv, Types, Knows, NoLocal, None, Starting, Following
<1>5. \A i : Wanted(i)' <=> Wanted(i)
  BY Zenon DEF Wanted, NeedScanSnapshot
<1>6. plans'.deltas = {i \in plans.origin..next : i <= Len(snaps) /\ Wanted(i)}
  <2>1. \A i : i \in plans.origin..next <=> i \in plans.origin..(next - 1) \/ i = next
    BY <1>0, SMT
  <2> QED
    BY <1>0, <1>1, <2>1, Zenon
<1>7. next' - 1 = next /\ next' # None /\ ~(next' > Len(snaps) + 1)
  BY <1>0, SMT DEF None
<1>8. DeliveredExactly'
  BY <1>0, <1>1, <1>5, <1>6, <1>7, Zenon DEF IInv, Delivered, DeliveredExactly
<1>9. Delivered'
  BY <1>0, <1>1, <1>7, <1>8, SMT DEF Delivered, None
<1> QED
  BY <1>2, <1>3, <1>4, <1>9 DEF IInv

\* The plans after the first keep the invariant.
LEMMA FollowKeeps ==
    ASSUME IInv, CheckExists \/ LoadNext \/ ReadNext \/ NextEarliest \/ NextLatest
    PROVE  IInv'
<1> USE DEF table, reader
<1>0. /\ Len(snaps) \in Nat /\ local \in Locals /\ first \in Nat \ {0} /\ start \in Nat
      /\ next \in Nat
  BY SMT DEF IInv, Types
<1>1. CASE CheckExists
  <2>1. /\ UNCHANGED <<snaps, first, meta, scan, created, start, next, plans>> /\ pc = "exists"
        /\ pc' \in {"load_next", "next_earliest"} /\ local' = local
    BY <1>1, Zenon DEF CheckExists, Goto
  <2>2. pc' \in Following /\ Knows(pc', local)
    BY <2>1, SMT DEF IInv, Knows, Starting, Following
  <2>3. Started' /\ start' \in Nat
    BY <1>0, <2>1, Zenon DEF IInv, Started
  <2> QED
    BY <1>0, <2>1, <2>2, <2>3, CallMoves
<1>2. CASE LoadNext
  <2>1. /\ UNCHANGED <<snaps, first, meta, scan, created, start, plans>> /\ pc = "load_next"
        /\ \/ pc' = "idle" /\ local' = NoLocal /\ UNCHANGED next
           \/ /\ SnapshotExists(next) /\ NeedScanSnapshot(snaps[next])
              /\ pc' = "read_next" /\ local' = local /\ UNCHANGED next
           \/ /\ SnapshotExists(next) /\ ~NeedScanSnapshot(snaps[next])
              /\ pc' = "exists" /\ local' = local /\ next' = next + 1
    BY <1>2, Zenon DEF LoadNext, Goto, Return
  <2>2. CASE pc' = "idle" /\ local' = NoLocal /\ UNCHANGED next
    BY <2>1, <2>2, CallReturns
  <2>3. CASE /\ SnapshotExists(next) /\ NeedScanSnapshot(snaps[next])
             /\ pc' = "read_next" /\ local' = local /\ UNCHANGED next
    <3>1. next <= Len(snaps)
      BY <1>0, <2>3, SMT DEF SnapshotExists
    <3>2. "read_next" \in Following /\ Knows("read_next", local)
      BY <2>1, <2>3, <3>1, Zenon DEF IInv, Knows, Starting, Following
    <3>3. Started' /\ start' \in Nat
      BY <1>0, <2>1, <2>3, Zenon DEF IInv, Started
    <3> QED
      BY <1>0, <2>1, <2>3, <3>2, <3>3, CallMoves
  <2>4. CASE /\ SnapshotExists(next) /\ ~NeedScanSnapshot(snaps[next])
             /\ pc' = "exists" /\ local' = local /\ next' = next + 1
    <3>1. next <= Len(snaps) /\ local.lo <= first /\ pc \in Following
      BY <1>0, <2>1, <2>4, SMT DEF SnapshotExists, IInv, Knows, Following
    <3>2. ~Wanted(next)
      BY <2>4 DEF Wanted
    <3> QED
      BY <2>1, <2>4, <3>1, <3>2, PastNext
  <2> QED
    BY <2>1, <2>2, <2>3, <2>4
<1>3. CASE ReadNext
  <2>1. /\ UNCHANGED <<snaps, first, meta, scan, created, start>> /\ pc = "read_next"
        /\ \/ pc' = "idle" /\ local' = NoLocal /\ UNCHANGED <<next, plans>>
           \/ /\ next' = next + 1 /\ snaps[next].empty
              /\ pc' = "exists" /\ local' = local /\ plans' = plans
           \/ /\ next' = next + 1 /\ ~snaps[next].empty
              /\ pc' = "idle" /\ local' = NoLocal
              /\ plans' = [plans EXCEPT !.deltas = @ \cup {next}]
    BY <1>3, Zenon DEF ReadNext, Goto, Return
  <2>2. /\ next <= Len(snaps) /\ NeedScanSnapshot(snaps[next])
        /\ local.lo <= first /\ pc \in Following
    BY <2>1, Zenon DEF IInv, Knows, Following
  <2>3. CASE pc' = "idle" /\ local' = NoLocal /\ UNCHANGED <<next, plans>>
    BY <2>1, <2>3, CallReturns
  <2>4. CASE /\ next' = next + 1 /\ snaps[next].empty
             /\ pc' = "exists" /\ local' = local /\ plans' = plans
    <3>1. ~Wanted(next)
      BY <2>4 DEF Wanted
    <3> QED
      BY <2>1, <2>2, <2>4, <3>1, PastNext
  <2>5. CASE /\ next' = next + 1 /\ ~snaps[next].empty
             /\ pc' = "idle" /\ local' = NoLocal
             /\ plans' = [plans EXCEPT !.deltas = @ \cup {next}]
    <3>1. Wanted(next)
      BY <2>2, <2>5 DEF Wanted
    <3> QED
      BY <2>1, <2>2, <2>5, <3>1, PastNext
  <2> QED
    BY <2>1, <2>3, <2>4, <2>5
<1>4. CASE NextEarliest
  <2> DEFINE l == [local EXCEPT !.lo = EarliestSnapshotId]
  <2>1. /\ UNCHANGED <<snaps, first, meta, scan, created, start, next, plans>>
        /\ pc = "next_earliest" /\ pc' = "next_latest" /\ local' = l
    BY <1>4, Zenon DEF NextEarliest, Goto
  <2>2. l \in Locals /\ l.lo <= first /\ l.found = local.found
    BY <1>0, SMT DEF Locals, EarliestSnapshotId, None
  <2> HIDE DEF l
  <2>3. Knows("next_latest", l) /\ "next_latest" \in Following
    BY <2>1, <2>2, SMT DEF IInv, Knows, Starting, Following
  <2>4. Started' /\ start' \in Nat
    BY <1>0, <2>1, Zenon DEF IInv, Started
  <2> QED
    BY <2>1, <2>2, <2>3, <2>4, CallMoves
<1>5. CASE NextLatest
  BY <1>5, CallReturns, Zenon DEF NextLatest, Return
<1> QED
  BY <1>1, <1>2, <1>3, <1>4, <1>5

-----------------------------------------------------------------------------

\* Every step keeps the invariant.
LEMMA NextKeeps == IInv /\ [Next]_vars => IInv'
<1> SUFFICES ASSUME IInv, [Next]_vars
             PROVE  IInv'
  OBVIOUS
<1>1. CASE Next
  BY <1>1, TableKeeps, CallKeeps, SearchKeeps, StartKeeps, FollowKeeps, Zenon DEF Next, Reader
<1>2. CASE UNCHANGED vars
  <2>1. UNCHANGED <<snaps, first, meta, scan, created, start, next, pc, local, plans>>
    BY <1>2 DEF vars, table, reader, call
  <2>2. Delivered'
    BY <2>1, NothingDelivered DEF IInv
  <2>3. Types' /\ Started' /\ Knows(pc, local)'
    BY <2>1, Zenon DEF IInv, Types, Started, Knows, NeedScanSnapshot
  <2> QED
    BY <2>2, <2>3 DEF IInv
<1> QED
  BY <1>1, <1>2

\* The invariant, for every set of scans and every bound.
THEOREM Invariance == Spec => []IInv
  BY InitEstablishes, NextKeeps, PTL DEF Spec

\* A stream delivers every snapshot that it should exactly once and in order,
\* whatever is committed, expired or fails between two reads of the snapshot
\* directory: DataTableStreamScan::NextPlan moves next_snapshot_id_ only with the
\* plan in hand.
THEOREM ScanIsExact == Spec => []DeliveredExactly
<1>1. IInv => DeliveredExactly
  BY DEF IInv, Delivered
<1> QED
  BY <1>1, Invariance, PTL

\* The earliest id that GetNextSnapshot has read is not later than the earliest.
LEMMA LowIsPast ==
    ASSUME IInv, pc = "next_latest"
    PROVE  local.lo <= first /\ local.lo \in Nat /\ next \in Nat /\ first \in Nat
  BY SMT DEF IInv, Types, Knows, Locals

\* GetNextSnapshot reports a snapshot as expired, or as too big, only when it is.
THEOREM ErrorsAreJustified == Spec => ErrorsAreTrue
<1> DEFINE Told ==
      pc # "idle" /\ pc' = "idle" =>
         /\ status' = "expired" => next < first
         /\ status' = "too big" => scan.mode = "id" /\ next = scan.arg /\ next > Len(snaps) + 1
<1>1. IInv /\ [Next]_vars => [Told]_vars
  <2> SUFFICES ASSUME IInv, Next, pc # "idle", pc' = "idle", status' \in {"expired", "too big"}
               PROVE  Told
    BY Zenon
  <2>1. NextLatest
    BY Zenon
    DEF Next, Reader, Publish, ExpireManifests, ExpireSnapshot, CreatePlan, IoError,
        CreateLatest, SearchLatest, SearchEarliest, ProbeEarliest, Bisect, EndSearch, FullStart,
        LatestStart, FromSnapshotStart, FromSnapshotFullStart, StaticStart, StaticRange,
        LoadStart, ReadStart, CheckExists, LoadNext, ReadNext, NextEarliest, NextLatest,
        Found, Goto, Return, call
  <2>0. pc = "next_latest"
    BY <2>1, Zenon DEF NextLatest
  <2>2. local.lo <= first /\ local.lo \in Nat /\ next \in Nat /\ first \in Nat
    BY <2>0, LowIsPast, Zenon
  <2>3. status' = "expired" => local.lo > next
    BY <2>1, Zenon DEF NextLatest, Return
  <2>4. status' = "too big" => TooBig
    BY <2>1, Zenon DEF NextLatest, Return
  <2>5. status' = "expired" => next < first
    BY <2>2, <2>3, SMT
  <2>6. status' = "too big" => scan.mode = "id" /\ next = scan.arg /\ next > Len(snaps) + 1
    BY <2>4, Zenon DEF TooBig, LatestSnapshotId, IInv, Delivered
  <2> QED
    BY <2>5, <2>6, Zenon
<1> QED
  BY <1>1, Invariance, PTL DEF Spec, ErrorsAreTrue

-----------------------------------------------------------------------------
(* Where a scan starts: the search by bisection over a table that grows and *)
(* expires under it.                                                        *)

\* Snapshots are numbered in the order of their times.
Sorted == \A i, j \in 1..Len(snaps) : i <= j => snaps[i].time <= snaps[j].time

\* The snapshots at the first call; before it nothing has been read.
KnownFirst ==
    /\ plans.known \in -1..Len(snaps)
    /\ plans.known = -1 => pc = "idle" /\ ~created /\ start = None

\* Where the starting scanner was told to start, by startup mode.
StartsAt ==
    /\ scan.mode \in {"full", "latest"} /\ start # None => start >= plans.known
    /\ scan.mode \in {"id", "id_full"} /\ created => start = scan.arg
    /\ scan.mode = "time" /\ scan.streaming /\ created =>
         \A i \in 1..plans.known :
            IF i < start THEN snaps[i].time < scan.arg
            ELSE snaps[i].time >= scan.arg \/ i < first
    /\ scan.mode = "time" /\ ~scan.streaming /\ created =>
         /\ start \in 1..Len(snaps)
         /\ snaps[start].time <= scan.arg
         /\ \A i \in 1..plans.known : i > start => snaps[i].time > scan.arg

\* What FindSnapshotBeforeTimestamp knows at a label.
Searching(label, l) ==
    /\ label \in {"search", "earliest", "probe"} => l.found = None
    /\ label \in {"earliest", "probe", "bisect"} =>
         \A i \in 1..plans.known : i > l.hi => ~Earlier(snaps[i])
    /\ label = "bisect" =>
         /\ l.lo >= 1 /\ l.lo - 1 <= Len(snaps)
         /\ \A i \in 1..(l.lo - 1) : Earlier(snaps[i])
         /\ l.found = None => l.lo <= first
         /\ l.found # None => l.found = l.lo - 1

\* The snapshot that the full plan is made of.
Reading(label, l) ==
    label \in {"range", "load", "read"} =>
      /\ scan.mode \in {"latest", "time"} => ~scan.streaming
      /\ scan.mode \in {"full", "latest"} => l.id >= plans.known
      /\ scan.mode = "time" => l.id = start
      /\ scan.mode \in {"id", "id_full"} =>
           l.id = scan.arg \/ (scan.streaming /\ scan.arg < first)

\* The first plan was made where the starting scanner was told.
FirstPlan ==
    next # None =>
      /\ scan.mode = "time" /\ scan.streaming =>
           \A i \in 1..plans.known : IF i < plans.origin THEN snaps[i].time < scan.arg \/ i < first
                                     ELSE snaps[i].time >= scan.arg
      /\ scan.mode = "time" /\ ~scan.streaming => plans.full = start
      /\ scan.mode = "latest" /\ scan.streaming =>
           plans.origin = 1 \/ plans.origin > plans.known
      /\ scan.mode = "latest" /\ scan.streaming /\ start = None => plans.origin = 1
      /\ plans.full # None /\ scan.mode \in {"full", "latest"} => plans.full >= plans.known
      /\ plans.full # None /\ scan.mode \in {"id", "id_full"} =>
           plans.full = scan.arg \/ (scan.streaming /\ scan.arg < first)

StartInv ==
    Sorted /\ KnownFirst /\ StartsAt /\ Searching(pc, local) /\ Reading(pc, local) /\ FirstPlan

\* Times are numbers.
LEMMA SnapshotTimes ==
    ASSUME IInv
    PROVE  /\ Len(snaps) \in Nat /\ scan.arg \in Nat /\ plans.known \in Int
           /\ \A i \in 1..Len(snaps) : snaps[i].time \in Int
<1>1. \A c \in Commits : c.time \in Int
  BY ScansAssumption, Zenon DEF Commits
<1>2. \A i \in 1..Len(snaps) : snaps[i] \in Commits
  BY SMT DEF IInv, Types
<1>3. scan.arg \in Nat
  BY ScansAssumption DEF IInv, Types
<1> QED
  BY <1>1, <1>2, <1>3, SMT DEF IInv, Types

\* Nothing has been read of the empty table.
LEMMA InitStarts == Init => StartInv
  BY SMT DEF Init, StartInv, Sorted, KnownFirst, StartsAt, Searching, Reading, FirstPlan, NoLocal, None

\* A call that moves on with the same scanner and the same first plan.
LEMMA StartStays ==
    ASSUME StartInv, UNCHANGED <<snaps, first, scan, created, start>>,
           plans'.full = plans.full, plans'.origin = plans.origin, plans'.known = plans.known,
           next' = None <=> next = None,
           plans.known = -1 => pc' = "idle",
           Searching(pc', local'), Reading(pc', local')
    PROVE  StartInv'
<1>1. Sorted'
  BY Zenon DEF StartInv, Sorted
<1>2. KnownFirst'
  BY Zenon DEF StartInv, KnownFirst
<1>3. StartsAt'
  BY Zenon DEF StartInv, StartsAt
<1>4. Searching(pc, local)'
  BY Zenon DEF Searching, Earlier
<1>5. Reading(pc, local)'
  BY Zenon DEF Reading
<1>6. FirstPlan'
  BY Zenon DEF StartInv, FirstPlan
<1> QED
  BY <1>1, <1>2, <1>3, <1>4, <1>5, <1>6 DEF StartInv

\* A call that returns without a first plan.
LEMMA StartReturns ==
    ASSUME StartInv, UNCHANGED <<snaps, first, scan, created, start>>,
           plans'.full = plans.full, plans'.origin = plans.origin, plans'.known = plans.known,
           next' = None <=> next = None, pc' = "idle"
    PROVE  StartInv'
<1>1. Searching(pc', local') /\ Reading(pc', local')
  BY Zenon DEF Searching, Reading
<1> QED
  BY <1>1, StartStays

-----------------------------------------------------------------------------

\* A commit adds a snapshot whose time is no earlier; expiration only takes
\* snapshots away. Neither moves the place where a scan has started.
LEMMA TableStarts ==
    ASSUME SteadyClocks, IInv, StartInv,
           (\E c \in scan.commits : Publish(c)) \/ ExpireManifests \/ ExpireSnapshot
    PROVE  StartInv'
<1> USE DEF reader, call
<1>0. /\ Len(snaps) \in Nat /\ scan.arg \in Nat
      /\ plans.known \in Int /\ plans.known <= Len(snaps)
      /\ \A i \in 1..Len(snaps) : snaps[i].time \in Int
  BY SnapshotTimes, SMT DEF StartInv, KnownFirst
<1>1. CASE \E c \in scan.commits : Publish(c)
  <2>1. PICK c \in scan.commits : Publish(c)
    BY <1>1
  <2>2. /\ Len(snaps') = Len(snaps) + 1
        /\ \A i \in 1..Len(snaps) : snaps'[i] = snaps[i]
        /\ snaps'[Len(snaps) + 1] = c
    BY <2>1, SMT DEF IInv, Types, Publish
  <2>3. UNCHANGED <<first, scan, created, start, next, pc, local, plans>>
    BY <2>1 DEF Publish
  <2>4. Sorted'
    <3>1. c.time \in Int
      BY ScansAssumption DEF IInv, Types
    <3>2. \A i \in 1..Len(snaps) : snaps[i].time <= c.time
      <4>1. CASE snaps = <<>>
        BY <4>1, SMT
      <4>2. CASE snaps # <<>>
        <5>1. Len(snaps) \in 1..Len(snaps) /\ snaps[Len(snaps)].time <= c.time
          BY <2>1, <4>2, <1>0, SMT DEF Publish, IInv, Types
        <5> QED
          BY <5>1, <3>1, <1>0, SMT DEF StartInv, Sorted
      <4> QED
        BY <4>1, <4>2
    <3> QED
      BY <1>0, <2>2, <3>1, <3>2, SMT DEF StartInv, Sorted
  <2>5. KnownFirst'
    BY <1>0, <2>2, <2>3, SMT DEF StartInv, KnownFirst
  <2>6. \A i \in 1..plans.known : i \in 1..Len(snaps) /\ snaps'[i] = snaps[i]
    BY <1>0, <2>2, SMT
  <2>7. \A i \in 1..Len(snaps) : i \in 1..Len(snaps') /\ snaps'[i] = snaps[i]
    BY <1>0, <2>2, SMT
  <2>8. StartsAt'
    BY <2>3, <2>6, <2>7, Zenon DEF StartInv, StartsAt
  <2>9. Searching(pc, local)'
    <3>1. pc = "bisect" => /\ local.lo - 1 <= Len(snaps')
                           /\ \A i \in 1..(local.lo - 1) : i \in 1..Len(snaps)
      BY <1>0, <2>2, SMT DEF StartInv, Searching, IInv, Types, Locals
    <3> QED
      BY <2>3, <2>6, <2>7, <3>1, Zenon DEF StartInv, Searching, Earlier
  <2>10. Reading(pc, local)' /\ FirstPlan'
    BY <2>3, <2>6, Zenon DEF StartInv, Reading, FirstPlan
  <2> QED
    BY <2>4, <2>5, <2>8, <2>9, <2>10 DEF StartInv
<1>2. CASE ExpireManifests \/ ExpireSnapshot
  <2>1. UNCHANGED <<snaps, scan, created, start, next, pc, local, plans>>
    BY <1>2 DEF ExpireManifests, ExpireSnapshot
  <2>2. first \in Nat /\ first' \in Nat /\ first' >= first
    BY <1>2, SMT DEF IInv, Types, ExpireManifests, ExpireSnapshot
  <2>3. Sorted' /\ KnownFirst'
    BY <2>1, Zenon DEF StartInv, Sorted, KnownFirst
  <2>4. \A i \in 1..plans.known : i < first => i < first'
    BY <2>2, <1>0, SMT
  <2>5. scan.arg < first => scan.arg < first'
    BY <2>2, <1>0, SMT
  <2>6. StartsAt'
    BY <2>1, <2>4, Zenon DEF StartInv, StartsAt
  <2>7. Searching(pc, local)'
    <3>1. local.lo <= first => local.lo <= first'
      BY <2>2, SMT DEF IInv, Types, Locals
    <3> QED
      BY <2>1, <3>1, Zenon DEF StartInv, Searching, Earlier
  <2>8. Reading(pc, local)' /\ FirstPlan'
    BY <2>1, <2>4, <2>5, Zenon DEF StartInv, Reading, FirstPlan
  <2> QED
    BY <2>3, <2>6, <2>7, <2>8 DEF StartInv
<1> QED
  BY <1>1, <1>2

\* CreatePlan notes the snapshots there are at the first call.
LEMMA CallStarts ==
    ASSUME IInv, StartInv, CreatePlan \/ IoError
    PROVE  StartInv'
<1> USE DEF table, reader
<1>1. CASE CreatePlan
  <2>0. Entry \in {"create", "search", "start", "exists"}
    BY Zenon DEF Entry
  <2>1. /\ UNCHANGED <<snaps, first, meta, scan, next>>
        /\ local' = NoLocal
        /\ pc' \in {"idle", Entry}
        /\ plans' = [plans EXCEPT !.known = IF @ = -1 THEN Len(snaps) ELSE @]
        /\ start' \in {start, scan.arg}
        /\ start' # start => ~created /\ scan.mode \in {"id", "id_full"} /\ created'
    <3>1. scan.mode \in {"id", "id_full"} /\ ~created => Entry = "start"
      BY Zenon DEF Entry
    <3> QED
      BY <1>1, <3>1, Zenon DEF CreatePlan, Return, Goto
  <2>2. /\ created => created'
        /\ created' /\ ~created => scan.mode # "time"
        /\ created' /\ scan.mode \in {"id", "id_full"} => created \/ start' = scan.arg
    BY <1>1, Zenon DEF CreatePlan, Return, Goto, Entry
  <2>3. /\ plans'.full = plans.full /\ plans'.origin = plans.origin
        /\ plans'.known = IF plans.known = -1 THEN Len(snaps) ELSE plans.known
    BY <2>1, SMT DEF IInv, Types
  <2>4. Sorted'
    BY <2>1, Zenon DEF StartInv, Sorted
  <2>5. KnownFirst'
    <3>1. plans'.known \in -1..Len(snaps) /\ plans'.known # -1
      BY <2>3, SnapshotTimes, SMT DEF StartInv, KnownFirst
    <3> QED
      BY <2>1, <3>1, Zenon DEF KnownFirst
  <2>6. created \/ start # None => plans'.known = plans.known
    BY <2>3, Zenon DEF StartInv, KnownFirst
  <2>7. StartsAt'
    <3>1. scan.mode \in {"full", "latest"} => start' = start
      BY <2>1, Zenon
    <3>2. scan.mode = "time" => start' = start /\ (created' => created)
      BY <2>1, <2>2, Zenon
    <3> QED
      BY <2>1, <2>2, <2>6, <3>1, <3>2, Zenon DEF StartInv, StartsAt
  <2>8. Searching(pc, local)'
    BY <2>0, <2>1, SMT DEF Searching, NoLocal
  <2>9. Reading(pc, local)'
    BY <2>0, <2>1, Zenon DEF Reading
  <2>10. FirstPlan'
    <3>1. next # None => created /\ start' = start /\ plans'.known = plans.known
      BY <2>1, <2>6, Zenon DEF IInv, Started
    <3> QED
      BY <2>1, <2>3, <3>1, Zenon DEF StartInv, FirstPlan
  <2> QED
    BY <2>4, <2>5, <2>7, <2>8, <2>9, <2>10 DEF StartInv
<1>2. CASE IoError
  BY <1>2, StartReturns, Zenon DEF IoError, Return
<1> QED
  BY <1>1, <1>2

-----------------------------------------------------------------------------

\* Found turns what the search has learnt into the place to start at.
LEMMA FoundStarts ==
    ASSUME IInv, StartInv, scan.mode = "time", pc \in {"search", "probe", "bisect"},
           UNCHANGED <<snaps, first, scan, next, plans>>,
           NEW id \in Nat, id <= Len(snaps), Found(id),
           id = None => \A i \in 1..plans.known : ~Earlier(snaps[i]) \/ i < first,
           id # None => /\ \A i \in 1..id : Earlier(snaps[i])
                        /\ \A i \in 1..plans.known : i > id => ~Earlier(snaps[i])
    PROVE  StartInv'
<1>0. /\ Len(snaps) \in Nat /\ scan.arg \in Nat
      /\ plans.known \in Int /\ plans.known <= Len(snaps)
      /\ \A i \in 1..Len(snaps) : snaps[i].time \in Int
  BY SnapshotTimes, SMT DEF StartInv, KnownFirst
<1>1. CASE id = None /\ ~scan.streaming
  BY <1>1, StartReturns, Zenon DEF Found, Return
<1>2. CASE ~(id = None /\ ~scan.streaming)
  <2>1. /\ created' = TRUE /\ pc' = "start" /\ local' = NoLocal
        /\ start' = IF ~scan.streaming THEN id ELSE IF id = None THEN FirstId ELSE id + 1
    BY <1>2, Zenon DEF Found, Goto
  <2>2. Sorted' /\ KnownFirst'
    BY <2>1, Zenon DEF StartInv, Sorted, KnownFirst
  <2>3. StartsAt'
    <3>1. CASE scan.streaming
      <4>1. ASSUME NEW i \in 1..plans.known
            PROVE  IF i < start' THEN snaps[i].time < scan.arg
                   ELSE snaps[i].time >= scan.arg \/ i < first
        <5>1. i \in 1..Len(snaps) /\ snaps[i].time \in Int /\ i \in Nat
          BY <1>0, <4>1, SMT
        <5>2. Earlier(snaps[i]) <=> snaps[i].time < scan.arg
          BY <3>1, Zenon DEF Earlier
        <5>3. CASE id = None
          BY <1>0, <2>1, <3>1, <4>1, <5>1, <5>2, <5>3, SMT DEF FirstId
        <5>4. CASE id # None
          BY <1>0, <2>1, <3>1, <4>1, <5>1, <5>2, <5>4, SMT
        <5> QED
          BY <5>3, <5>4
      <4> QED
        BY <3>1, <4>1, Zenon DEF StartsAt
    <3>2. CASE ~scan.streaming
      <4>1. \A i \in 1..Len(snaps) : Earlier(snaps[i]) <=> snaps[i].time <= scan.arg
        BY <3>2, Zenon DEF Earlier
      <4>2. start' = id /\ id # None /\ id \in 1..Len(snaps)
        BY <1>0, <1>2, <2>1, <3>2, SMT DEF None
      <4>3. snaps[id].time <= scan.arg
        <5>1. id \in 1..id
          BY <4>2, SMT DEF None
        <5> QED
          BY <4>1, <4>2, <5>1
      <4>4. \A i \in 1..plans.known : i > id => snaps[i].time > scan.arg
        BY <1>0, <4>1, <4>2, SMT
      <4> QED
        BY <3>2, <4>2, <4>3, <4>4, Zenon DEF StartsAt
    <3> QED
      BY <3>1, <3>2
  <2>4. Searching(pc, local)' /\ Reading(pc, local)'
    BY <2>1, Zenon DEF Searching, Reading
  <2>5. FirstPlan'
    <3>1. next = None
      BY DEF IInv, Knows, Starting
    <3> QED
      BY <3>1 DEF FirstPlan
  <2> QED
    BY <2>2, <2>3, <2>4, <2>5 DEF StartInv
<1> QED
  BY <1>1, <1>2

\* The search keeps the invariant: what is below lo is earlier, and of the
\* snapshots of the first call nothing above hi is, though the table grows and
\* expires between its reads.
LEMMA SearchStarts ==
    ASSUME IInv, StartInv,
           CreateLatest \/ SearchLatest \/ SearchEarliest \/ ProbeEarliest \/ Bisect \/ EndSearch
    PROVE  StartInv'
<1> USE DEF table, reader
<1>0. /\ Len(snaps) \in Nat /\ scan.arg \in Nat /\ local \in Locals /\ first \in Nat \ {0}
      /\ plans.known \in Int /\ plans.known <= Len(snaps)
      /\ \A i \in 1..Len(snaps) : snaps[i].time \in Int
  BY SnapshotTimes, SMT DEF StartInv, KnownFirst, IInv, Types
<1>n. pc \in Starting => next = None
  BY DEF IInv, Knows
<1>t. /\ pc \in {"search", "earliest", "probe", "bisect"} => scan.mode = "time"
      /\ pc = "create" => scan.mode = "latest"
  BY DEF IInv, Knows
<1>k. pc # "idle" => plans.known # -1
  BY DEF StartInv, KnownFirst
<1>e. ASSUME NEW i \in 1..Len(snaps), NEW j \in 1..Len(snaps), i <= j, Earlier(snaps[j])
      PROVE  Earlier(snaps[i])
  <2>1. snaps[i].time <= snaps[j].time
    BY <1>e DEF StartInv, Sorted
  <2> QED
    BY <1>0, <1>e, <2>1, SMT DEF Earlier
<1>1. CASE CreateLatest
  <2>1. /\ UNCHANGED <<snaps, first, scan, next, plans>>
        /\ start' = Len(snaps) /\ created' = TRUE /\ pc' = "start" /\ pc = "create"
    BY <1>1, Zenon DEF CreateLatest, Goto, LatestSnapshotId
  <2>2. next = None /\ scan.mode = "latest" /\ plans.known # -1
    BY <1>n, <1>t, <1>k, <2>1 DEF Starting
  <2>3. Sorted' /\ KnownFirst'
    BY <2>1, <2>2, Zenon DEF StartInv, Sorted, KnownFirst
  <2>4. StartsAt'
    BY <1>0, <2>1, <2>2, SMT DEF StartsAt
  <2>5. Searching(pc, local)' /\ Reading(pc, local)' /\ FirstPlan'
    BY <2>1, <2>2, Zenon DEF Searching, Reading, FirstPlan
  <2> QED
    BY <2>3, <2>4, <2>5 DEF StartInv
<1>2. CASE SearchLatest
  <2>1. UNCHANGED <<snaps, first, scan, next, plans>> /\ pc = "search"
    BY <1>2, Zenon DEF SearchLatest
  <2>2. CASE Found(None) /\ Len(snaps) = 0
    <3>1. 1..plans.known = {}
      BY <1>0, <2>2, SMT
    <3>2. None \in Nat /\ None <= Len(snaps)
      BY <1>0, SMT DEF None
    <3> QED
      BY <1>t, <2>1, <2>2, <3>1, <3>2, FoundStarts
  <2>3. CASE /\ Goto("earliest", [local EXCEPT !.hi = LatestSnapshotId])
             /\ UNCHANGED <<created, start>>
    <3>1. pc' = "earliest" /\ local'.hi = Len(snaps) /\ local'.found = local.found
      BY <1>0, <2>3, SMT DEF Goto, Locals, LatestSnapshotId
    <3>2. local.found = None
      BY <2>1 DEF StartInv, Searching
    <3>3. \A i \in 1..plans.known : ~(i > Len(snaps))
      BY <1>0, SMT
    <3>4. Searching(pc', local') /\ Reading(pc', local')
      BY <3>1, <3>2, <3>3, Zenon DEF Searching, Reading
    <3> QED
      BY <1>k, <2>1, <2>3, <3>4, StartStays
  <2> QED
    BY <1>2, <2>2, <2>3, Zenon DEF SearchLatest, LatestSnapshotId, None
<1>3. CASE SearchEarliest
  <2>1. /\ UNCHANGED <<snaps, first, scan, created, start, next, plans>>
        /\ pc = "earliest" /\ pc' = "probe" /\ local' = [local EXCEPT !.lo = EarliestSnapshotId]
    BY <1>3, Zenon DEF SearchEarliest, Goto
  <2>2. local'.hi = local.hi /\ local'.found = local.found
    BY <1>0, <2>1, SMT DEF Locals
  <2>3. Searching(pc', local') /\ Reading(pc', local')
    BY <2>1, <2>2, Zenon DEF StartInv, Searching, Reading
  <2> QED
    BY <1>k, <2>1, <2>3, StartStays
<1>4. CASE ProbeEarliest
  <2>1. UNCHANGED <<snaps, first, scan, next, plans>> /\ pc = "probe"
    BY <1>4, Zenon DEF ProbeEarliest
  <2>5. local.lo \in Nat /\ local.lo <= first /\ first \in Nat \ {0}
    BY <1>0, <2>1, SMT DEF IInv, Types, Knows, Locals
  <2>2. CASE Return("missing") /\ UNCHANGED <<created, start>>
    BY <2>1, <2>2, StartReturns, Zenon DEF Return
  <2>3. CASE SnapshotExists(local.lo) /\ ~Earlier(snaps[local.lo]) /\ Found(None)
    <3>1. local.lo \in 1..Len(snaps) /\ local.lo <= first
      BY <2>3, <2>5, SMT DEF SnapshotExists
    <3>2. \A i \in 1..plans.known : ~Earlier(snaps[i]) \/ i < first
      <4> SUFFICES ASSUME NEW i \in 1..plans.known, Earlier(snaps[i])
                   PROVE  i < first
        OBVIOUS
      <4>1. i \in 1..Len(snaps)
        BY <1>0, SMT
      <4>2. ~(local.lo <= i)
        BY <1>e, <2>3, <3>1, <4>1
      <4> QED
        BY <1>0, <3>1, <4>1, <4>2, SMT
    <3>3. None \in Nat /\ None <= Len(snaps)
      BY <1>0, SMT DEF None
    <3> QED
      BY <1>t, <2>1, <2>3, <3>2, <3>3, FoundStarts
  <2>4. CASE /\ SnapshotExists(local.lo) /\ Earlier(snaps[local.lo])
             /\ Goto("bisect", local) /\ UNCHANGED <<created, start>>
    <3>1. local.lo \in 1..Len(snaps) /\ local.lo <= first
      BY <2>4, <2>5, SMT DEF SnapshotExists
    <3>2. \A i \in 1..(local.lo - 1) : i \in 1..Len(snaps) /\ i <= local.lo
      BY <1>0, <3>1, SMT
    <3>3. \A i \in 1..(local.lo - 1) : Earlier(snaps[i])
      BY <1>e, <2>4, <3>1, <3>2
    <3>4. local.lo >= 1 /\ local.lo - 1 <= Len(snaps)
      BY <1>0, <3>1, SMT
    <3>5. local.found = None /\ pc' = "bisect" /\ local' = local
      BY <2>1, <2>4 DEF StartInv, Searching, Goto
    <3>6. Searching(pc', local') /\ Reading(pc', local')
      BY <2>1, <3>1, <3>3, <3>4, <3>5, Zenon DEF StartInv, Searching, Reading
    <3> QED
      BY <1>k, <2>1, <2>4, <3>6, StartStays
  <2> QED
    BY <1>4, <2>2, <2>3, <2>4, Zenon DEF ProbeEarliest
<1>5. CASE Bisect
  <2> DEFINE mid == local.lo + (local.hi - local.lo) \div 2
             up == [local EXCEPT !.lo = mid + 1, !.found = mid]
             down == [local EXCEPT !.hi = mid - 1]
  <2>1. /\ UNCHANGED <<snaps, first, scan, created, start, next, plans>>
        /\ pc = "bisect"
        /\ \/ Return("missing")
           \/ SnapshotExists(mid) /\ pc' = "bisect" /\ Earlier(snaps[mid]) /\ local' = up
           \/ SnapshotExists(mid) /\ pc' = "bisect" /\ ~Earlier(snaps[mid]) /\ local' = down
    BY <1>5, Zenon DEF Bisect, Goto
  <2>2. mid \in Int /\ mid + 1 \in Int /\ mid - 1 \in Int
    <3>1. local.lo \in Int /\ local.hi \in Int
      BY <1>0, SMT DEF Locals
    <3>2. \A i, j \in Int : i + (j - i) \div 2 \in Int
      BY SMT
    <3>3. mid \in Int
      BY <3>1, <3>2, Zenon
    <3> QED
      BY <3>3, SMT
  <2> HIDE DEF mid
  <2>3. CASE Return("missing")
    BY <2>1, <2>3, StartReturns, Zenon DEF Return
  <2>4. CASE SnapshotExists(mid) /\ pc' = "bisect" /\ Earlier(snaps[mid]) /\ local' = up
    <3>1. mid \in 1..Len(snaps)
      BY <1>0, <2>2, <2>4, SMT DEF SnapshotExists
    <3>2. local'.lo = mid + 1 /\ local'.found = mid /\ local'.hi = local.hi
      BY <1>0, <2>4, SMT DEF Locals
    <3>3. \A i \in 1..mid : Earlier(snaps[i])
      <4>1. \A i \in 1..mid : i \in 1..Len(snaps) /\ i <= mid
        BY <1>0, <3>1, SMT
      <4> QED
        BY <1>e, <2>4, <3>1, <4>1
    <3>4. /\ local'.lo >= 1 /\ local'.lo - 1 = mid /\ mid <= Len(snaps)
          /\ local'.found # None
      BY <1>0, <3>1, <3>2, SMT DEF None
    <3>5. Searching(pc', local') /\ Reading(pc', local')
      BY <2>1, <2>4, <3>2, <3>3, <3>4, Zenon DEF StartInv, Searching, Reading
    <3> QED
      BY <1>k, <2>1, <2>4, <3>5, StartStays
  <2>5. CASE SnapshotExists(mid) /\ pc' = "bisect" /\ ~Earlier(snaps[mid]) /\ local' = down
    <3>1. mid \in 1..Len(snaps)
      BY <1>0, <2>2, <2>5, SMT DEF SnapshotExists
    <3>2. local'.lo = local.lo /\ local'.found = local.found /\ local'.hi = mid - 1
      BY <1>0, <2>5, SMT DEF Locals
    <3>3. \A i \in 1..plans.known : i > mid - 1 => ~Earlier(snaps[i])
      <4>1. \A i \in 1..plans.known : i > mid - 1 => i \in 1..Len(snaps) /\ mid <= i
        BY <1>0, <3>1, SMT
      <4> QED
        BY <1>e, <2>5, <3>1, <4>1
    <3>4. Searching(pc', local') /\ Reading(pc', local')
      BY <2>1, <2>5, <3>2, <3>3, Zenon DEF StartInv, Searching, Reading
    <3> QED
      BY <1>k, <2>1, <2>5, <3>4, StartStays
  <2> QED
    BY <2>1, <2>3, <2>4, <2>5
<1>6. CASE EndSearch
  <2>1. /\ UNCHANGED <<snaps, first, scan, next, plans>> /\ pc = "bisect" /\ Found(local.found)
        /\ local.lo > local.hi
    BY <1>6, Zenon DEF EndSearch
  <2>2. local.found \in Nat /\ local.found <= Len(snaps) /\ local.lo \in Nat /\ local.hi \in Int
    BY <1>0, SMT DEF IInv, Knows, Locals
  <2>3. /\ \A i \in 1..plans.known : i > local.hi => ~Earlier(snaps[i])
        /\ \A i \in 1..(local.lo - 1) : Earlier(snaps[i])
        /\ local.found = None => local.lo <= first
        /\ local.found # None => local.found = local.lo - 1
    BY <2>1 DEF StartInv, Searching
  <2>4. local.found = None => \A i \in 1..plans.known : ~Earlier(snaps[i]) \/ i < first
    <3>1. local.found = None => \A i \in 1..plans.known : i > local.hi \/ i < first
      BY <1>0, <2>1, <2>2, <2>3, SMT
    <3> QED
      BY <2>3, <3>1
  <2>5. local.found # None => /\ \A i \in 1..local.found : Earlier(snaps[i])
                              /\ \A i \in 1..plans.known : i > local.found => ~Earlier(snaps[i])
    <3>1. local.found # None => \A i \in 1..plans.known : i > local.found => i > local.hi
      BY <1>0, <2>1, <2>2, <2>3, SMT
    <3> QED
      BY <2>3, <3>1
  <2> QED
    BY <1>t, <2>1, <2>2, <2>4, <2>5, FoundStarts
<1> QED
  BY <1>1, <1>2, <1>3, <1>4, <1>5, <1>6

-----------------------------------------------------------------------------

\* The call that makes the first plan, or learns the id to follow.
LEMMA FirstStarts ==
    ASSUME StartInv, UNCHANGED <<snaps, first, scan, created, start>>,
           plans'.known = plans.known, plans.known # -1, pc' = "idle", FirstPlan'
    PROVE  StartInv'
<1>1. Sorted' /\ KnownFirst'
  BY Zenon DEF StartInv, Sorted, KnownFirst
<1>2. StartsAt'
  BY Zenon DEF StartInv, StartsAt
<1>3. Searching(pc, local)' /\ Reading(pc, local)'
  BY Zenon DEF Searching, Reading
<1> QED
  BY <1>1, <1>2, <1>3 DEF StartInv

\* The starting scanners take the place they were told, or the earliest
\* snapshot if that is later.
LEMMA FirstPlanStarts ==
    ASSUME IInv, StartInv,
           \/ FullStart \/ LatestStart \/ FromSnapshotStart \/ FromSnapshotFullStart
           \/ StaticStart \/ StaticRange \/ LoadStart \/ ReadStart
    PROVE  StartInv'
<1> USE DEF table, reader
<1>0. /\ Len(snaps) \in Nat /\ scan.arg \in Nat /\ local \in Locals
      /\ first \in Nat \ {0} /\ start \in Nat
      /\ plans.known \in Int /\ plans.known <= Len(snaps)
      /\ \A i \in 1..Len(snaps) : snaps[i].time \in Int
  BY SnapshotTimes, SMT DEF StartInv, KnownFirst, IInv, Types
<1>n. pc \in Starting => next = None /\ plans.full = None
  BY DEF IInv, Knows, Delivered
<1>k. pc # "idle" => plans.known # -1
  BY DEF StartInv, KnownFirst
<1>c. pc \in {"start", "range", "load", "read"} => created
  BY DEF IInv, Started
<1>a. ASSUME NEW i \in Nat
      PROVE  [local EXCEPT !.id = i].id = i
  BY <1>0, SMT DEF Locals
<1>1. CASE FullStart
  <2> DEFINE id == IF start = None THEN LatestSnapshotId ELSE start
  <2>1. /\ UNCHANGED <<snaps, first, scan, created, next, plans>>
        /\ pc = "start" /\ start' = id
        /\ scan.mode = "full" \/ (scan.mode = "latest" /\ ~scan.streaming)
        /\ \/ Return("empty")
           \/ pc' = "load" /\ local' = [local EXCEPT !.id = id]
    BY <1>1, Zenon DEF FullStart, Goto
  <2>2. id \in Nat /\ id >= plans.known
    <3>1. start # None => start >= plans.known
      BY <2>1, Zenon DEF StartInv, StartsAt
    <3> QED
      BY <1>0, <3>1, SMT DEF LatestSnapshotId
  <2> HIDE DEF id
  <2>3. next = None /\ plans.known # -1
    BY <1>n, <1>k, <2>1 DEF Starting
  <2>4. Sorted' /\ KnownFirst'
    BY <2>1, <2>3, Zenon DEF StartInv, Sorted, KnownFirst
  <2>5. StartsAt'
    BY <2>1, <2>2, Zenon DEF StartsAt
  <2>6. pc' = "idle" \/ (pc' = "load" /\ local'.id = id)
    BY <1>a, <2>1, <2>2, Zenon DEF Return
  <2>7. Searching(pc, local)'
    BY <2>6, Zenon DEF Searching
  <2>8. Reading(pc, local)'
    BY <2>1, <2>2, <2>6, Zenon DEF Reading
  <2>9. FirstPlan'
    BY <2>1, <2>3 DEF FirstPlan
  <2> QED
    BY <2>4, <2>5, <2>7, <2>8, <2>9 DEF StartInv
<1>2. CASE LatestStart
  <2>1. /\ UNCHANGED <<snaps, first, scan, created, start>>
        /\ pc = "start" /\ scan.mode = "latest" /\ pc' = "idle"
        /\ \/ UNCHANGED <<next, plans>>
           \/ Follow(IF start = None THEN FirstId ELSE LatestSnapshotId + 1)
    BY <1>2, Zenon DEF LatestStart, Return
  <2>2. CASE UNCHANGED <<next, plans>>
    BY <2>1, <2>2, StartReturns
  <2>3. CASE Follow(IF start = None THEN FirstId ELSE LatestSnapshotId + 1)
    <3> DEFINE id == IF start = None THEN FirstId ELSE LatestSnapshotId + 1
    <3>1. /\ plans'.known = plans.known /\ plans'.full = plans.full /\ plans'.origin = id
      BY <2>3, SMT DEF Follow, IInv, Types
    <3>2. /\ id = 1 \/ id > plans.known
          /\ start = None => id = 1
      BY <1>0, SMT DEF FirstId, LatestSnapshotId
    <3>3. plans'.full = None
      BY <1>n, <2>1, <3>1 DEF Starting
    <3> HIDE DEF id
    <3>4. FirstPlan'
      BY <2>1, <3>1, <3>2, <3>3, Zenon DEF FirstPlan
    <3> QED
      BY <1>k, <2>1, <3>1, <3>4, FirstStarts
  <2> QED
    BY <2>1, <2>2, <2>3
<1>3. CASE FromSnapshotStart
  <2>1. /\ UNCHANGED <<snaps, first, scan, created, start>>
        /\ pc = "start" /\ scan.streaming /\ scan.mode \in {"id", "time"} /\ pc' = "idle"
        /\ \/ UNCHANGED <<next, plans>>
           \/ EarliestSnapshotId # None /\ Follow(Max({start, EarliestSnapshotId}))
    BY <1>3, Zenon DEF FromSnapshotStart, Return
  <2>2. CASE UNCHANGED <<next, plans>>
    BY <2>1, <2>2, StartReturns
  <2>3. CASE EarliestSnapshotId # None /\ Follow(Max({start, EarliestSnapshotId}))
    <3>0. EarliestSnapshotId = first
      BY <2>3, Zenon DEF EarliestSnapshotId
    <3>1. PICK id \in Nat : /\ id = Max({start, EarliestSnapshotId})
                            /\ id = start \/ id = first
                            /\ id >= start /\ id >= first
      BY <1>0, <3>0, MaxOfTwo, SMT
    <3>2. plans'.known = plans.known /\ plans'.full = plans.full /\ plans'.origin = id
      BY <2>3, <3>1, SMT DEF Follow, IInv, Types
    <3>3. plans'.full = None /\ created
      BY <1>n, <1>c, <2>1, <3>2 DEF Starting
    <3>4. scan.mode = "time" =>
            \A i \in 1..plans.known : IF i < id THEN snaps[i].time < scan.arg \/ i < first
                                      ELSE snaps[i].time >= scan.arg
      <4> SUFFICES ASSUME scan.mode = "time", NEW i \in 1..plans.known
                   PROVE  IF i < id THEN snaps[i].time < scan.arg \/ i < first
                          ELSE snaps[i].time >= scan.arg
        OBVIOUS
      <4>1. IF i < start THEN snaps[i].time < scan.arg ELSE snaps[i].time >= scan.arg \/ i < first
        BY <2>1, <3>3, Zenon DEF StartInv, StartsAt
      <4> QED
        BY <1>0, <3>1, <4>1, SMT
    <3>5. FirstPlan'
      BY <2>1, <3>2, <3>3, <3>4, Zenon DEF FirstPlan
    <3> QED
      BY <1>k, <2>1, <3>2, <3>5, FirstStarts
  <2> QED
    BY <2>1, <2>2, <2>3
<1>4. CASE FromSnapshotFullStart
  <2>1. /\ UNCHANGED <<snaps, first, scan, created, start, next, plans>>
        /\ pc = "start" /\ scan.streaming /\ scan.mode = "id_full"
        /\ \/ pc' = "idle"
           \/ /\ EarliestSnapshotId # None /\ pc' = "load"
              /\ local' = [local EXCEPT !.id = Max({start, EarliestSnapshotId})]
    BY <1>4, Zenon DEF FromSnapshotFullStart, Goto, Return
  <2>2. CASE pc' = "idle"
    BY <2>1, <2>2, StartReturns
  <2>3. CASE /\ EarliestSnapshotId # None /\ pc' = "load"
             /\ local' = [local EXCEPT !.id = Max({start, EarliestSnapshotId})]
    <3>0. EarliestSnapshotId = first
      BY <2>3, Zenon DEF EarliestSnapshotId
    <3>1. PICK id \in Nat : /\ id = Max({start, EarliestSnapshotId})
                            /\ id = start \/ start < first
      BY <1>0, <3>0, MaxOfTwo, SMT
    <3>2. start = scan.arg
      BY <1>c, <2>1, Zenon DEF StartInv, StartsAt
    <3>3. local'.id = id
      BY <1>a, <2>3, <3>1, Zenon
    <3>4. Searching(pc', local') /\ Reading(pc', local')
      BY <2>1, <2>3, <3>1, <3>2, <3>3, Zenon DEF Searching, Reading
    <3> QED
      BY <1>k, <2>1, <3>4, StartStays
  <2> QED
    BY <2>1, <2>2, <2>3
<1>5. CASE StaticStart
  <2>1. /\ UNCHANGED <<snaps, first, scan, created, start, next, plans>>
        /\ pc = "start" /\ ~scan.streaming /\ scan.mode \in {"id", "id_full", "time"}
        /\ pc' = "range" /\ local' = [local EXCEPT !.lo = EarliestSnapshotId, !.id = start]
    BY <1>5, Zenon DEF StaticStart, Goto
  <2>2. local'.id = start
    BY <1>0, <2>1, SMT DEF Locals
  <2>3. scan.mode \in {"id", "id_full"} => start = scan.arg
    BY <1>c, <2>1, Zenon DEF StartInv, StartsAt
  <2>4. Searching(pc', local') /\ Reading(pc', local')
    BY <2>1, <2>2, <2>3, Zenon DEF Searching, Reading
  <2> QED
    BY <1>k, <2>1, <2>4, StartStays
<1>6. CASE StaticRange \/ LoadStart
  <2>1. /\ UNCHANGED <<snaps, first, scan, created, start, next, plans>>
        /\ pc \in {"range", "load"}
        /\ pc' = "idle" \/ (pc' \in {"load", "read"} /\ local' = local)
    BY <1>6, Zenon DEF StaticRange, LoadStart, Goto, Return
  <2>2. Searching(pc', local') /\ Reading(pc', local')
    BY <2>1, Zenon DEF StartInv, Searching, Reading
  <2> QED
    BY <1>k, <2>1, <2>2, StartStays
<1>7. CASE ReadStart
  <2>1. /\ UNCHANGED <<snaps, first, scan, created, start>>
        /\ pc = "read" /\ pc' = "idle"
        /\ \/ UNCHANGED <<next, plans>>
           \/ plans' = [plans EXCEPT !.full = local.id, !.origin = local.id + 1]
    BY <1>7, Zenon DEF ReadStart, Return
  <2>2. CASE UNCHANGED <<next, plans>>
    BY <2>1, <2>2, StartReturns
  <2>3. CASE plans' = [plans EXCEPT !.full = local.id, !.origin = local.id + 1]
    <3>1. plans'.known = plans.known /\ plans'.full = local.id
      BY <2>3, SMT DEF IInv, Types
    <3>2. /\ scan.mode \in {"latest", "time"} => ~scan.streaming
          /\ scan.mode \in {"full", "latest"} => local.id >= plans.known
          /\ scan.mode = "time" => local.id = start
          /\ scan.mode \in {"id", "id_full"} =>
               local.id = scan.arg \/ (scan.streaming /\ scan.arg < first)
      BY <2>1, Zenon DEF StartInv, Reading
    <3>3. FirstPlan'
      BY <2>1, <3>1, <3>2, Zenon DEF FirstPlan
    <3> QED
      BY <1>k, <2>1, <3>1, <3>3, FirstStarts
  <2> QED
    BY <2>1, <2>2, <2>3
<1> QED
  BY <1>1, <1>2, <1>3, <1>4, <1>5, <1>6, <1>7

\* The plans that follow do not move the start.
LEMMA FollowStarts ==
    ASSUME IInv, StartInv, CheckExists \/ LoadNext \/ ReadNext \/ NextEarliest \/ NextLatest
    PROVE  StartInv'
<1> USE DEF table, reader
<1>1. /\ UNCHANGED <<snaps, first, scan, created, start>>
      /\ pc \in Following
      /\ pc' \in {"idle"} \cup Following
      /\ next' \in {next, next + 1}
      /\ \/ plans' = plans
         \/ plans' = [plans EXCEPT !.deltas = @ \cup {next}]
  BY Zenon DEF CheckExists, LoadNext, ReadNext, NextEarliest, NextLatest, Goto, Return, Following
<1>2. /\ plans'.full = plans.full /\ plans'.origin = plans.origin /\ plans'.known = plans.known
  BY <1>1, SMT DEF IInv, Types
<1>3. next # None /\ next' # None /\ plans.known # -1
  <2>1. next \in Nat /\ next # None
    BY <1>1, Zenon DEF IInv, Types, Knows
  <2>2. pc # "idle"
    BY <1>1, Zenon DEF Following
  <2> QED
    BY <1>1, <2>1, <2>2, SMT DEF StartInv, KnownFirst, None
<1>4. Searching(pc', local') /\ Reading(pc', local')
  BY <1>1, Zenon DEF Searching, Reading, Following
<1> QED
  BY <1>1, <1>2, <1>3, <1>4, StartStays

\* Every step keeps the invariant about the start.
LEMMA NextStarts ==
    ASSUME SteadyClocks, IInv, StartInv, [Next]_vars
    PROVE  StartInv'
<1>1. CASE Next
  BY <1>1, TableStarts, CallStarts, SearchStarts, FirstPlanStarts, FollowStarts, Zenon
  DEF Next, Reader
<1>2. CASE UNCHANGED vars
  <2>1. UNCHANGED <<snaps, first, scan, created, start, next, pc, local, plans>>
    BY <1>2 DEF vars, table, reader, call
  <2>2. Searching(pc', local') /\ Reading(pc', local') /\ (plans.known = -1 => pc' = "idle")
    BY <2>1, Zenon DEF StartInv, KnownFirst
  <2> QED
    BY <2>1, <2>2, StartStays
<1> QED
  BY <1>1, <1>2

\* The invariant about the start says what StartsWhereAsked asks for.
LEMMA StartInvSays == IInv /\ StartInv => StartsWhereAsked
<1> SUFFICES ASSUME IInv, StartInv, next # None
             PROVE  StartsWhereAsked
  BY DEF StartsWhereAsked
<1>1. created
  BY DEF IInv, Started
<1> QED
  BY <1>1, Zenon DEF StartInv, StartsAt, FirstPlan, StartsWhereAsked

\* A scan starts where its startup mode says, for any snapshots, any commits,
\* expiration and failed reads during the search: FindSnapshotBeforeTimestamp
\* bisects over a table that grows and shrinks, the starting scanners take the
\* later of what was asked and the earliest snapshot, and the latest is the
\* latest of when the scanner was created.  The bisection needs snapshots in
\* the order of their times, so the clocks of the committers must agree.
THEOREM ScansStartWhereAsked == SteadyClocks /\ Spec => []StartsWhereAsked
<1> SUFFICES ASSUME SteadyClocks
             PROVE  Spec => []StartsWhereAsked
  OBVIOUS
<1>1. IInv /\ StartInv /\ [Next]_vars => IInv' /\ StartInv'
  BY NextKeeps, NextStarts
<1>2. Init => IInv /\ StartInv
  BY InitEstablishes, InitStarts
<1> QED
  BY <1>1, <1>2, StartInvSays, PTL DEF Spec

==============================================================================
