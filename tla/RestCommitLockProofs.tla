------------------------- MODULE RestCommitLockProofs -------------------------
(***************************************************************************)
(* Proofs that the commit lease does what TryCommit relies on, for any     *)
(* writers, lease, timeouts, retries and faults, as long as no acquisition *)
(* or commit request is served after its sender was told of an error.      *)
(*                                                                         *)
(* The invariant ties what a writer may count a lease from to what is left *)
(* of it on the server, and the head that was read to the lease itself,    *)
(* not to the scope: an expired scope may be revived by a late answer.     *)
(***************************************************************************)
EXTENDS RestCommitLock, TLAPS

\* What the argument needs of the types; only renewals are ever late.
Types ==
    /\ left \in 0..Lease /\ history \in Seq(Writers)
    /\ late \subseteq [kind : {"renew"}, from : Writers, base : {0}]
    /\ pc \in [Writers -> Locations]
    /\ request \in [Writers -> [state : {"none", "sent", "granted", "busy"}, age : 0..Lease]]
    /\ scope \in [Writers -> [state : {"closed", "open", "failed"}, age : 0..Lease]]
    /\ renewal \in [Writers -> [state : {"off", "wait", "sent", "granted", "refused"},
                                age : 0..Lease]]
    /\ base \in [Writers -> Nat]
    /\ commit \in [Writers -> {"none", "sent", "accepted", "refused"}]

\* Requests, scope and renewals belong to a place of TryCommit.
Shape(w) ==
    /\ commit[w] # "none" => pc[w] = "committing"
    /\ request[w].state # "none" => pc[w] = "acquiring"
    /\ scope[w].state # "closed" => pc[w] \in {"load", "prepare", "committing"}
    /\ renewal[w].state # "off" => scope[w].state # "closed"

\* A lease of w that lasts at least until an age reaches its limit.
Covers(w, age) == left > 0 /\ holder = w /\ left + age >= Lease

\* Whatever a writer may count a lease from is covered by one: its scope, and
\* grants whose answer it has not seen yet.
Covered(w) ==
    /\ request[w].state = "granted" /\ request[w].age < Lease => Covers(w, request[w].age)
    /\ renewal[w].state = "granted" /\ renewal[w].age < Lease /\ commit[w] # "accepted"
         => Covers(w, renewal[w].age)
    /\ scope[w].state = "open" /\ scope[w].age < Lease /\ commit[w] # "accepted"
         => Covers(w, scope[w].age)

\* The head read by an attempt is the head as long as the lease is held at all,
\* whatever the scope knows.
HeadHeld(w) == pc[w] = "prepare" /\ Held(w) => base[w] = Len(history)

\* A writer whose snapshot is published does not commit again.
Settled(w) ==
    \/ pc[w] \in {"uncertain", "done", "failed"}
    \/ pc[w] = "committing" /\ commit[w] = "accepted"

PublishedSettled == \A i \in DOMAIN history : Settled(history[i])

IInv ==
    /\ Types
    /\ \A w \in Writers : Shape(w) /\ Covered(w) /\ HeadHeld(w)
    /\ PublishedSettled /\ CommittedOnce

-----------------------------------------------------------------------------
(* Frames                                                                   *)

\* The attempts of the other writers stay as they are.
OthersKept(v) ==
    \A w \in Writers \ {v} :
        /\ pc'[w] = pc[w] /\ request'[w] = request[w] /\ scope'[w] = scope[w]
        /\ renewal'[w] = renewal[w] /\ base'[w] = base[w] /\ commit'[w] = commit[w]

\* The initial states satisfy the invariant: nothing is held or open.
LEMMA InitEstablishes == Init => IInv
<1> SUFFICES ASSUME Init PROVE IInv
  OBVIOUS
<1>1. Types
  BY LeaseAssumption DEF Init, Types, NoRequest, NoScope, NoRenewal, Locations
<1>2. \A w \in Writers : Shape(w) /\ Covered(w) /\ HeadHeld(w)
  BY Zenon DEF Init, Shape, Covered, HeadHeld, NoRequest, NoScope, NoRenewal
<1>3. PublishedSettled /\ CommittedOnce
  BY DEF Init, PublishedSettled, CommittedOnce
<1> QED
  BY <1>1, <1>2, <1>3 DEF IInv

\* A writer that does not move keeps its lease, whatever the server does for
\* another one: the server only serves another when this one holds nothing.
LEMMA ElsewhereKeeps ==
    ASSUME IInv, NEW v, OthersKept(v), NEW w \in Writers, w # v,
           UNCHANGED server \/ (~Held(w) /\ ~Held(w)')
    PROVE  Shape(w)' /\ Covered(w)' /\ HeadHeld(w)'
<1>1. Shape(w) /\ Covered(w) /\ HeadHeld(w)
  BY DEF IInv
<1>2. /\ pc'[w] = pc[w] /\ request'[w] = request[w] /\ scope'[w] = scope[w]
      /\ renewal'[w] = renewal[w] /\ base'[w] = base[w] /\ commit'[w] = commit[w]
  BY DEF OthersKept
<1>3. Shape(w)'
  BY <1>1, <1>2 DEF Shape
<1>4. CASE UNCHANGED server
  BY <1>1, <1>2, <1>3, <1>4 DEF Covered, Covers, HeadHeld, Held, server
<1>5. CASE ~Held(w) /\ ~Held(w)'
  BY <1>1, <1>2, <1>3, <1>5 DEF Covered, Covers, HeadHeld, Held
<1> QED
  BY <1>4, <1>5

\* A step of one writer that the server does not notice.
LEMMA OwnStep ==
    ASSUME IInv, NEW v \in Writers, OthersKept(v), UNCHANGED server, Types',
           Shape(v)', Covered(v)', HeadHeld(v)', Settled(v) => Settled(v)'
    PROVE  IInv'
<1>1. \A w \in Writers : Shape(w)' /\ Covered(w)' /\ HeadHeld(w)'
  <2> SUFFICES ASSUME NEW w \in Writers, w # v PROVE Shape(w)' /\ Covered(w)' /\ HeadHeld(w)'
    OBVIOUS
  <2> QED
    BY ElsewhereKeeps
<1>2. history' = history
  BY DEF server
<1>3. PublishedSettled'
  <2> SUFFICES ASSUME NEW i \in DOMAIN history PROVE Settled(history[i])'
    BY <1>2 DEF PublishedSettled
  <2>1. Settled(history[i]) /\ history[i] \in Writers
    BY DEF IInv, PublishedSettled, Types
  <2>2. CASE history[i] = v
    BY <1>2, <2>1, <2>2
  <2>3. CASE history[i] # v
    BY <1>2, <2>1, <2>3 DEF OthersKept, Settled
  <2> QED
    BY <2>2, <2>3
<1>4. CommittedOnce'
  BY <1>2 DEF IInv, CommittedOnce
<1> QED
  BY <1>1, <1>3, <1>4 DEF IInv

\* Requests, scopes and renewals stay what they are when a field changes.
LEMMA FieldUpdate ==
    ASSUME NEW S, NEW A, NEW f \in [Writers -> [state : S, age : A]], NEW v \in Writers,
           NEW s \in S, NEW a \in A
    PROVE  /\ [f EXCEPT ![v].state = s] \in [Writers -> [state : S, age : A]]
           /\ [f EXCEPT ![v].age = a] \in [Writers -> [state : S, age : A]]
<1>1. f[v] \in [state : S, age : A]
  OBVIOUS
<1>2. /\ [f[v] EXCEPT !.state = s] \in [state : S, age : A]
      /\ [f[v] EXCEPT !.age = a] \in [state : S, age : A]
  BY <1>1
<1> QED
  BY <1>2

-----------------------------------------------------------------------------
(* Steps of a writer                                                        *)

\* Another attempt starts, or the call has failed.
LEMMA RetryMoves ==
    ASSUME NEW v \in Writers, Retry(v)
    PROVE  \E l \in {"acquire", "failed"} : pc' = [pc EXCEPT ![v] = l]
BY DEF Retry

\* A refused attempt leaves no request and moves on.
LEMMA RefusedTypes ==
    ASSUME Types, NEW v \in Writers, NEW l \in {"acquire", "failed"}, Lease \in Nat,
           pc' = [pc EXCEPT ![v] = l], request' = [request EXCEPT ![v] = NoRequest],
           UNCHANGED <<server, late, scope, renewal, base, commit>>
    PROVE  Types'
<1>1. pc' \in [Writers -> Locations]
  BY DEF Types, Locations
<1>2. NoRequest \in [state : {"none", "sent", "granted", "busy"}, age : 0..Lease]
  BY DEF NoRequest
<1>3. request' \in [Writers -> [state : {"none", "sent", "granted", "busy"}, age : 0..Lease]]
  BY <1>2 DEF Types
<1> QED
  BY <1>1, <1>3 DEF Types, server

\* Nothing but renewals stays on its way.
LEMMA OnlyRenewalsAreLate ==
    ASSUME NEW v \in Writers, LateRequests = FALSE
    PROVE  Outstanding(v) = {}
BY DEF Outstanding

\* A closed scope leaves at most its renewal behind.
LEMMA CloseKeeps ==
    ASSUME IInv, NEW v \in Writers, Close(v, {})
    PROVE  /\ late' \subseteq [kind : {"renew"}, from : Writers, base : {0}]
           /\ scope' = [scope EXCEPT ![v] = NoScope]
           /\ renewal' = [renewal EXCEPT ![v] = NoRenewal]
           /\ base' = [base EXCEPT ![v] = 0]
BY DEF IInv, Types, Close

\* Start and SendAcquire: nothing is open yet.
LEMMA AcquireKeeps ==
    ASSUME IInv, NEW v \in Writers, Start(v) \/ SendAcquire(v)
    PROVE  IInv'
<1>0. Types /\ Shape(v) /\ Covered(v) /\ Lease \in Nat \ {0}
  BY LeaseAssumption DEF IInv
<1>1. CASE Start(v)
  <2>1. Types'
    BY <1>0, <1>1 DEF Start, Types, server, Locations
  <2>2. OthersKept(v) /\ UNCHANGED server
    BY <1>0, <1>1 DEF Start, Types, OthersKept
  <2>3. Shape(v)' /\ Covered(v)' /\ HeadHeld(v)' /\ (Settled(v) => Settled(v)')
    BY <1>0, <1>1 DEF Start, Types, Shape, Covered, Covers, HeadHeld, Settled, server
  <2> QED
    BY <2>1, <2>2, <2>3, OwnStep
<1>2. CASE SendAcquire(v)
  <2>1. Types'
    BY <1>0, <1>2 DEF SendAcquire, Types, server, Locations
  <2>2. OthersKept(v) /\ UNCHANGED server
    BY <1>0, <1>2 DEF SendAcquire, Types, OthersKept
  <2>3. Shape(v)' /\ Covered(v)' /\ HeadHeld(v)' /\ (Settled(v) => Settled(v)')
    BY <1>0, <1>2 DEF SendAcquire, Types, Shape, Covered, Covers, HeadHeld, Settled, server
  <2> QED
    BY <2>1, <2>2, <2>3, OwnStep
<1> QED
  BY <1>1, <1>2

\* Granted: the scope counts from the request, whose grant is covered.
LEMMA GrantedKeeps ==
    ASSUME IInv, NEW v \in Writers, Granted(v)
    PROVE  IInv'
<1>0. Types /\ Shape(v) /\ Covered(v) /\ Lease \in Nat \ {0}
  BY LeaseAssumption DEF IInv
<1>a. /\ pc[v] = "acquiring" /\ request[v].state = "granted"
      /\ request' = [request EXCEPT ![v] = NoRequest]
      /\ UNCHANGED <<server, late, base, commit>>
  BY DEF Granted
<1>1. CASE /\ request[v].age < Lease
           /\ scope' = [scope EXCEPT ![v] = [state |-> "open", age |-> request[v].age]]
           /\ renewal' = [renewal EXCEPT ![v] = [state |-> "wait", age |-> 0]]
           /\ pc' = [pc EXCEPT ![v] = "load"]
  <2>1. Types'
    BY <1>0, <1>a, <1>1 DEF Types, server, Locations, NoRequest
  <2>2. OthersKept(v)
    BY <1>0, <1>a, <1>1 DEF Types, OthersKept
  <2>3. Shape(v)' /\ Covered(v)' /\ HeadHeld(v)' /\ (Settled(v) => Settled(v)')
    BY <1>0, <1>a, <1>1
    DEF Types, Shape, Covered, Covers, HeadHeld, Settled, server, NoRequest
  <2> QED
    BY <1>a, <2>1, <2>2, <2>3, OwnStep
<1>2. CASE Retry(v) /\ UNCHANGED <<scope, renewal>>
  <2>0. PICK l \in {"acquire", "failed"} : pc' = [pc EXCEPT ![v] = l]
    BY <1>2, RetryMoves
  <2>1. Types'
    BY <1>0, <1>a, <1>2, <2>0, RefusedTypes, Zenon
  <2>2. OthersKept(v)
    BY <1>0, <1>a, <1>2, <2>0 DEF Types, OthersKept
  <2>3. Shape(v)' /\ Covered(v)' /\ HeadHeld(v)' /\ (Settled(v) => Settled(v)')
    BY <1>0, <1>a, <1>2, <2>0
    DEF Types, Shape, Covered, Covers, HeadHeld, Settled, server, NoRequest
  <2> QED
    BY <1>a, <2>1, <2>2, <2>3, OwnStep
<1> QED
  BY <1>1, <1>2 DEF Granted

\* Busy and AcquireError: no scope was opened.
LEMMA RefusalKeeps ==
    ASSUME IInv, NEW v \in Writers, LateRequests = FALSE, Busy(v) \/ AcquireError(v)
    PROVE  IInv'
<1>0. Types /\ Shape(v) /\ Covered(v) /\ Lease \in Nat \ {0}
  BY LeaseAssumption DEF IInv
<1>1. /\ pc[v] = "acquiring"
      /\ request' = [request EXCEPT ![v] = NoRequest]
      /\ UNCHANGED <<server, late, scope, renewal, base, commit>>
  BY OnlyRenewalsAreLate, Zenon DEF Busy, AcquireError
<1>2. \E l \in {"acquire", "failed"} : pc' = [pc EXCEPT ![v] = l]
  BY RetryMoves DEF Busy, AcquireError
<1>3. PICK l \in {"acquire", "failed"} : pc' = [pc EXCEPT ![v] = l]
  BY <1>2, Zenon
<1>4. Types'
  BY <1>0, <1>1, <1>3, RefusedTypes, Zenon
<1>5. OthersKept(v)
  BY <1>0, <1>1, <1>3 DEF Types, OthersKept
<1>6. Shape(v)' /\ Covered(v)' /\ HeadHeld(v)' /\ (Settled(v) => Settled(v)')
  BY <1>0, <1>1, <1>3 DEF Types, Shape, Covered, Covers, HeadHeld, Settled, server, NoRequest
<1> QED
  BY <1>1, <1>4, <1>5, <1>6, OwnStep

\* LoadLatest: the head that is read is the head.
LEMMA LoadKeeps ==
    ASSUME IInv, NEW v \in Writers, LoadLatest(v)
    PROVE  IInv'
<1>0. Types /\ Shape(v) /\ Covered(v) /\ Lease \in Nat \ {0}
  BY LeaseAssumption DEF IInv
<1>1. Types'
  <2>1. Len(history) \in Nat
    BY <1>0 DEF Types
  <2> QED
    BY <1>0, <2>1 DEF LoadLatest, Types, server, Locations
<1>2. OthersKept(v) /\ UNCHANGED server
  BY <1>0 DEF LoadLatest, Types, OthersKept
<1>3. Shape(v)' /\ Covered(v)' /\ (Settled(v) => Settled(v)')
  BY <1>0 DEF LoadLatest, Types, Shape, Covered, Covers, Settled, server
<1>4. HeadHeld(v)'
  BY <1>0 DEF LoadLatest, Types, HeadHeld, server
<1> QED
  BY <1>1, <1>2, <1>3, <1>4, OwnStep

\* The attempt ends at l: whatever the scope was worth is forgotten.
LEMMA EndKeeps ==
    ASSUME IInv, NEW v \in Writers, UNCHANGED server,
           Close(v, {}),
           request' = [request EXCEPT ![v] = NoRequest] \/
             (UNCHANGED request /\ pc[v] # "acquiring"),
           commit' = [commit EXCEPT ![v] = "none"] \/
             (UNCHANGED commit /\ pc[v] # "committing"),
           NEW l \in {"acquire", "done", "failed", "uncertain"},
           pc' = [pc EXCEPT ![v] = l],
           Settled(v) => l # "acquire"
    PROVE  IInv'
<1>0. Types /\ Shape(v) /\ Lease \in Nat \ {0}
  BY LeaseAssumption DEF IInv
<1>1. /\ late' \subseteq [kind : {"renew"}, from : Writers, base : {0}]
      /\ scope' = [scope EXCEPT ![v] = NoScope]
      /\ renewal' = [renewal EXCEPT ![v] = NoRenewal]
      /\ base' = [base EXCEPT ![v] = 0]
  BY CloseKeeps
<1>2. /\ request' \in [Writers -> [state : {"none", "sent", "granted", "busy"}, age : 0..Lease]]
      /\ request'[v].state = "none"
      /\ \A w \in Writers \ {v} : request'[w] = request[w]
  <2>1. NoRequest \in [state : {"none", "sent", "granted", "busy"}, age : 0..Lease]
    BY <1>0 DEF NoRequest
  <2>2. CASE request' = [request EXCEPT ![v] = NoRequest]
    BY <1>0, <2>1, <2>2 DEF Types, NoRequest
  <2>3. CASE UNCHANGED request /\ pc[v] # "acquiring"
    BY <1>0, <2>3 DEF Types, Shape
  <2> QED
    BY <2>2, <2>3
<1>3. /\ commit' \in [Writers -> {"none", "sent", "accepted", "refused"}]
      /\ commit'[v] = "none"
      /\ \A w \in Writers \ {v} : commit'[w] = commit[w]
  BY <1>0, Zenon DEF Types, Shape
<1>4. Types'
  <2>1. NoScope \in [state : {"closed", "open", "failed"}, age : 0..Lease]
    BY <1>0 DEF NoScope
  <2>2. NoRenewal \in [state : {"off", "wait", "sent", "granted", "refused"}, age : 0..Lease]
    BY <1>0 DEF NoRenewal
  <2>3. pc' \in [Writers -> Locations]
    BY <1>0 DEF Types, Locations
  <2> QED
    BY <1>0, <1>1, <1>2, <1>3, <2>1, <2>2, <2>3, Zenon DEF Types, server
<1>5. OthersKept(v)
  BY <1>0, <1>1, <1>2, <1>3 DEF Types, OthersKept
<1>6. Shape(v)' /\ Covered(v)' /\ HeadHeld(v)'
  BY <1>0, <1>1, <1>2, <1>3 DEF Types, Shape, Covered, HeadHeld, NoScope, NoRenewal
<1>7. Settled(v) => Settled(v)'
  BY <1>0 DEF Types, Settled
<1> QED
  BY <1>4, <1>5, <1>6, <1>7, OwnStep

\* SendCommit: a valid scope lets the request go, any other ends the attempt.
LEMMA SendCommitKeeps ==
    ASSUME IInv, NEW v \in Writers, SendCommit(v)
    PROVE  IInv'
<1>0. Types /\ Shape(v) /\ Covered(v) /\ Lease \in Nat \ {0}
  BY LeaseAssumption DEF IInv
<1>a. pc[v] = "prepare" /\ UNCHANGED <<server, request>>
  BY DEF SendCommit
<1>1. CASE /\ commit' = [commit EXCEPT ![v] = "sent"]
           /\ pc' = [pc EXCEPT ![v] = "committing"]
           /\ UNCHANGED <<late, scope, renewal, base>>
  <2>1. Types'
    BY <1>0, <1>a, <1>1 DEF Types, server, Locations
  <2>2. OthersKept(v)
    BY <1>0, <1>a, <1>1 DEF Types, OthersKept
  <2>3. Shape(v)' /\ Covered(v)' /\ HeadHeld(v)' /\ (Settled(v) => Settled(v)')
    BY <1>0, <1>a, <1>1 DEF Types, Shape, Covered, Covers, HeadHeld, Settled, server
  <2> QED
    BY <1>a, <2>1, <2>2, <2>3, OwnStep
<1>2. CASE Close(v, {}) /\ Retry(v) /\ UNCHANGED commit
  <2>1. PICK l \in {"acquire", "failed"} : pc' = [pc EXCEPT ![v] = l]
    BY <1>2, RetryMoves
  <2>2. ~Settled(v)
    BY <1>a DEF Settled
  <2> QED
    BY <1>a, <1>2, <2>1, <2>2, EndKeeps, Zenon
<1> QED
  BY <1>1, <1>2 DEF SendCommit

\* Committed and Abandon end the attempt; one whose snapshot is published does
\* not go back to "acquire".
LEMMA OutcomeKeeps ==
    ASSUME IInv, NEW v \in Writers, LateRequests = FALSE, Committed(v) \/ Abandon(v)
    PROVE  IInv'
<1>0. Types /\ Shape(v)
  BY DEF IInv
<1>1. CASE Committed(v)
  <2>0. /\ pc[v] = "committing" /\ commit[v] \in {"accepted", "refused"}
        /\ commit' = [commit EXCEPT ![v] = "none"]
        /\ Close(v, {}) /\ UNCHANGED <<server, request>>
    BY <1>1 DEF Committed
  <2>1. CASE commit[v] = "accepted"
    <3>1. pc' = [pc EXCEPT ![v] = "done"]
      BY <1>1, <2>1 DEF Committed
    <3> QED
      BY <2>0, <3>1, EndKeeps, Zenon
  <2>2. CASE commit[v] # "accepted"
    <3>1. PICK l \in {"acquire", "failed"} : pc' = [pc EXCEPT ![v] = l]
      BY <1>1, <2>2, RetryMoves DEF Committed
    <3>2. ~Settled(v)
      BY <2>0, <2>2 DEF Settled
    <3> QED
      BY <2>0, <3>1, <3>2, EndKeeps, Zenon
  <2> QED
    BY <2>1, <2>2
<1>2. CASE Abandon(v)
  <2>1. /\ Close(v, {}) /\ UNCHANGED server
        /\ request' = [request EXCEPT ![v] = NoRequest]
        /\ commit' = [commit EXCEPT ![v] = "none"]
    BY <1>2, OnlyRenewalsAreLate, Zenon DEF Abandon
  <2>2. PICK l \in {"uncertain", "failed"} : pc' = [pc EXCEPT ![v] = l]
    BY <1>2, Zenon DEF Abandon
  <2> QED
    BY <2>1, <2>2, EndKeeps, Zenon
<1> QED
  BY <1>1, <1>2

\* Recover: FilterAndCommit starts again only what is not in the history.
LEMMA RecoverKeeps ==
    ASSUME IInv, NEW v \in Writers, Recover(v)
    PROVE  IInv'
<1>0. Types /\ Shape(v) /\ Covered(v) /\ Lease \in Nat \ {0}
  BY LeaseAssumption DEF IInv
<1>a. /\ pc[v] = "uncertain"
      /\ UNCHANGED <<server, late, request, scope, renewal, base, commit>>
  BY DEF Recover
<1>b. PICK l \in {"done", "start"} : pc' = [pc EXCEPT ![v] = l]
  BY Zenon DEF Recover
<1>1. Types'
  BY <1>0, <1>a, <1>b DEF Types, server, Locations
<1>2. OthersKept(v)
  BY <1>0, <1>a, <1>b DEF Types, OthersKept
<1>3. Shape(v)' /\ Covered(v)' /\ HeadHeld(v)'
  BY <1>0, <1>a, <1>b DEF Types, Shape, Covered, Covers, HeadHeld, server
<1>4. \A w \in Writers : Shape(w)' /\ Covered(w)' /\ HeadHeld(w)'
  <2> SUFFICES ASSUME NEW w \in Writers, w # v PROVE Shape(w)' /\ Covered(w)' /\ HeadHeld(w)'
    BY <1>3
  <2> QED
    BY <1>a, <1>2, ElsewhereKeeps
<1>5. PublishedSettled'
  <2> SUFFICES ASSUME NEW i \in DOMAIN history PROVE Settled(history[i])'
    BY <1>a DEF PublishedSettled, server
  <2>1. Settled(history[i]) /\ history[i] \in Writers
    BY DEF IInv, PublishedSettled, Types
  <2>2. history' = history
    BY <1>a DEF server
  <2>3. CASE history[i] = v
    <3>1. pc' = [pc EXCEPT ![v] = "done"]
      BY <2>3, Zenon DEF Recover
    <3> QED
      BY <1>0, <2>2, <2>3, <3>1 DEF Types, Settled
  <2>4. CASE history[i] # v
    BY <1>2, <2>1, <2>2, <2>4 DEF OthersKept, Settled
  <2> QED
    BY <2>3, <2>4
<1>6. CommittedOnce'
  BY <1>a DEF IInv, CommittedOnce, server
<1> QED
  BY <1>1, <1>4, <1>5, <1>6 DEF IInv

\* The renewal thread: an answer counts from its request, whose grant is
\* covered even if the scope has expired meanwhile.
LEMMA RenewalKeeps ==
    ASSUME IInv, NEW v \in Writers, SendRenewal(v) \/ Renewed(v) \/ RenewalError(v)
    PROVE  IInv'
<1>0. Types /\ Shape(v) /\ Covered(v) /\ HeadHeld(v) /\ Lease \in Nat \ {0}
  BY LeaseAssumption DEF IInv
<1>1. /\ renewal[v].state # "off"
      /\ UNCHANGED <<server, pc, request, base, commit>>
  BY DEF SendRenewal, Renewed, RenewalError
<1>2. late' \subseteq [kind : {"renew"}, from : Writers, base : {0}]
  BY <1>0 DEF SendRenewal, Renewed, RenewalError, Types
<1>3. \/ /\ scope' = [scope EXCEPT ![v].state = "failed"]
         /\ renewal' = [renewal EXCEPT ![v] = NoRenewal]
      \/ /\ renewal' = [renewal EXCEPT ![v] = [state |-> "sent", age |-> 0]]
         /\ UNCHANGED scope
      \/ /\ renewal[v].state = "granted" /\ scope[v].state = "open"
         /\ scope' = [scope EXCEPT ![v].age = renewal[v].age]
         /\ renewal' = [renewal EXCEPT ![v] = [state |-> "wait", age |-> 0]]
  BY DEF SendRenewal, Renewed, RenewalError
<1>4. Settled(v) => Settled(v)'
  BY <1>1 DEF Settled
<1>5. HeadHeld(v)'
  BY <1>0, <1>1 DEF HeadHeld, Held, server
<1>6. CASE /\ scope' = [scope EXCEPT ![v].state = "failed"]
           /\ renewal' = [renewal EXCEPT ![v] = NoRenewal]
  <2>1. Types'
    <3>1. scope' \in [Writers -> [state : {"closed", "open", "failed"}, age : 0..Lease]]
      BY <1>0, <1>6, FieldUpdate, Zenon DEF Types
    <3>2. renewal' \in [Writers -> [state : {"off", "wait", "sent", "granted", "refused"},
                                    age : 0..Lease]]
      <4>1. NoRenewal \in [state : {"off", "wait", "sent", "granted", "refused"}, age : 0..Lease]
        BY <1>0 DEF NoRenewal
      <4> QED
        BY <1>0, <1>6, <4>1 DEF Types
    <3> QED
      BY <1>0, <1>1, <1>2, <3>1, <3>2 DEF Types, server
  <2>2. OthersKept(v)
    BY <1>0, <1>1, <1>6 DEF Types, OthersKept
  <2>3. Shape(v)' /\ Covered(v)'
    BY <1>0, <1>1, <1>6 DEF Types, Shape, Covered, Covers, server, NoRenewal
  <2> QED
    BY <1>1, <1>4, <1>5, <2>1, <2>2, <2>3, OwnStep
<1>7. CASE /\ renewal' = [renewal EXCEPT ![v] = [state |-> "sent", age |-> 0]]
           /\ UNCHANGED scope
  <2>1. Types'
    BY <1>0, <1>1, <1>2, <1>7 DEF Types, server
  <2>2. OthersKept(v)
    BY <1>0, <1>1, <1>7 DEF Types, OthersKept
  <2>3. Shape(v)' /\ Covered(v)'
    BY <1>0, <1>1, <1>7 DEF Types, Shape, Covered, Covers, server
  <2> QED
    BY <1>1, <1>4, <1>5, <2>1, <2>2, <2>3, OwnStep
<1>8. CASE /\ renewal[v].state = "granted" /\ scope[v].state = "open"
           /\ scope' = [scope EXCEPT ![v].age = renewal[v].age]
           /\ renewal' = [renewal EXCEPT ![v] = [state |-> "wait", age |-> 0]]
  <2>1. Types'
    <3>0. renewal[v].age \in 0..Lease
      BY <1>0 DEF Types
    <3>1. scope' \in [Writers -> [state : {"closed", "open", "failed"}, age : 0..Lease]]
      BY <1>0, <1>8, <3>0, FieldUpdate DEF Types
    <3> QED
      BY <1>0, <1>1, <1>2, <1>8, <3>1 DEF Types, server
  <2>2. OthersKept(v)
    BY <1>0, <1>1, <1>8 DEF Types, OthersKept
  <2>3. Shape(v)' /\ Covered(v)'
    BY <1>0, <1>1, <1>8 DEF Types, Shape, Covered, Covers, server
  <2> QED
    BY <1>1, <1>4, <1>5, <2>1, <2>2, <2>3, OwnStep
<1> QED
  BY <1>3, <1>6, <1>7, <1>8

-----------------------------------------------------------------------------
(* Steps of the server, and time                                            *)

\* A grant to v reaches nobody else: the others hold nothing before and after.
LEMMA GrantIsExclusive ==
    ASSUME NEW v \in Writers, NEW w \in Writers, w # v,
           CanAcquire(v), GrantLease(v, TRUE)
    PROVE  ~Held(w) /\ ~Held(w)'
BY DEF CanAcquire, GrantLease, Held

\* ServeAcquire: a grant starts with the whole lease ahead of it.
LEMMA ServeAcquireKeeps ==
    ASSUME IInv, NEW v \in Writers, ServeAcquire(v)
    PROVE  IInv'
<1>0. Types /\ Shape(v) /\ Covered(v) /\ HeadHeld(v) /\ Lease \in Nat \ {0}
  BY LeaseAssumption DEF IInv
<1>a. /\ request[v].state = "sent"
      /\ UNCHANGED <<late, pc, scope, renewal, base, commit>>
  BY DEF ServeAcquire
<1>1. CASE CanAcquire(v)
  <2>1. /\ GrantLease(v, TRUE) /\ holder' = v /\ left' = Lease /\ history' = history
        /\ request' = [request EXCEPT ![v].state = "granted"]
    BY <1>1 DEF ServeAcquire, GrantLease
  <2>2. Types'
    <3>1. request' \in [Writers -> [state : {"none", "sent", "granted", "busy"}, age : 0..Lease]]
      BY <1>0, <2>1, FieldUpdate, Zenon DEF Types
    <3>2. left' \in 0..Lease
      BY <1>0, <2>1
    <3> QED
      BY <1>0, <1>a, <2>1, <3>1, <3>2 DEF Types
  <2>3. OthersKept(v)
    BY <1>0, <1>a, <2>1 DEF Types, OthersKept
  <2>4. Shape(v)' /\ Covered(v)' /\ HeadHeld(v)'
    BY <1>0, <1>a, <2>1 DEF Types, Shape, Covered, Covers, HeadHeld
  <2>5. \A w \in Writers : Shape(w)' /\ Covered(w)' /\ HeadHeld(w)'
    <3> SUFFICES ASSUME NEW w \in Writers, w # v
                 PROVE Shape(w)' /\ Covered(w)' /\ HeadHeld(w)'
      BY <2>4
    <3>1. ~Held(w) /\ ~Held(w)'
      BY <1>1, <2>1, GrantIsExclusive, Zenon
    <3> QED
      BY <2>3, <3>1, ElsewhereKeeps
  <2>6. PublishedSettled' /\ CommittedOnce'
    BY <1>a, <2>1 DEF IInv, PublishedSettled, Settled, CommittedOnce
  <2> QED
    BY <2>2, <2>5, <2>6 DEF IInv
<1>2. CASE ~CanAcquire(v)
  <2>1. UNCHANGED server /\ request' = [request EXCEPT ![v].state = "busy"]
    BY <1>2 DEF ServeAcquire, GrantLease, server
  <2>2. Types'
    BY <1>0, <1>a, <2>1, FieldUpdate, Zenon DEF Types, server
  <2>3. OthersKept(v)
    BY <1>0, <1>a, <2>1 DEF Types, OthersKept
  <2>4. Shape(v)' /\ Covered(v)' /\ HeadHeld(v)' /\ (Settled(v) => Settled(v)')
    BY <1>0, <1>a, <2>1 DEF Types, Shape, Covered, Covers, HeadHeld, Held, Settled, server
  <2> QED
    BY <2>1, <2>2, <2>3, <2>4, OwnStep
<1> QED
  BY <1>1, <1>2

\* A lease that is extended for its holder covers all it covered before.
LEMMA ExtendKeeps ==
    ASSUME IInv, NEW v \in Writers, Held(v), GrantLease(v, TRUE),
           UNCHANGED <<pc, request, scope, base, commit>>,
           NEW s \in {"off", "wait", "sent", "granted", "refused"},
           renewal' = [renewal EXCEPT ![v].state = s],
           s # "off" => renewal[v].state # "off",
           late' \subseteq late
    PROVE  IInv'
<1>0. Types /\ Shape(v) /\ Covered(v) /\ HeadHeld(v) /\ Lease \in Nat \ {0}
  BY LeaseAssumption DEF IInv
<1>1. holder' = v /\ holder = v /\ left > 0 /\ left' = Lease /\ history' = history
  BY DEF GrantLease, Held
<1>2. Types'
  <2>1. renewal' \in [Writers -> [state : {"off", "wait", "sent", "granted", "refused"},
                                   age : 0..Lease]]
    BY <1>0, FieldUpdate, Zenon DEF Types
  <2>2. left' \in 0..Lease
    BY <1>0, <1>1
  <2> QED
    BY <1>0, <1>1, <2>1, <2>2, Zenon DEF Types
<1>3. OthersKept(v)
  BY <1>0 DEF Types, OthersKept
<1>4. Shape(v)'
  BY <1>0 DEF Types, Shape
<1>5. Covered(v)'
  BY <1>0, <1>1, <1>2 DEF Types, Covered, Covers
<1>6. HeadHeld(v)'
  BY <1>0, <1>1 DEF HeadHeld, Held
<1>7. \A w \in Writers : Shape(w)' /\ Covered(w)' /\ HeadHeld(w)'
  <2> SUFFICES ASSUME NEW w \in Writers, w # v
               PROVE Shape(w)' /\ Covered(w)' /\ HeadHeld(w)'
    BY <1>4, <1>5, <1>6
  <2>1. ~Held(w) /\ ~Held(w)'
    BY <1>1 DEF Held
  <2> QED
    BY <1>3, <2>1, ElsewhereKeeps
<1>8. PublishedSettled' /\ CommittedOnce'
  BY <1>1 DEF IInv, PublishedSettled, Settled, CommittedOnce
<1> QED
  BY <1>2, <1>7, <1>8 DEF IInv

\* ServeRenewal: granted to the holder only.
LEMMA ServeRenewalKeeps ==
    ASSUME IInv, NEW v \in Writers, ServeRenewal(v)
    PROVE  IInv'
<1>0. Types /\ Shape(v) /\ Covered(v) /\ HeadHeld(v) /\ Lease \in Nat \ {0}
  BY LeaseAssumption DEF IInv
<1>a. /\ renewal[v].state = "sent"
      /\ UNCHANGED <<late, pc, request, scope, base, commit>>
  BY DEF ServeRenewal
<1>1. CASE Held(v)
  <2>1. GrantLease(v, TRUE) /\ renewal' = [renewal EXCEPT ![v].state = "granted"]
    BY <1>1 DEF ServeRenewal, GrantLease
  <2> QED
    BY <1>1, <1>a, <2>1, ExtendKeeps, Zenon
<1>2. CASE ~Held(v)
  <2>1. UNCHANGED server /\ renewal' = [renewal EXCEPT ![v].state = "refused"]
    BY <1>2 DEF ServeRenewal, GrantLease, server
  <2>2. Types'
    BY <1>0, <1>a, <2>1, FieldUpdate, Zenon DEF Types, server
  <2>3. OthersKept(v)
    BY <1>0, <1>a, <2>1 DEF Types, OthersKept
  <2>4. Shape(v)' /\ Covered(v)' /\ HeadHeld(v)' /\ (Settled(v) => Settled(v)')
    BY <1>0, <1>a, <2>1 DEF Types, Shape, Covered, Covers, HeadHeld, Held, Settled, server
  <2> QED
    BY <2>1, <2>2, <2>3, <2>4, OwnStep
<1> QED
  BY <1>1, <1>2

\* Append keeps what was there and adds one element at the end.
LEMMA AppendIndexes ==
    ASSUME NEW S, NEW s \in Seq(S), NEW e \in S
    PROVE  /\ Len(s) \in Nat /\ DOMAIN s = 1..Len(s)
           /\ DOMAIN Append(s, e) = 1..(Len(s) + 1)
           /\ \A i \in DOMAIN s : Append(s, e)[i] = s[i] /\ s[i] \in S
           /\ Append(s, e)[Len(s) + 1] = e
<1>1. Len(s) \in Nat /\ DOMAIN s = 1..Len(s) /\ \A i \in 1..Len(s) : s[i] \in S
  OBVIOUS
<1>2. Append(s, e) \in Seq(S) /\ Len(Append(s, e)) = Len(s) + 1
  OBVIOUS
<1>3. DOMAIN Append(s, e) = 1..(Len(s) + 1)
  BY <1>2
<1>4. \A i \in 1..Len(s) : Append(s, e)[i] = s[i]
  OBVIOUS
<1>5. Append(s, e)[Len(s) + 1] = e
  OBVIOUS
<1> QED
  BY <1>1, <1>3, <1>4, <1>5

\* ServeCommit: a publication ends the lease of its own writer, and nobody else
\* holds one; the writer had not published before.
LEMMA ServeCommitKeeps ==
    ASSUME IInv, NEW v \in Writers, ServeCommit(v)
    PROVE  IInv'
<1>0. Types /\ Shape(v) /\ Covered(v) /\ HeadHeld(v) /\ Lease \in Nat \ {0}
  BY LeaseAssumption DEF IInv
<1>a. /\ commit[v] = "sent"
      /\ UNCHANGED <<late, pc, request, scope, renewal, base>>
  BY DEF ServeCommit
<1>b. pc[v] = "committing" /\ ~Settled(v)
  BY <1>0, <1>a DEF Shape, Settled
<1>1. CASE CanPublish(v, base[v])
  <2>1. /\ history' = Append(history, v) /\ left' = 0 /\ holder' = holder
        /\ commit' = [commit EXCEPT ![v] = "accepted"]
    BY <1>1 DEF ServeCommit, PublishSnapshot
  <2>2. Types'
    BY <1>0, <1>a, <2>1 DEF Types
  <2>3. OthersKept(v)
    BY <1>0, <1>a, <2>1 DEF Types, OthersKept
  <2>4. Shape(v)' /\ Covered(v)' /\ HeadHeld(v)'
    BY <1>0, <1>a, <1>b, <2>1 DEF Types, Shape, Covered, Covers, HeadHeld
  <2>5. \A w \in Writers : Shape(w)' /\ Covered(w)' /\ HeadHeld(w)'
    <3> SUFFICES ASSUME NEW w \in Writers, w # v
                 PROVE Shape(w)' /\ Covered(w)' /\ HeadHeld(w)'
      BY <2>4
    <3>1. ~Held(w) /\ ~Held(w)'
      BY <1>0, <1>1, <2>1 DEF CanPublish, CanAcquire, Held, Types
    <3> QED
      BY <2>3, <3>1, ElsewhereKeeps
  <2>6. /\ Len(history) \in Nat /\ DOMAIN history = 1..Len(history)
        /\ DOMAIN history' = 1..(Len(history) + 1)
        /\ \A i \in DOMAIN history : history'[i] = history[i] /\ history[i] \in Writers
        /\ history'[Len(history) + 1] = v
    <3>1. history \in Seq(Writers)
      BY <1>0 DEF Types
    <3>2. history' = Append(history, v)
      BY <2>1
    <3> QED
      BY <3>1, <3>2, AppendIndexes
  <2>7. \A i \in DOMAIN history : history[i] # v
    BY <1>b DEF IInv, PublishedSettled
  <2>8. PublishedSettled'
    <3> SUFFICES ASSUME NEW i \in DOMAIN history' PROVE Settled(history[i])'
      BY DEF PublishedSettled
    <3>1. CASE i \in DOMAIN history
      <4>1. Settled(history[i]) /\ history[i] # v /\ history'[i] = history[i]
        BY <2>6, <2>7, <3>1 DEF IInv, PublishedSettled
      <4> QED
        BY <2>3, <2>6, <3>1, <4>1 DEF OthersKept, Settled
    <3>2. CASE i = Len(history) + 1
      <4>1. pc'[v] = "committing" /\ commit'[v] = "accepted"
        BY <1>0, <1>a, <1>b, <2>1 DEF Types
      <4> QED
        BY <2>6, <3>2, <4>1 DEF Settled
    <3> QED
      BY <2>6, <3>1, <3>2
  <2>9. CommittedOnce'
    <3> SUFFICES ASSUME NEW i \in DOMAIN history', NEW j \in DOMAIN history',
                        history'[i] = history'[j]
                 PROVE  i = j
      BY DEF CommittedOnce
    <3>1. \A a, b \in DOMAIN history : history[a] = history[b] => a = b
      BY DEF IInv, CommittedOnce
    <3> QED
      BY <2>6, <2>7, <3>1
  <2> QED
    BY <2>2, <2>5, <2>8, <2>9 DEF IInv
<1>2. CASE ~CanPublish(v, base[v])
  <2>1. UNCHANGED server /\ commit' = [commit EXCEPT ![v] = "refused"]
    BY <1>2 DEF ServeCommit, PublishSnapshot, server
  <2>2. Types'
    BY <1>0, <1>a, <2>1 DEF Types, server
  <2>3. OthersKept(v)
    BY <1>0, <1>a, <2>1 DEF Types, OthersKept
  <2>4. Shape(v)' /\ Covered(v)' /\ HeadHeld(v)'
    BY <1>0, <1>a, <2>1 DEF Types, Shape, Covered, Covers, HeadHeld, Held, server
  <2> QED
    BY <1>b, <2>1, <2>2, <2>3, <2>4, OwnStep
<1> QED
  BY <1>1, <1>2

\* ServeLate: only a renewal can be late, and it extends what is held or does
\* nothing.
LEMMA ServeLateKeeps ==
    ASSUME IInv, ServeLate
    PROVE  IInv'
<1>0. Types
  BY DEF IInv
<1>1. PICK m \in late :
        /\ late' = late \ {m}
        /\ \/ IF m.kind = "commit"
              THEN PublishSnapshot(m.from, CanPublish(m.from, m.base))
              ELSE GrantLease(m.from, IF m.kind = "renew" THEN Held(m.from)
                                      ELSE CanAcquire(m.from))
           \/ UNCHANGED server
        /\ UNCHANGED <<client, faults>>
  BY DEF ServeLate
<1>2. m.kind = "renew" /\ m.from \in Writers /\ late' \subseteq late
  BY <1>0, <1>1 DEF Types
<1>3. UNCHANGED <<pc, request, scope, renewal, base, commit>>
  BY <1>1 DEF client
<1>4. CASE UNCHANGED server
  <2>1. Types'
    BY <1>0, <1>2, <1>3, <1>4 DEF Types, server
  <2>2. \A w \in Writers : Shape(w)' /\ Covered(w)' /\ HeadHeld(w)'
    BY <1>3, <1>4 DEF IInv, Shape, Covered, Covers, HeadHeld, Held, server
  <2>3. PublishedSettled' /\ CommittedOnce'
    BY <1>3, <1>4 DEF IInv, PublishedSettled, Settled, CommittedOnce, server
  <2> QED
    BY <2>1, <2>2, <2>3 DEF IInv
<1>5. CASE Held(m.from) /\ GrantLease(m.from, TRUE)
  <2>1. /\ renewal[m.from].state \in {"off", "wait", "sent", "granted", "refused"}
        /\ renewal' = [renewal EXCEPT ![m.from].state = renewal[m.from].state]
    BY <1>0, <1>2, <1>3, Zenon DEF Types
  <2> QED
    BY <1>2, <1>3, <1>5, <2>1, ExtendKeeps, Zenon
<1> QED
  BY <1>1, <1>2, <1>4, <1>5 DEF GrantLease, server

-----------------------------------------------------------------------------
(* Time                                                                     *)

\* A request, scope or renewal grows older by one tick, up to the limit.
LEMMA AgesGrow ==
    ASSUME NEW S, NEW r \in [state : S, age : 0..Lease], NEW q,
           q = [r EXCEPT !.age = Older(@, Lease)]
    PROVE  /\ q \in [state : S, age : 0..Lease]
           /\ q.state = r.state
           /\ q.age < Lease => r.age < Lease /\ q.age = r.age + 1
<1>0. Lease \in Nat \ {0}
  BY LeaseAssumption
<1>1. r.age \in 0..Lease /\ Older(r.age, Lease) \in 0..Lease
  BY <1>0 DEF Older
<1>2. q \in [state : S, age : 0..Lease] /\ q.state = r.state /\ q.age = Older(r.age, Lease)
  BY <1>1
<1> QED
  BY <1>0, <1>1, <1>2 DEF Older

\* Tick: a lease loses a tick when everything counted from its request ages by
\* one, so that what covered an age still does.
LEMMA TickKeeps ==
    ASSUME IInv, Tick
    PROVE  IInv'
<1>0. Types /\ Lease \in Nat \ {0}
  BY LeaseAssumption DEF IInv
<1>1. /\ left' = IF left > 0 THEN left - 1 ELSE 0
      /\ UNCHANGED <<holder, history, late, pc, base, commit>>
  BY DEF Tick
<1>2. /\ request' \in [Writers -> [state : {"none", "sent", "granted", "busy"}, age : 0..Lease]]
      /\ \A w \in Writers :
           /\ request'[w].state = request[w].state
           /\ request[w].state # "none" /\ request'[w].age < Lease =>
                request[w].age < Lease /\ request'[w].age = request[w].age + 1
  <2> DEFINE S == {"none", "sent", "granted", "busy"}
             R == [state : S, age : 0..Lease]
  <2>1. ASSUME NEW w \in Writers
        PROVE  /\ request'[w] \in R /\ request'[w].state = request[w].state
               /\ request[w].state # "none" /\ request'[w].age < Lease =>
                    request[w].age < Lease /\ request'[w].age = request[w].age + 1
    <3>1. request[w] \in R
      BY <1>0 DEF Types
    <3>2. CASE request[w].state = "none"
      BY <3>1, <3>2 DEF Tick
    <3>3. CASE request[w].state # "none"
      <4>1. request'[w] = [request[w] EXCEPT !.age = Older(@, Lease)]
        BY <3>3 DEF Tick
      <4> HIDE DEF S
      <4> QED
        BY <3>1, <4>1, AgesGrow
    <3> QED
      BY <3>2, <3>3
  <2>2. DOMAIN request' = Writers /\ request' = [w \in Writers |-> request'[w]]
    BY DEF Tick
  <2> QED
    BY <2>1, <2>2
<1>3. /\ scope' \in [Writers -> [state : {"closed", "open", "failed"}, age : 0..Lease]]
      /\ \A w \in Writers :
           /\ scope'[w].state = scope[w].state
           /\ scope[w].state # "closed" /\ scope'[w].age < Lease =>
                scope[w].age < Lease /\ scope'[w].age = scope[w].age + 1
  <2> DEFINE S == {"closed", "open", "failed"}
             R == [state : S, age : 0..Lease]
  <2>1. ASSUME NEW w \in Writers
        PROVE  /\ scope'[w] \in R /\ scope'[w].state = scope[w].state
               /\ scope[w].state # "closed" /\ scope'[w].age < Lease =>
                    scope[w].age < Lease /\ scope'[w].age = scope[w].age + 1
    <3>1. scope[w] \in R
      BY <1>0 DEF Types
    <3>2. CASE scope[w].state = "closed"
      BY <3>1, <3>2 DEF Tick
    <3>3. CASE scope[w].state # "closed"
      <4>1. scope'[w] = [scope[w] EXCEPT !.age = Older(@, Lease)]
        BY <3>3 DEF Tick
      <4> HIDE DEF S
      <4> QED
        BY <3>1, <4>1, AgesGrow
    <3> QED
      BY <3>2, <3>3
  <2>2. DOMAIN scope' = Writers /\ scope' = [w \in Writers |-> scope'[w]]
    BY DEF Tick
  <2> QED
    BY <2>1, <2>2
<1>4. /\ renewal' \in [Writers -> [state : {"off", "wait", "sent", "granted", "refused"},
                                   age : 0..Lease]]
      /\ \A w \in Writers :
           /\ renewal'[w].state = renewal[w].state
           /\ renewal[w].state # "off" /\ renewal'[w].age < Lease =>
                renewal[w].age < Lease /\ renewal'[w].age = renewal[w].age + 1
  <2> DEFINE S == {"off", "wait", "sent", "granted", "refused"}
             R == [state : S, age : 0..Lease]
  <2>1. ASSUME NEW w \in Writers
        PROVE  /\ renewal'[w] \in R /\ renewal'[w].state = renewal[w].state
               /\ renewal[w].state # "off" /\ renewal'[w].age < Lease =>
                    renewal[w].age < Lease /\ renewal'[w].age = renewal[w].age + 1
    <3>1. renewal[w] \in R
      BY <1>0 DEF Types
    <3>2. CASE renewal[w].state = "off"
      BY <3>1, <3>2 DEF Tick
    <3>3. CASE renewal[w].state # "off"
      <4>1. renewal'[w] = [renewal[w] EXCEPT !.age = Older(@, Lease)]
        BY <3>3 DEF Tick
      <4> HIDE DEF S
      <4> QED
        BY <3>1, <4>1, AgesGrow
    <3> QED
      BY <3>2, <3>3
  <2>2. DOMAIN renewal' = Writers /\ renewal' = [w \in Writers |-> renewal'[w]]
    BY DEF Tick
  <2> QED
    BY <2>1, <2>2
<1>5. left' \in 0..Lease
  BY <1>0, <1>1 DEF Types
<1>6. Types'
  BY <1>0, <1>1, <1>2, <1>3, <1>4, <1>5 DEF Types
<1>7. ASSUME NEW w \in Writers, NEW a \in 0..Lease, NEW b \in 0..Lease,
             Covers(w, a), b = a + 1, b < Lease
      PROVE  Covers(w, b)'
  BY <1>0, <1>1, <1>7 DEF Covers, Types
<1>8. ASSUME NEW w \in Writers
      PROVE  Shape(w)' /\ Covered(w)' /\ HeadHeld(w)'
  <2>1. Shape(w) /\ Covered(w) /\ HeadHeld(w)
    BY DEF IInv
  <2>2. /\ request[w].age \in 0..Lease /\ request'[w].age \in 0..Lease
        /\ scope[w].age \in 0..Lease /\ scope'[w].age \in 0..Lease
        /\ renewal[w].age \in 0..Lease /\ renewal'[w].age \in 0..Lease
    BY <1>0, <1>2, <1>3, <1>4 DEF Types
  <2>3. Shape(w)'
    BY <1>1, <1>2, <1>3, <1>4, <2>1, Zenon DEF Shape
  <2>4. request'[w].state = "granted" /\ request'[w].age < Lease
          => Covers(w, request[w].age)'
    BY <1>2, <1>7, <2>1, <2>2, Zenon DEF Covered
  <2>5. renewal'[w].state = "granted" /\ renewal'[w].age < Lease /\ commit'[w] # "accepted"
          => Covers(w, renewal[w].age)'
    BY <1>1, <1>4, <1>7, <2>1, <2>2 DEF Covered
  <2>6. scope'[w].state = "open" /\ scope'[w].age < Lease /\ commit'[w] # "accepted"
          => Covers(w, scope[w].age)'
    BY <1>1, <1>3, <1>7, <2>1, <2>2 DEF Covered
  <2>7. HeadHeld(w)'
    BY <1>0, <1>1, <2>1 DEF HeadHeld, Held, Types
  <2> QED
    BY <2>3, <2>4, <2>5, <2>6, <2>7, Zenon DEF Covered
<1>9. PublishedSettled' /\ CommittedOnce'
  BY <1>1 DEF IInv, PublishedSettled, Settled, CommittedOnce
<1> QED
  BY <1>6, <1>8, <1>9 DEF IInv

-----------------------------------------------------------------------------
(* The theorems                                                             *)

\* Every step, of client, renewal thread, server, network or clock, keeps the
\* invariant.
LEMMA NextKeeps ==
    ASSUME LateRequests = FALSE, IInv, [Next]_vars
    PROVE  IInv'
<1>1. ASSUME NEW w \in Writers, Client(w) PROVE IInv'
  BY <1>1, AcquireKeeps, GrantedKeeps, RefusalKeeps, LoadKeeps, SendCommitKeeps,
     OutcomeKeeps, RecoverKeeps, Zenon DEF Client
<1>2. ASSUME NEW w \in Writers, Renewal(w) PROVE IInv'
  BY <1>2, RenewalKeeps DEF Renewal
<1>3. ASSUME NEW w \in Writers, Serve(w) PROVE IInv'
  BY <1>3, ServeAcquireKeeps, ServeRenewalKeeps, ServeCommitKeeps DEF Serve
<1>4. ASSUME NEW w \in Writers, Fault(w) PROVE IInv'
  BY <1>4, RefusalKeeps, RenewalKeeps, OutcomeKeeps, Zenon DEF Fault
<1>5. CASE UNCHANGED vars
  <2>1. Types'
    BY <1>5 DEF IInv, Types, vars, server, client
  <2>2. \A w \in Writers : Shape(w)' /\ Covered(w)' /\ HeadHeld(w)'
    BY <1>5 DEF IInv, Shape, Covered, Covers, HeadHeld, Held, vars, server, client
  <2>3. PublishedSettled' /\ CommittedOnce'
    BY <1>5 DEF IInv, PublishedSettled, Settled, CommittedOnce, vars, server, client
  <2> QED
    BY <2>1, <2>2, <2>3 DEF IInv
<1> QED
  BY <1>1, <1>2, <1>3, <1>4, <1>5, ServeLateKeeps, TickKeeps DEF Next

\* When no request but a renewal is served after its sender gave up on it, the
\* lease invariant holds in every state, for every number of writers, lease
\* length, number of retries and number of faults.
THEOREM LeaseInvariant ==
    ASSUME LateRequests = FALSE
    PROVE  Spec => []IInv
<1>1. Init => IInv
  BY InitEstablishes
<1>2. IInv /\ [Next]_vars => IInv'
  BY NextKeeps, Zenon
<1> QED
  BY <1>1, <1>2, PTL DEF Spec

\* A scope that EnsureValid accepts is backed by a lease of the server that
\* lasts at least as long as the scope does by the client's clock, whatever is
\* lost, late or renewed.
THEOREM ValidScopesAreHeld ==
    ASSUME LateRequests = FALSE
    PROVE  Spec => []ValidIsHeld
<1>1. IInv => ValidIsHeld
  <2> SUFFICES ASSUME IInv, NEW w \in Writers, Valid(w), commit[w] # "accepted"
               PROVE  Held(w) /\ left >= Lease - scope[w].age
    BY DEF ValidIsHeld
  <2>1. Types /\ Covered(w) /\ Lease \in Nat
    BY LeaseAssumption DEF IInv
  <2>2. scope[w].state = "open" /\ scope[w].age < Lease /\ scope[w].age \in 0..Lease
    BY <2>1 DEF Valid, Expired, Types
  <2>3. Covers(w, scope[w].age)
    BY <2>1, <2>2 DEF Covered
  <2> QED
    BY <2>1, <2>2, <2>3 DEF Covers, Held, Types
<1> QED
  BY <1>1, LeaseInvariant, PTL

\* The head TryCommit reads under its scope is still the head when the scope is
\* found valid before publication, for every number of competing writers.
THEOREM HeadIsStable ==
    ASSUME LateRequests = FALSE
    PROVE  Spec => []BaseIsHead
<1>1. IInv => BaseIsHead
  <2> SUFFICES ASSUME IInv, NEW w \in Writers, pc[w] = "prepare", Valid(w)
               PROVE  base[w] = Len(history)
    BY DEF BaseIsHead
  <2>1. Types /\ Shape(w) /\ Covered(w) /\ HeadHeld(w)
    BY DEF IInv
  <2>2. commit[w] # "accepted" /\ scope[w].state = "open" /\ scope[w].age < Lease
    BY <2>1, LeaseAssumption DEF Shape, Valid, Expired, Types
  <2>3. Held(w)
    BY <2>1, <2>2 DEF Covered, Covers, Held
  <2> QED
    BY <2>1, <2>3 DEF HeadHeld
<1> QED
  BY <1>1, LeaseInvariant, PTL

\* No writer publishes its committable twice, over refused publications, lost
\* answers, crashes and FilterAndCommit's recovery.
THEOREM PublishedOnce ==
    ASSUME LateRequests = FALSE
    PROVE  Spec => []CommittedOnce
<1>1. IInv => CommittedOnce
  BY DEF IInv
<1> QED
  BY <1>1, LeaseInvariant, PTL
===============================================================================
