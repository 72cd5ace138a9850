--------------------------- MODULE RestCommitLock ---------------------------
(***************************************************************************)
(* Commits through a REST catalog under a commit lease: RestCommitLock and *)
(* its renewal thread, with the part of TryCommit that holds the lease and *)
(* the answers of the server.                                              *)
(*                                                                         *)
(* An attempt acquires a lease, reads the head, prepares a snapshot,       *)
(* checks the lease and sends the snapshot.  Clocks only ever enter as     *)
(* differences (clock_() - renewed_at_millis_), so the model keeps ages,   *)
(* stopped at the limit they are compared with, and what is left of the    *)
(* server's lease; Tick advances all of them.                              *)
(***************************************************************************)
EXTENDS Naturals, Sequences

CONSTANTS
    Writers,        \* commit users; one committable each
    Lease,          \* leaseMillis of every grant
    AcquireTimeout, \* commit.timeout as the acquisition uses it
    MaxRetries,     \* commit.max-retries
    MaxFaults,      \* bound on lost answers and crashes
    LateRequests    \* TRUE: an acquisition or commit request may reach the
                    \* server after its sender was told of an error

ASSUME LeaseAssumption ==
    /\ Lease \in Nat \ {0}
    /\ AcquireTimeout \in Nat
    /\ MaxRetries \in Nat
    /\ MaxFaults \in Nat
    /\ LateRequests \in BOOLEAN

VARIABLES
    holder,     \* server: commit user of the lease granted last
    left,       \* server: time until that lease expires, 0 when it has ended
    history,    \* server: the writers of the published snapshots
    late,       \* requests on their way whose sender does not wait any more
    pc,         \* where the TryCommit of each writer is
    retry,      \* retry_count
    waited,     \* clock_() - started_at of the acquisition
    request,    \* the acquisition request and its answer
    scope,      \* the CommitLockScope: LeaseState without its thread
    renewal,    \* the renewal thread, its request and the answer
    base,       \* number of snapshots when the head was read
    commit,     \* the commit request and its answer
    faults      \* lost answers and crashes so far

server == <<holder, left, history>>
client == <<pc, retry, waited, request, scope, renewal, base, commit>>
vars == <<server, late, client, faults>>

Locations == {"start", "acquire", "acquiring", "load", "prepare", "committing",
              "uncertain", "done", "failed"}

NoRequest == [state |-> "none", age |-> 0]
NoScope == [state |-> "closed", age |-> 0]
NoRenewal == [state |-> "off", age |-> 0]

\* The pause of RenewLoop between two renewals.
Interval == IF Lease \div 3 > 1 THEN Lease \div 3 ELSE 1

Older(age, limit) == IF age < limit THEN age + 1 ELSE limit

-----------------------------------------------------------------------------
(* The server                                                               *)

Held(w) == left > 0 /\ holder = w

\* The same commit user shares a lease.
CanAcquire(w) == left = 0 \/ holder = w

\* A lease keeps the other writers out; the snapshot names its base.
CanPublish(w, b) == CanAcquire(w) /\ b = Len(history)

GrantLease(w, granted) ==
    /\ holder' = IF granted THEN w ELSE holder
    /\ left' = IF granted THEN Lease ELSE left
    /\ UNCHANGED history

\* Publication ends the lease.
PublishSnapshot(w, accepted) ==
    /\ history' = IF accepted THEN Append(history, w) ELSE history
    /\ left' = IF accepted THEN 0 ELSE left
    /\ UNCHANGED holder

ServeAcquire(w) ==
    /\ request[w].state = "sent"
    /\ GrantLease(w, CanAcquire(w))
    /\ request' = [request EXCEPT ![w].state =
                        IF CanAcquire(w) THEN "granted" ELSE "busy"]
    /\ UNCHANGED <<late, pc, retry, waited, scope, renewal, base, commit, faults>>

\* A renewal never revives a lease that has ended.
ServeRenewal(w) ==
    /\ renewal[w].state = "sent"
    /\ GrantLease(w, Held(w))
    /\ renewal' = [renewal EXCEPT ![w].state =
                        IF Held(w) THEN "granted" ELSE "refused"]
    /\ UNCHANGED <<late, pc, retry, waited, request, scope, base, commit, faults>>

ServeCommit(w) ==
    /\ commit[w] = "sent"
    /\ PublishSnapshot(w, CanPublish(w, base[w]))
    /\ commit' = [commit EXCEPT ![w] =
                        IF CanPublish(w, base[w]) THEN "accepted" ELSE "refused"]
    /\ UNCHANGED <<late, pc, retry, waited, request, scope, renewal, base, faults>>

\* A request nobody waits for is served or gets lost.
ServeLate ==
    \E m \in late :
        /\ late' = late \ {m}
        /\ \/ IF m.kind = "commit"
              THEN PublishSnapshot(m.from, CanPublish(m.from, m.base))
              ELSE GrantLease(m.from, IF m.kind = "renew" THEN Held(m.from)
                                      ELSE CanAcquire(m.from))
           \/ UNCHANGED server
        /\ UNCHANGED <<client, faults>>

-----------------------------------------------------------------------------
(* LeaseState and its renewal thread                                        *)

\* CheckValidLocked finds the lease failed or expired.
Expired(w) == scope[w].state = "failed" \/ scope[w].age >= Lease

\* What EnsureValid answers.
Valid(w) == scope[w].state = "open" /\ scope[w].age < Lease

\* Mutant: the scope ends but its renewals go on.
CloseLeaky(w, requests) ==
    /\ late' = late \cup requests
    /\ base' = [base EXCEPT ![w] = 0]
    /\ UNCHANGED <<scope, renewal>>

\* The scope ends.  The renewal thread is not joined: its request stays on its
\* way, and the answer finds the scope closed.
Close(w, requests) ==
    /\ scope' = [scope EXCEPT ![w] = NoScope]
    /\ renewal' = [renewal EXCEPT ![w] = NoRenewal]
    /\ late' = late \cup requests \cup
                 {m \in {[kind |-> "renew", from |-> w, base |-> 0]} :
                    renewal[w].state = "sent"}
    /\ base' = [base EXCEPT ![w] = 0]

\* RenewLoop wakes up, checks the lease and sends a renewal.
SendRenewal(w) ==
    /\ renewal[w].state = "wait" /\ renewal[w].age >= Interval
    /\ IF Expired(w)
       THEN /\ scope' = [scope EXCEPT ![w].state = "failed"]
            /\ renewal' = [renewal EXCEPT ![w] = NoRenewal]
       ELSE /\ renewal' = [renewal EXCEPT ![w] = [state |-> "sent", age |-> 0]]
            /\ UNCHANGED scope
    /\ UNCHANGED <<server, late, pc, retry, waited, request, base, commit, faults>>

\* Mutant: the lease is counted from the answer.
RenewedFromAnswer(w) ==
    /\ renewal[w].state \in {"granted", "refused"}
    /\ IF renewal[w].state = "granted" /\ scope[w].state = "open"
       THEN /\ scope' = [scope EXCEPT ![w].age = 0]
            /\ renewal' = [renewal EXCEPT ![w] = [state |-> "wait", age |-> 0]]
       ELSE /\ scope' = [scope EXCEPT ![w].state = "failed"]
            /\ renewal' = [renewal EXCEPT ![w] = NoRenewal]
    /\ UNCHANGED <<server, late, pc, retry, waited, request, base, commit, faults>>

\* The answer to a renewal: the lease counts from the request, a refusal ends
\* it, and so does a failure noticed meanwhile.
Renewed(w) ==
    /\ renewal[w].state \in {"granted", "refused"}
    /\ IF renewal[w].state = "granted" /\ scope[w].state = "open"
       THEN /\ scope' = [scope EXCEPT ![w].age = renewal[w].age]
            /\ renewal' = [renewal EXCEPT ![w] = [state |-> "wait", age |-> 0]]
       ELSE /\ scope' = [scope EXCEPT ![w].state = "failed"]
            /\ renewal' = [renewal EXCEPT ![w] = NoRenewal]
    /\ UNCHANGED <<server, late, pc, retry, waited, request, base, commit, faults>>

\* The renewal fails on its way there or back.
RenewalError(w) ==
    /\ renewal[w].state \in {"sent", "granted", "refused"} /\ faults < MaxFaults
    /\ faults' = faults + 1
    /\ scope' = [scope EXCEPT ![w].state = "failed"]
    /\ renewal' = [renewal EXCEPT ![w] = NoRenewal]
    /\ late' = late \cup {m \in {[kind |-> "renew", from |-> w, base |-> 0]} :
                            renewal[w].state = "sent"}
    /\ UNCHANGED <<server, pc, retry, waited, request, base, commit>>

-----------------------------------------------------------------------------
(* RestCommitLock::Acquire and the attempt of TryCommit around it           *)

Start(w) ==
    /\ pc[w] = "start"
    /\ pc' = [pc EXCEPT ![w] = "acquire"]
    /\ UNCHANGED <<server, late, retry, waited, request, scope, renewal, base, commit,
                   faults>>

SendAcquire(w) ==
    /\ pc[w] = "acquire"
    /\ request' = [request EXCEPT ![w] = [state |-> "sent", age |-> 0]]
    /\ pc' = [pc EXCEPT ![w] = "acquiring"]
    /\ UNCHANGED <<server, late, retry, waited, scope, renewal, base, commit,
                   faults>>

\* Mutant: retries are not counted.
RetryForever(w) ==
    /\ pc' = [pc EXCEPT ![w] = "acquire"]
    /\ waited' = [waited EXCEPT ![w] = 0]
    /\ UNCHANGED retry

\* Another attempt, within commit.max-retries and commit.timeout.
Retry(w) ==
    \/ /\ retry[w] < MaxRetries
       /\ retry' = [retry EXCEPT ![w] = @ + 1]
       /\ pc' = [pc EXCEPT ![w] = "acquire"]
       /\ waited' = [waited EXCEPT ![w] = 0]
    \/ /\ pc' = [pc EXCEPT ![w] = "failed"]
       /\ waited' = [waited EXCEPT ![w] = 0]
       /\ UNCHANGED retry

\* Mutant: a grant counts from its arrival.
GrantedOnArrival(w) ==
    /\ pc[w] = "acquiring" /\ request[w].state = "granted"
    /\ request' = [request EXCEPT ![w] = NoRequest]
    /\ scope' = [scope EXCEPT ![w] = [state |-> "open", age |-> 0]]
    /\ renewal' = [renewal EXCEPT ![w] = [state |-> "wait", age |-> 0]]
    /\ pc' = [pc EXCEPT ![w] = "load"]
    /\ waited' = [waited EXCEPT ![w] = 0]
    /\ UNCHANGED <<server, late, retry, base, commit, faults>>

\* A grant opens a scope that counts from the request and is renewed in the
\* background, unless it took longer than its lease or no thread starts.
Granted(w) ==
    /\ pc[w] = "acquiring" /\ request[w].state = "granted"
    /\ request' = [request EXCEPT ![w] = NoRequest]
    /\ \/ /\ request[w].age < Lease
          /\ scope' = [scope EXCEPT ![w] =
                [state |-> "open", age |-> request[w].age]]
          /\ renewal' = [renewal EXCEPT ![w] = [state |-> "wait", age |-> 0]]
          /\ pc' = [pc EXCEPT ![w] = "load"]
          /\ waited' = [waited EXCEPT ![w] = 0]
          /\ UNCHANGED <<retry, faults>>
       \/ /\ request[w].age >= Lease
          /\ Retry(w)
          /\ UNCHANGED <<scope, renewal, faults>>
       \/ /\ faults < MaxFaults
          /\ faults' = faults + 1
          /\ Retry(w)
          /\ UNCHANGED <<scope, renewal>>
    /\ UNCHANGED <<server, late, base, commit>>

\* Another writer holds the lease: ask again until the timeout.
Busy(w) ==
    /\ pc[w] = "acquiring" /\ request[w].state = "busy"
    /\ request' = [request EXCEPT ![w] = NoRequest]
    /\ IF waited[w] >= AcquireTimeout
       THEN Retry(w)
       ELSE /\ pc' = [pc EXCEPT ![w] = "acquire"]
            /\ UNCHANGED <<retry, waited>>
    /\ UNCHANGED <<server, late, scope, renewal, base, commit, faults>>

\* Requests of w that are on their way when it stops waiting.
Outstanding(w) ==
    {m \in {[kind |-> "acquire", from |-> w, base |-> 0]} :
        LateRequests /\ request[w].state = "sent"}
    \cup {m \in {[kind |-> "commit", from |-> w, base |-> base[w]]} :
        LateRequests /\ commit[w] = "sent"}

\* The acquisition request fails, served or not.
AcquireError(w) ==
    /\ pc[w] = "acquiring" /\ faults < MaxFaults
    /\ faults' = faults + 1
    /\ late' = late \cup Outstanding(w)
    /\ request' = [request EXCEPT ![w] = NoRequest]
    /\ Retry(w)
    /\ UNCHANGED <<server, scope, renewal, base, commit>>

LoadLatest(w) ==
    /\ pc[w] = "load"
    /\ base' = [base EXCEPT ![w] = Len(history)]
    /\ pc' = [pc EXCEPT ![w] = "prepare"]
    /\ UNCHANGED <<server, late, retry, waited, request, scope, renewal, commit,
                   faults>>

\* CommitSnapshotImpl: a lease lost while the snapshot was prepared stops its
\* publication.
SendCommit(w) ==
    /\ pc[w] = "prepare"
    /\ IF Valid(w)
       THEN /\ commit' = [commit EXCEPT ![w] = "sent"]
            /\ pc' = [pc EXCEPT ![w] = "committing"]
            /\ UNCHANGED <<late, scope, renewal, base, retry, waited>>
       ELSE /\ Close(w, {})
            /\ Retry(w)
            /\ UNCHANGED commit
    /\ UNCHANGED <<server, request, faults>>

\* The server's answer: published, or a lost race.
Committed(w) ==
    /\ pc[w] = "committing" /\ commit[w] \in {"accepted", "refused"}
    /\ commit' = [commit EXCEPT ![w] = "none"]
    /\ Close(w, {})
    /\ IF commit[w] = "accepted"
       THEN pc' = [pc EXCEPT ![w] = "done"] /\ UNCHANGED <<retry, waited>>
       ELSE Retry(w)
    /\ UNCHANGED <<server, request, faults>>

\* The attempt ends without an answer: TryCommit returns an error that leaves
\* the outcome uncertain, or the process dies and may not come back.
Abandon(w) ==
    /\ pc[w] \notin {"start", "uncertain", "done", "failed"}
    /\ faults < MaxFaults
    /\ faults' = faults + 1
    /\ Close(w, Outstanding(w))
    /\ request' = [request EXCEPT ![w] = NoRequest]
    /\ commit' = [commit EXCEPT ![w] = "none"]
    /\ \E l \in {"uncertain", "failed"} : pc' = [pc EXCEPT ![w] = l]
    /\ retry' = [retry EXCEPT ![w] = 0]
    /\ waited' = [waited EXCEPT ![w] = 0]
    /\ UNCHANGED server

\* Mutant: recovery commits again without looking.
RecoverBlindly(w) ==
    /\ pc[w] = "uncertain"
    /\ pc' = [pc EXCEPT ![w] = "start"]
    /\ UNCHANGED <<server, late, retry, waited, request, scope, renewal, base,
                   commit, faults>>

\* FilterAndCommit: done if a snapshot of the commit user is there, another
\* TryCommit otherwise.
Recover(w) ==
    /\ pc[w] = "uncertain"
    /\ pc' = [pc EXCEPT ![w] =
                IF \E i \in DOMAIN history : history[i] = w
                THEN "done" ELSE "start"]
    /\ UNCHANGED <<server, late, retry, waited, request, scope, renewal, base,
                   commit, faults>>

-----------------------------------------------------------------------------
Tick ==
    /\ left' = IF left > 0 THEN left - 1 ELSE 0
    /\ waited' = [w \in Writers |->
                    IF pc[w] \in {"acquire", "acquiring"}
                    THEN Older(waited[w], AcquireTimeout) ELSE waited[w]]
    /\ request' = [w \in Writers |->
                    IF request[w].state = "none" THEN request[w]
                    ELSE [request[w] EXCEPT !.age = Older(@, Lease)]]
    /\ scope' = [w \in Writers |->
                    IF scope[w].state = "closed" THEN scope[w]
                    ELSE [scope[w] EXCEPT !.age = Older(@, Lease)]]
    /\ renewal' = [w \in Writers |->
                    IF renewal[w].state = "off" THEN renewal[w]
                    ELSE [renewal[w] EXCEPT !.age = Older(@, Lease)]]
    /\ UNCHANGED <<holder, history, late, pc, retry, base, commit, faults>>

Init ==
    /\ holder \in Writers /\ left = 0 /\ history = <<>>
    /\ late = {}
    /\ pc = [w \in Writers |-> "start"]
    /\ retry = [w \in Writers |-> 0]
    /\ waited = [w \in Writers |-> 0]
    /\ request = [w \in Writers |-> NoRequest]
    /\ scope = [w \in Writers |-> NoScope]
    /\ renewal = [w \in Writers |-> NoRenewal]
    /\ base = [w \in Writers |-> 0]
    /\ commit = [w \in Writers |-> "none"]
    /\ faults = 0

\* The writer's own threads.
Client(w) ==
    \/ Start(w) \/ SendAcquire(w) \/ Granted(w) \/ Busy(w) \/ LoadLatest(w)
    \/ SendCommit(w) \/ Committed(w) \/ Recover(w)

Renewal(w) == SendRenewal(w) \/ Renewed(w)

Serve(w) == ServeAcquire(w) \/ ServeRenewal(w) \/ ServeCommit(w)

Fault(w) == AcquireError(w) \/ RenewalError(w) \/ Abandon(w)

Next ==
    \/ \E w \in Writers : Client(w) \/ Renewal(w) \/ Serve(w) \/ Fault(w)
    \/ ServeLate
    \/ Tick

Spec == Init /\ [][Next]_vars

\* Threads are scheduled, the server answers every request, time passes.
Fairness ==
    /\ \A w \in Writers :
        /\ WF_vars(Client(w)) /\ WF_vars(Renewal(w))
        /\ WF_vars(ServeAcquire(w)) /\ WF_vars(ServeRenewal(w))
        /\ WF_vars(ServeCommit(w))
    /\ WF_vars(Tick)

FairSpec == Spec /\ Fairness

-----------------------------------------------------------------------------
(* Properties                                                               *)

\* Every variable has its type.
TypeOK ==
    /\ holder \in Writers /\ left \in 0..Lease /\ history \in Seq(Writers)
    /\ late \subseteq [kind : {"acquire", "renew", "commit"}, from : Writers,
                       base : Nat]
    /\ pc \in [Writers -> Locations]
    /\ retry \in [Writers -> 0..MaxRetries]
    /\ waited \in [Writers -> 0..AcquireTimeout]
    /\ request \in [Writers -> [state : {"none", "sent", "granted", "busy"},
                                age : 0..Lease]]
    /\ scope \in [Writers -> [state : {"closed", "open", "failed"}, age : 0..Lease]]
    /\ renewal \in [Writers -> [state : {"off", "wait", "sent", "granted",
                                         "refused"}, age : 0..Lease]]
    /\ base \in [Writers -> Nat]
    /\ commit \in [Writers -> {"none", "sent", "accepted", "refused"}]
    /\ faults \in 0..MaxFaults

\* A scope that EnsureValid accepts is covered by a lease of the server, which
\* nobody else can get before the scope's deadline passes; only the attempt's
\* own publication ends it earlier.
ValidIsHeld ==
    \A w \in Writers :
        Valid(w) /\ commit[w] # "accepted" =>
            Held(w) /\ left >= Lease - scope[w].age

\* The head an attempt has read under its lease is still the head when it
\* checks the lease before publishing (TryCommit holds the scope "from reading
\* the head until publication").
BaseIsHead ==
    \A w \in Writers :
        pc[w] = "prepare" /\ Valid(w) => base[w] = Len(history)

\* No committable is published twice, over lost answers, crashes and recovery.
CommittedOnce ==
    \A i, j \in DOMAIN history : history[i] = history[j] => i = j

\* RenewLoop: "A late answer cannot revive a scope that ended or expired while
\* it was in flight."
LateAnswerCannotRevive ==
    [][\A w \in Writers :
        scope[w].state # "closed" /\ Expired(w) /\ scope'[w].state # "closed"
            => Expired(w)']_vars

\* Every commit call ends: acquisitions time out and retries are bounded.
CallsEnd == <>(\A w \in Writers : pc[w] \in {"done", "failed"})

\* There is no unlock request, and still no lease stays behind: once its scope
\* has ended nobody renews it and it expires.
LeasesEnd == <>[](left = 0)
=============================================================================
