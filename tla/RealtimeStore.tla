---------------------------- MODULE RealtimeStore ----------------------------
(***************************************************************************)
(* The process-local store of one bucket of a real-time table:             *)
(* ArrowRealtimeStore, and ArrowDeduplicateRealtimeStore which wraps one   *)
(* with a key index and logical deletions.  Each operator is one critical  *)
(* section of the store's mutex.                                           *)
(*                                                                         *)
(* The upstream log is a sequence of events [key, add]; the event at       *)
(* position o + 1 has offset o, and a row is the offset of the event that  *)
(* added it with the sequence number its writer gave it.  The three modes  *)
(* are those of RealtimeStoreMode: an append store and a primary-key store *)
(* keep every event as a row, a deduplicate store keeps additions and      *)
(* turns every event into deletions of the offsets it supersedes.          *)
(***************************************************************************)
EXTENDS Integers, Sequences, FiniteSets, FiniteSetsExt, SequencesExt

CONSTANTS Keys

None == -1

NoIndex == [k \in Keys |-> None]

\* A store that holds nothing; registered and attached come with the context.
EmptyStore ==
    [registered |-> FALSE, begin |-> 0, end |-> 0, rows |-> {}, index |-> NoIndex,
     dels |-> {}, sealed |-> <<>>, lookup |-> {}]

Offsets(rows) == {r.off : r \in rows}

\* The events of a batch, by offset.
Adds(log, os) == {o \in os : log[o + 1].add}
OfKey(log, os, k) == {o \in os : log[o + 1].key = k}

-----------------------------------------------------------------------------
(* ArrowDeduplicateRealtimeStore                                            *)

\* AcquireKeyOffsetLookup, LookupOffsets: every offset known for the keys of
\* the batch, in committed files, in sealed segments and in the building one.
LookupOffsets(store, log, os) ==
    LET keys == {log[o + 1].key : o \in os}
        memory == {i[k] : i \in {store.index} \cup {s.index : s \in Range(store.sealed)},
                          k \in keys}
    IN  {o \in store.lookup : log[o + 1].key \in keys} \cup (memory \ {None})

\* The loop of WriteAndLookup over the events at the offsets os: the offset the
\* building index has for the key dies, an addition replaces it in the index, a
\* deletion erases it.
IndexRows(store, log, os, previous) ==
    LET last(k) == Max(OfKey(log, os, k))
        superseded == {o \in Adds(log, os) : \E p \in os : p > o /\ log[p + 1].key = log[o + 1].key}
        found == {store.index[log[o + 1].key] : o \in os} \ {None}
    IN  [store EXCEPT
           !.index = [k \in Keys |->
                        IF OfKey(log, os, k) = {} THEN @[k]
                        ELSE IF log[last(k) + 1].add THEN last(k) ELSE None],
           !.dels = @ \cup previous \cup found \cup superseded]

-----------------------------------------------------------------------------
(* Both stores                                                              *)

\* Write appends a batch to the building segment.
AppendRows(store, begin, end, rows) ==
    [store EXCEPT !.rows = @ \cup rows,
                  !.begin = IF store.begin = store.end THEN begin ELSE @,
                  !.end = end]

HasBuilding(store) == store.begin < store.end

\* FreezeBuildingSegment: rows, range, key index and deletions of the building
\* segment are frozen together, and a new segment is opened.
Building(store) ==
    [begin |-> store.begin, end |-> store.end, rows |-> store.rows,
     index |-> store.index, dels |-> store.dels]

FreezeBuildingSegment(store) ==
    [store EXCEPT !.sealed = Append(@, Building(store)),
                  !.rows = {}, !.index = NoIndex, !.begin = store.end]

\* Mutant: the building segment is left out of the view.
AcquireSealedView(store) ==
    [rows |-> UNION {s.rows : s \in Range(store.sealed)},
     dels |-> store.dels,
     end |-> IF store.sealed # <<>> THEN Last(store.sealed).end ELSE 0]

\* AcquireReadView: the sealed segments, a copy of the building one, the range
\* they span and the pending deletions.
AcquireReadView(store) ==
    [rows |-> store.rows \cup UNION {s.rows : s \in Range(store.sealed)},
     dels |-> store.dels,
     end |-> IF HasBuilding(store) THEN store.end
             ELSE IF store.sealed # <<>> THEN Last(store.sealed).end ELSE 0]

\* RetireCommittedSegments drops the sealed segments that a snapshot covers;
\* the deletions of the last one of them are in the snapshot's deletion vectors.
RetireCommitted(store, committed) ==
    LET n == Cardinality({i \in DOMAIN store.sealed : store.sealed[i].end <= committed})
    IN  [store EXCEPT !.sealed = SubSeq(@, n + 1, Len(@)),
                      !.dels = IF n = 0 THEN @ ELSE @ \ store.sealed[n].dels]

==============================================================================
