---------------------------- MODULE TableHistory ----------------------------
(***************************************************************************)
(* What a table promises its committers: a history of changes that only    *)
(* grows, each change applied whole to the table its predecessor left, and *)
(* each committable there at most once.                                    *)
(***************************************************************************)
EXTENDS Naturals, Sequences

CONSTANTS
    Users,      \* commit users
    Files       \* names of data files

VARIABLES
    history,    \* the changes published so far
    table       \* the files of the table

\* once: the change belongs to a committable, known by user, identifier and
\* half (its append or its compact changes), and may not be repeated.
Change ==
    [user : Users, identifier : Nat, half : {"append", "compact"},
     once : BOOLEAN, add : SUBSET Files, del : SUBSET Files]

Init == history = <<>> /\ table = {}

SameHalf(c, d) ==
    /\ c.once /\ d.once
    /\ c.user = d.user /\ c.identifier = d.identifier /\ c.half = d.half

\* A change takes effect.
Publish(c) ==
    /\ c.del \subseteq table
    /\ c.add \cap table = {}
    /\ \A i \in DOMAIN history : ~SameHalf(c, history[i])
    /\ history' = Append(history, c)
    /\ table' = (table \ c.del) \cup c.add

\* The change is read off the new history; there is no other candidate.
Next ==
    /\ Len(history') > 0
    /\ history'[Len(history')] \in Change
    /\ Publish(history'[Len(history')])

Spec == Init /\ [][Next]_<<history, table>>
=============================================================================
