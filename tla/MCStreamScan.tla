----------------------------- MODULE MCStreamScan -----------------------------
(* Instances of StreamScan for TLC.                                          *)
EXTENDS StreamScan

\* An append, an append of other partitions, and a compaction with a changelog.
MCAppend == [time |-> 0, kind |-> "APPEND", changelog |-> FALSE, empty |-> FALSE]
MCEmpty == [MCAppend EXCEPT !.empty = TRUE]
MCCompact == [MCAppend EXCEPT !.kind = "COMPACT", !.changelog = TRUE]
MCLater == [MCAppend EXCEPT !.time = 1]

MCScan(streaming, mode, arg, commits) ==
    [streaming |-> streaming, mode |-> mode, arg |-> arg, changelog |-> FALSE, commits |-> commits]

Stream(mode, arg) == MCScan(TRUE, mode, arg, {MCAppend, MCCompact})
Batch(mode, arg) == MCScan(FALSE, mode, arg, {MCAppend})

\* Every startup mode of both scans; id 3 is one of the future to start with.
MCScans ==
    {MCScan(TRUE, "full", 0, {MCAppend, MCEmpty, MCCompact}), Stream("latest", 0),
     Stream("id", 1), Stream("id", 3), Stream("id_full", 2),
     [Stream("full", 0) EXCEPT !.changelog = TRUE],
     MCScan(TRUE, "time", 1, {MCAppend, MCLater}), MCScan(FALSE, "time", 0, {MCAppend, MCLater}),
     Batch("latest", 0), Batch("id", 2)}

==============================================================================
