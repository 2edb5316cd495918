--------------------------- MODULE MCVDOPageCache ---------------------------
(* The scenarios in which TLC explores VDOPageCache. *)
EXTENDS VDOPageCache

Get(pbn) == [writable |-> FALSE, pbn |-> pbn, lock |-> 0]
Put(pbn, lock) == [writable |-> TRUE, pbn |-> pbn, lock |-> lock]
Gets(pbns) == {Get(pbn) : pbn \in pbns}
Puts(pbns, locks) == {Put(pbn, lock) : pbn \in pbns, lock \in locks}

Page(state, updates) == [state |-> state, updates |-> updates]

Online ==
    [pageCount |-> 2, leafPages |-> 3,
     start |-> "online", flushRequired |-> TRUE, writeErrors |-> FALSE,
     maxDrains |-> 0, treeActivity |-> {FALSE},
     pageIODuringTreeDrain |-> FALSE,
     journalEntries |-> <<>>, badEntries |-> {}, unallocated |-> {},
     stored |-> {},
     storage |-> [p \in 1 .. 3 |-> Page(IF p = 1 THEN "unformatted" ELSE "valid", {})],
     requests |-> [c \in DataVIOs |-> {}]]

\* Reads and updates of more pages than the cache holds.
Pressure ==
    [Online EXCEPT !.requests =
       [c \in DataVIOs |-> CASE c = 1 -> Puts({1, 2}, {1, 2})
                             [] c = 2 -> Puts({1, 2}, {2})
                             [] c = 3 -> Puts({1}, {1}) \cup Gets({2, 3})
                             [] c = 4 -> Gets({1, 2, 3})
                             [] OTHER -> {}]]


\* Suspends, saves and resumes, with and without I/O in the trees.
Drains ==
    [Online EXCEPT !.maxDrains = 2, !.treeActivity = {TRUE, FALSE},
       !.requests =
       [c \in DataVIOs |-> CASE c = 1 -> Puts({1, 2}, {1})
                             [] c = 2 -> Puts({1}, {1, 2}) \cup Gets({3})
                             [] c = 3 -> Puts({3}, {2})
                             [] OTHER -> {}]]

\* No flush of the layer is needed, pages cannot be read or written.
Errors ==
    [Online EXCEPT !.writeErrors = TRUE, !.flushRequired = FALSE,
       !.storage[3] = Page("unreadable", {}),
       !.maxDrains = 1,
       !.requests =
       [c \in DataVIOs |-> CASE c = 1 -> Puts({1, 2}, {1})
                             [] c = 2 -> Puts({1}, {1}) \cup Gets({3})
                             [] c = 3 -> Puts({2}, {2})
                             [] OTHER -> {}]]

\* Replay of a journal with the entries of three pages into a cache whose
\* recovery fetches two of them at a time.
Entry(pbn, id) == [pbn |-> pbn, id |-> id]

Recover ==
    [Online EXCEPT !.pageCount = 4, !.start = "recovery",
       !.journalEntries = <<Entry(1, 11), Entry(1, 12), Entry(2, 21),
                            Entry(3, 31)>>,
       !.requests =
       [c \in DataVIOs |-> CASE c = 1 -> Puts({1, 2}, {1})
                             [] c = 2 -> Gets({1, 3})
                             [] OTHER -> {}]]

\* A read-only rebuild: replay, then a count of every mapping.
Rebuild ==
    [Recover EXCEPT !.start = "rebuild", !.leafPages = 4,
       !.storage = <<Page("valid", {10}), Page("unformatted", {}),
                     Page("unreadable", {30}), Page("valid", {40, 41})>>,
       !.journalEntries = <<Entry(1, 11), Entry(2, 21)>>,
       !.badEntries = {41},
       !.stored = {10, 11, 21, 40},
       !.requests = [c \in DataVIOs |-> {}]]

Unallocated == [Rebuild EXCEPT !.unallocated = {2},
       !.journalEntries = <<Entry(1, 11), Entry(4, 42)>>,
       !.stored = {10, 11, 40, 42}]

\* The same with a flush of the layer before every batch of writes.
FlushErrors == [Errors EXCEPT !.flushRequired = TRUE, !.maxDrains = 0]

\* A save whose trees are still being written when a page write finishes.
BusyTrees ==
    [Drains EXCEPT !.maxDrains = 1, !.pageIODuringTreeDrain = TRUE]

\* Requests on the block map of a rebuilt VDO.
UsedAfterRebuild ==
    [Rebuild EXCEPT
       !.storage = [p \in 1 .. 4 |-> Page("valid", {})],
       !.badEntries = {}, !.stored = {11, 21},
       !.requests = [c \in DataVIOs |-> Puts({1, 2}, {1})]]

MCBusyTrees == {BusyTrees}
MCUsedAfterRebuild == {UsedAfterRebuild}
MCScenarios == {FlushErrors, Pressure, Drains, Errors, Recover, Rebuild, Unallocated}
=============================================================================
