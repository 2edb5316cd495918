------------------------------ MODULE MCBlockMap ------------------------------
(***************************************************************************)
(* The block map for TLC, in two parts which share no state: the cache of  *)
(* its leaf pages (VDOPageCache), and the trees above them (BlockMapTree). *)
(* A behaviour is one of one part.                                         *)
(***************************************************************************)
EXTENDS MCVDOPageCache

CONSTANT TreeScenarios

VARIABLE part

\* Trees of height three with two roots and two entries in a page.
tree == INSTANCE BlockMapTree WITH
  BLOCK_MAP_TREE_HEIGHT <- 3, BLOCK_MAP_ENTRIES_PER_PAGE <- 2, rootCount <- 2,
  Generations <- 4, Scenarios <- TreeScenarios

Read(leaf) == [kind |-> "read", leaf |-> leaf]
Write(leaf) == [kind |-> "write", leaf |-> leaf]
Trim(leaf) == [kind |-> "trim", leaf |-> leaf]

Blank == [initialized |-> FALSE, entries |-> <<>>]
TreePage(a, b) == [initialized |-> TRUE,
               entries |-> [s \in 0 .. 1 |-> IF s = 0 THEN a ELSE b]]

\* An unused VDO with two trees. Leaves 0, 2, 4 and 6 are in the first one,
\* whose root is block 1; the blocks from 11 on are free.
Fresh ==
    [leafPages |-> 7, concurrent |-> TRUE, poolSize |-> 3, periods |-> 2,
     start |-> "online", errors |-> FALSE, maxDrains |-> 0,
     storage |-> [b \in 1 .. 16 |-> Blank], stored |-> {}, free |-> 11 .. 13,
     requests |-> [d \in DataVIOs |->
        CASE d = 1 -> {Write(0)}
          [] d = 2 -> {Write(0), Write(2), Read(0)}
          [] d = 3 -> {Write(2), Write(4), Trim(0)}
          [] OTHER -> {}]]


\* The first tree has its interior pages: drains while its pages are dirty.
Grown == [b \in 1 .. 16 |-> CASE b = 1 -> TreePage(3, 4)
                              [] b = 3 -> TreePage(5, 0)
                              [] b = 4 -> TreePage(0, 0)
                              [] OTHER -> Blank]
TreeDrains ==
    [Fresh EXCEPT !.maxDrains = 1, !.periods = 3, !.concurrent = FALSE,
     !.storage = Grown, !.stored = {3, 4, 5},
     !.requests = [d \in DataVIOs |->
        CASE d = 1 -> {Write(2)}
          [] d = 2 -> {Write(4)}
          [] d = 3 -> {Write(6)}
          [] OTHER -> {}]]

DrainsTwice == [TreeDrains EXCEPT !.maxDrains = 2, !.concurrent = TRUE, !.requests[3] = {}]

TreeErrors ==
    [Fresh EXCEPT !.errors = TRUE, !.maxDrains = 1, !.storage = Grown,
     !.stored = {3, 4, 5},
     !.requests = [d \in DataVIOs |->
        CASE d = 1 -> {Write(2), Read(2)}
          [] d = 2 -> {Write(4)}
          [] d = 3 -> {Write(2), Read(4), Trim(2)}
          [] OTHER -> {}]]

NoSpace == [Fresh EXCEPT !.free = {11}]

\* Entries that are wrong: bad ones, a page past the end of the logical space
\* (the second tree has two leaves), a block mapped twice, and a page which
\* was never written.
Corrupt ==
    [Fresh EXCEPT !.start = "rebuild", !.poolSize = 1, !.leafPages = 5,
     !.storage = [b \in 1 .. 16 |-> CASE b = 1 -> TreePage(3, 99)
                                      [] b = 2 -> TreePage(4, 6)
                                      [] b = 3 -> TreePage(7, 8)
                                      [] b = 4 -> TreePage(8, 9)
                                      [] b = 6 -> TreePage(99, 10)
                                      [] OTHER -> Blank],
     !.requests = [d \in DataVIOs |-> {}]]
Corrupt2 == [Corrupt EXCEPT !.poolSize = 2]
Damaged == [Corrupt EXCEPT !.errors = TRUE]


\* One VIO: a page waits for it while the tree is updated.
OneVIO ==
    [TreeDrains EXCEPT !.poolSize = 1, !.maxDrains = 0, !.periods = 5,
     !.concurrent = FALSE,
     !.storage = [b \in 1 .. 16 |-> CASE b = 1 -> TreePage(3, 4)
                                      [] b = 2 -> TreePage(6, 0)
                                      [] b = 3 -> TreePage(0, 0)
                                      [] b = 4 -> TreePage(0, 0)
                                      [] b = 6 -> TreePage(0, 0)
                                      [] OTHER -> Blank],
     !.stored = {3, 4, 6}, !.free = 11 .. 15,
     !.requests = [d \in DataVIOs |->
        CASE d = 1 -> {Write(0)}
          [] d = 2 -> {Write(4)}
          [] d = 3 -> {Write(1)}
          [] d = 4 -> {Write(2)}
          [] OTHER -> {Write(3)}]]

MCTreeScenarios ==
    {Fresh, TreeDrains, DrainsTwice, TreeErrors, NoSpace, Corrupt, Corrupt2, Damaged}

-----------------------------------------------------------------------------
Cached == part = "page cache"
InTrees == part = "trees"
allVars == <<part, vars>>

BlockMapInit ==
  \/ part = "page cache" /\ Init
  \/ part = "trees" /\ tree!Init

BlockMapNext ==
  \/ Cached /\ Next /\ UNCHANGED part
  \/ InTrees /\ tree!Next /\ UNCHANGED part

\* The fairness of the two modules.
BlockMapFairness ==
  /\ []<>~(Cached /\ IOPending) \/ []<><<Cached /\ IO>>_vars
  /\ []<>~(Cached /\ ContinuePending) \/ []<><<Cached /\ Continue>>_vars
  /\ []<>~(InTrees /\ tree!IOPending) \/ []<><<InTrees /\ tree!IO>>_vars
  /\ []<>~(InTrees /\ tree!AllocatePending) \/ []<><<InTrees /\ tree!Allocate>>_vars
  /\ []<>~(InTrees /\ tree!RebuildPending) \/ []<><<InTrees /\ tree!Rebuild>>_vars

BlockMapSpec == BlockMapInit /\ [][BlockMapNext]_allVars /\ BlockMapFairness

-----------------------------------------------------------------------------
\* The page cache loses no update of a mapping, and after a crash the recovery
\* journal still has those that are not on storage (VDOPageCache's
\* NoUpdateIsLost and UpdatesAreRecoverable).
LeavesAreSafe == Cached => NoUpdateIsLost /\ UpdatesAreRecoverable

\* The page cache counts its pages, waiters and journal locks exactly
\* (VDOPageCache's AccountingIsExact).
CacheIsExact == Cached => AccountingIsExact

\* When the page cache has been saved, recovered or rebuilt, nothing was left
\* out (SaveIsComplete, ReplayIsComplete).
CacheIsComplete == Cached => SaveIsComplete /\ ReplayIsComplete

\* Lookups agree on the place of a leaf, no update of a tree page is lost in a
\* crash, and a saved or rebuilt tree is whole (BlockMapTree's LookupsAgree,
\* UpdatesAreRecoverable, SaveIsComplete, TraversalIsComplete).
TreesAreSafe ==
  InTrees => /\ tree!LookupsAgree /\ tree!UpdatesAreRecoverable
             /\ tree!SaveIsComplete /\ tree!TraversalIsComplete

\* A tree page is written only after a flush that covers it, and every dirty
\* page is counted in its generation (GenerationsAreExact, WritesAreCovered).
GenerationsAreRight == InTrees => tree!GenerationsAreExact /\ tree!WritesAreCovered

\* Requests, lookups, drains, recoveries and rebuilds come to their end
\* (discardPageIfNeeded(), pageIsWrittenOut(), notifyAllWaiters(),
\* returnVIOToPool(), checkForIOComplete(), finishIfDone()).
BlockMapFinishes ==
  /\ []<>(Cached => AtRest)
  /\ []<>(InTrees => tree!AtRest)
=============================================================================
