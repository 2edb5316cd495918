---------------------------- MODULE BlockMapTree ----------------------------
(***************************************************************************)
(* The interior pages of the block map (blockMapTree.c, forest.c): DataVIOs *)
(* which look up the page of their mapping descend the tree, load its       *)
(* pages and allocate the missing ones; dirty pages are written with a pool *)
(* of VIOs (vioPool.c), each page after a flush which covers its updates;   *)
(* a read-only rebuild traverses the trees.                                 *)
(*                                                                          *)
(* The zone runs on one thread: the operators are state transformers which  *)
(* follow the calls made in one event. An update of a page is known by the  *)
(* block it allocates, since no block is allocated twice.                   *)
(***************************************************************************)
EXTENDS DirtyLists, FiniteSets

CONSTANTS
    BLOCK_MAP_TREE_HEIGHT,
    BLOCK_MAP_ENTRIES_PER_PAGE,
    rootCount,
    Generations,      \* the values of a generation: a byte in the code
    DataVIOs,
    Periods,          \* recovery journal blocks: 1 .. n
    Scenarios

VARIABLES
    scenario,         \* what the environment may do; never changes
    zone              \* the tree zone, its storage and its clients

vars == <<scenario, zone>>

Roots == 0 .. rootCount - 1
Slots == 0 .. BLOCK_MAP_ENTRIES_PER_PAGE - 1

Power(h) == BLOCK_MAP_ENTRIES_PER_PAGE ^ h

\* Below the root in memory, which only holds where the root of the tree is.
TreePages ==
    {<<r, h, i>> \in Roots \X (1 .. BLOCK_MAP_TREE_HEIGHT - 1)
                           \X (0 .. Power(BLOCK_MAP_TREE_HEIGHT - 2) - 1) :
        i < Power(BLOCK_MAP_TREE_HEIGHT - 1 - h)}

NO_PAGE == <<0, 0, 0>>
UNMAPPED == 0
BAD == 99            \* an entry no VDO writes
RootPBN(r) == r + 1
NoEntries == [s \in Slots |-> UNMAPPED]

TreePage ==
    [pbn |-> 0, entries |-> NoEntries, initialized |-> FALSE,
     recoveryLock |-> 0, generation |-> 0, writing |-> FALSE,
     writingGeneration |-> 0, writingRecoveryLock |-> 0,
     io |-> "none", buffer |-> NoEntries, preflush |-> FALSE]

Nodes == TreePages \cup
         Roots \X {0} \X (0 .. Power(BLOCK_MAP_TREE_HEIGHT - 1) - 1)

TreeLock ==
    [kind |-> "none", leaf |-> 0, height |-> 0, locked |-> FALSE,
     waiters |-> <<>>, pbn |-> 0, lock |-> 0, io |-> "none",
     status |-> "idle"]

\* The pages above a leaf: the page at a height, and the slot in it.
IndexAt(lock, height) ==
    (lock.leaf \div rootCount) \div Power(height)
SlotAt(lock, height) == IndexAt(lock, height - 1) % BLOCK_MAP_ENTRIES_PER_PAGE
getTreePage(lock, height) ==
    <<lock.leaf % rootCount, height, IndexAt(lock, height)>>

EntryOf(z, page, slot) ==
    IF page[2] = BLOCK_MAP_TREE_HEIGHT
    THEN IF slot = 0 THEN RootPBN(page[1]) ELSE UNMAPPED
    ELSE z.page[page].entries[slot]

Mapped(entries) == {entries[s] : s \in Slots} \ {UNMAPPED}
Updates(z) == UNION {Mapped(z.page[p].entries) : p \in TreePages}

isDraining(z) == z.adminState \in {"SUSPENDING", "SAVING", "RECOVERING"}

isWaiting(z, p) ==
    \/ \E k \in DOMAIN z.flushWaiters : z.flushWaiters[k] = p
    \/ \E k \in DOMAIN z.poolWaiters :
          z.poolWaiters[k].kind = "write" /\ z.poolWaiters[k].page = p

RECURSIVE poolCallback(_, _), enqueuePage(_, _), writePage(_, _),
          writeIfNotDirtied(_, _, _), writeDirtyPages(_, _),
          continueWithLoadedPage(_, _), continueLoadForWaiters(_, _),
          continueAllocationForWaiters(_, _, _), traverse(_, _)

-----------------------------------------------------------------------------
(* The pool of VIOs. A waiter runs as soon as it has a VIO. *)

isVIOPoolBusy(z) == z.busyCount # 0

acquireVIOFromPool(z, waiter) ==
    IF z.busyCount = scenario.poolSize
    THEN [z EXCEPT !.poolWaiters = Append(@, waiter)]
    ELSE poolCallback([z EXCEPT !.busyCount = @ + 1], waiter)

returnVIOToPool(z) ==
    IF z.poolWaiters = <<>> THEN [z EXCEPT !.busyCount = @ - 1]
    ELSE poolCallback([z EXCEPT !.poolWaiters = Tail(@)],
                      Head(z.poolWaiters))

-----------------------------------------------------------------------------
(* Draining and read-only mode *)

\* The page cache, external here, drains at once.
drainVDOPageCache(z) ==
    [z EXCEPT !.adminState = CASE @ = "SUSPENDING" -> "SUSPENDED"
                               [] @ = "SAVING" -> "SAVED"
                               [] OTHER -> "NORMAL"]

checkForIOComplete(z) ==
    IF /\ isDraining(z)
       /\ z.activeLookups = 0
       /\ z.flushWaiters = <<>>
       /\ ~isVIOPoolBusy(z)
    THEN drainVDOPageCache(z) ELSE z

enterZoneReadOnlyMode(z) ==
    checkForIOComplete([z EXCEPT !.readOnly = TRUE, !.flushWaiters = <<>>])

returnToPool(z) == checkForIOComplete(returnVIOToPool(z))

-----------------------------------------------------------------------------
(* Flush generations *)

inCyclicRange(lower, value, upper, modulus) ==
    (IF value < lower THEN value + modulus ELSE value)
      <= (IF upper < lower THEN upper + modulus ELSE upper)

generationIsActive(z, g) ==
    inCyclicRange(z.oldestGeneration, g, z.generation, Generations)

isNotOlder(z, a, b) == inCyclicRange(b, a, z.generation, Generations)

RECURSIVE rollOldestGeneration(_)
rollOldestGeneration(z) ==
    IF /\ z.dirtyPageCounts[z.oldestGeneration] = 0
       /\ z.oldestGeneration # z.generation
    THEN rollOldestGeneration(
           [z EXCEPT !.oldestGeneration = (@ + 1) % Generations])
    ELSE z

releaseGeneration(z, g) ==
    IF z.dirtyPageCounts[g] = 0
    THEN enterZoneReadOnlyMode([z EXCEPT !.assertionFailed = TRUE])
    ELSE rollOldestGeneration([z EXCEPT !.dirtyPageCounts[g] = @ - 1])

setGeneration(z, p, newGeneration, decrementOld) ==
    IF decrementOld /\ z.page[p].generation = newGeneration THEN z
    ELSE IF decrementOld
    THEN releaseGeneration(
           [z EXCEPT !.page[p].generation = newGeneration,
                     !.dirtyPageCounts[newGeneration] = @ + 1],
           z.page[p].generation)
    ELSE [z EXCEPT !.page[p].generation = newGeneration,
                   !.dirtyPageCounts[newGeneration] = @ + 1]

mayIncrement(z) == (z.generation + 1) % Generations # z.oldestGeneration
increment(z) == [z EXCEPT !.generation = (@ + 1) % Generations]

-----------------------------------------------------------------------------
(* Writing pages *)

releaseRecoveryJournalBlockReference(z, period) ==
    IF period = 0 THEN z ELSE [z EXCEPT !.references[period] = @ - 1]

acquireVIO(z, p) == acquireVIOFromPool(z, [kind |-> "write", page |-> p])

enqueuePage(z, p) ==
    IF z.flusher = NO_PAGE /\ mayIncrement(z)
    THEN acquireVIO([increment(z) EXCEPT !.flusher = p], p)
    ELSE [z EXCEPT !.flushWaiters = Append(@, p)]

writePageIfNotDirtied(z, p, generation) ==
    IF z.page[p].generation = generation THEN acquireVIO(z, p)
    ELSE enqueuePage(z, p)

writeIfNotDirtied(z, pages, generation) ==
    IF pages = <<>> THEN z
    ELSE writeIfNotDirtied(writePageIfNotDirtied(z, Head(pages), generation),
                           Tail(pages), generation)

\* The flusher writes with a flush before the write: it makes the journal
\* entries of all updates made so far durable.
writeInitializedPage(z, p) ==
    [z EXCEPT !.page[p].io = "write",
              !.page[p].preflush = z.flusher = p,
              !.flushing = IF z.flusher = p THEN Updates(z) ELSE @]

\* The page is copied, and its lock set aside, when its write begins. A page
\* which was never written is written twice, first without its flag.
startWrite(z, p) ==
    IF z.page[p].initialized THEN writeInitializedPage(z, p)
    ELSE [z EXCEPT !.page[p].io = "first", !.page[p].initialized = TRUE]

writePage(z, p) ==
    IF z.flusher # p /\ ~generationIsActive(z, z.page[p].generation)
    THEN returnToPool(enqueuePage(
           enterZoneReadOnlyMode([z EXCEPT !.assertionFailed = TRUE]), p))
    ELSE IF z.flusher # p /\ isNotOlder(z, z.page[p].generation, z.generation)
    THEN returnToPool(enqueuePage(z, p))
    ELSE startWrite(
           [z EXCEPT !.page[p].buffer = z.page[p].entries,
                     !.page[p].writing = TRUE,
                     !.page[p].writingGeneration = z.page[p].generation,
                     !.page[p].writingRecoveryLock = z.page[p].recoveryLock,
                     !.page[p].recoveryLock = 0],
           p)

scheduleWrite(z, p) ==
    IF z.page[p].writing THEN z ELSE enqueuePage(z, p)

\* Whatever the list expired, all in the generation at the beginning.
writeDirtyPages(z, generation) ==
    IF z.dirtyLists.expired = <<>> THEN z
    ELSE IF isWaiting(z, Head(z.dirtyLists.expired))
    THEN writeDirtyPages(enterZoneReadOnlyMode(
           [z EXCEPT !.assertionFailed = TRUE,
                     !.dirtyLists.expired = Tail(@)]), generation)
    ELSE writeDirtyPages(scheduleWrite(
           setGeneration([z EXCEPT !.dirtyLists.expired = Tail(@)],
                         Head(z.dirtyLists.expired), generation, FALSE),
           Head(z.dirtyLists.expired)), generation)

writeDirtyPagesCallback(z) == writeDirtyPages(z, z.generation)

nextFlusher(z, p, dirty) ==
    IF dirty THEN returnToPool(enqueuePage(z, p))
    ELSE IF z.flusher = NO_PAGE /\ z.flushWaiters # <<>> /\ mayIncrement(z)
    THEN writePage([increment(z) EXCEPT !.flusher = Head(z.flushWaiters),
                                        !.flushWaiters = Tail(@)],
                   Head(z.flushWaiters))
    ELSE returnToPool(z)

finishFlusher(z, p, dirty) ==
    IF dirty /\ mayIncrement(z) THEN writePage(increment(z), p)
    ELSE nextFlusher([z EXCEPT !.flusher = NO_PAGE], p, dirty)

afterPageWrite(z, p, dirty) ==
    IF z.flusher = p
    THEN finishFlusher(
           writeIfNotDirtied([z EXCEPT !.flushWaiters = <<>>],
                             z.flushWaiters, z.page[p].writingGeneration),
           p, dirty)
    ELSE nextFlusher(z, p, dirty)

finishPageWrite_keepsLock(z, p) ==
    afterPageWrite(
      [releaseGeneration(z, z.page[p].writingGeneration)
         EXCEPT !.page[p].writing = FALSE],
      p, z.page[p].writingGeneration # z.page[p].generation)

finishPageWrite(z, p) ==
    afterPageWrite(
      [releaseGeneration(
         releaseRecoveryJournalBlockReference(
           z, z.page[p].writingRecoveryLock),
         z.page[p].writingGeneration)
         EXCEPT !.page[p].writing = FALSE],
      p, z.page[p].writingGeneration # z.page[p].generation)

\* The page stays as it is: no page is written again.
handleWriteError(z, p) == returnToPool(enterZoneReadOnlyMode(z))

writeTreePage(z, p) ==
    IF isWaiting(z, p) /\ z.flusher = p THEN z
    ELSE IF isWaiting(z, p) \/ z.page[p].writing
    THEN setGeneration(z, p, z.generation, isWaiting(z, p))
    ELSE enqueuePage(setGeneration(z, p, z.generation, FALSE), p)

drainZoneTrees(z) ==
    checkForIOComplete(
      IF z.adminState = "SUSPENDING" THEN z
      ELSE writeDirtyPagesCallback(
             [z EXCEPT !.dirtyLists = flushDirtyLists(@)]))

advanceZoneTreePeriod(z, period) ==
    writeDirtyPagesCallback(
      [z EXCEPT !.dirtyLists = advancePeriod(@, period)])

-----------------------------------------------------------------------------
(* Lookups *)

finishLookup(z, d, result, pbn) ==
    [z EXCEPT !.dataVIO[d].height = 0, !.dataVIO[d].status = result,
              !.dataVIO[d].pbn = pbn, !.activeLookups = @ - 1]

\* The page below the one a DataVIO has reached.
lockKey(lock) == getTreePage(lock, lock.height - 1)

releasePageLock(z, d) ==
    [z EXCEPT !.loadingPages[lockKey(z.dataVIO[d])] = 0,
              !.dataVIO[d].locked = FALSE, !.dataVIO[d].waiters = <<>>]

abortLookupForWaiter(z, d, result) ==
    finishLookup(z, d,
      IF z.dataVIO[d].kind = "read"
      THEN IF result = "VDO_NO_SPACE" THEN "VDO_SUCCESS" ELSE result
      ELSE IF result = "VDO_NO_SPACE" THEN result ELSE "VDO_READ_ONLY",
      0)

RECURSIVE abortWaiters(_, _, _)
abortWaiters(z, waiters, result) ==
    IF waiters = <<>> THEN z
    ELSE abortWaiters(abortLookupForWaiter(z, Head(waiters), result),
                      Tail(waiters), result)

abortLookup(z, d, result) ==
    IF z.dataVIO[d].locked
    THEN finishLookup(
           abortWaiters(
             releasePageLock(IF result = "VDO_NO_SPACE" THEN z
                             ELSE enterZoneReadOnlyMode(z), d),
             z.dataVIO[d].waiters, result),
           d, result, 0)
    ELSE finishLookup(IF result = "VDO_NO_SPACE" THEN z
                      ELSE enterZoneReadOnlyMode(z), d, result, 0)

\* Someone else may be loading or allocating the page.
attemptPageLock(z, d) ==
    IF z.loadingPages[lockKey(z.dataVIO[d])] = 0
    THEN [z EXCEPT !.loadingPages[lockKey(z.dataVIO[d])] = d,
                   !.dataVIO[d].locked = TRUE]
    ELSE [z EXCEPT !.dataVIO[z.loadingPages[lockKey(z.dataVIO[d])]].waiters =
                     Append(@, d)]

loadPage(z, d) == [z EXCEPT !.dataVIO[d].io = "read"]

startLoad(z, d) ==
    IF z.dataVIO[d].locked
    THEN acquireVIOFromPool(z, [kind |-> "load", dataVIO |-> d]) ELSE z

loadBlockMapPage(z, d) == startLoad(attemptPageLock(z, d), d)

startAllocation(z, d) ==
    IF z.dataVIO[d].locked
    THEN [z EXCEPT !.dataVIO[d].status = "allocating"] ELSE z

\* A read or a trim does not allocate: its mapping does not exist.
allocateBlockMapPage(z, d) ==
    IF z.dataVIO[d].kind # "write" THEN finishLookup(z, d, "VDO_SUCCESS", 0)
    ELSE startAllocation(attemptPageLock(z, d), d)

descend(z, d, mapping) ==
    IF mapping = BAD THEN abortLookup(z, d, "VDO_BAD_MAPPING")
    ELSE IF mapping = UNMAPPED THEN allocateBlockMapPage(z, d)
    ELSE IF z.dataVIO[d].height = 1
    THEN finishLookup(z, d, "VDO_SUCCESS", mapping)
    ELSE loadBlockMapPage([z EXCEPT !.dataVIO[d].pbn = mapping], d)

continueWithLoadedPage(z, d) ==
    descend(z, d, EntryOf(z, getTreePage(z.dataVIO[d], z.dataVIO[d].height),
                          SlotAt(z.dataVIO[d], z.dataVIO[d].height)))

continueLoadForWaiters(z, waiters) ==
    IF waiters = <<>> THEN z
    ELSE continueLoadForWaiters(
           continueWithLoadedPage(
             [z EXCEPT !.dataVIO[Head(waiters)].height = @ - 1],
             Head(waiters)),
           Tail(waiters))

copyValidPage(page, pbn, stored) ==
    IF stored.initialized
    THEN [page EXCEPT !.pbn = pbn, !.entries = stored.entries,
                      !.initialized = TRUE]
    ELSE [page EXCEPT !.pbn = pbn, !.entries = NoEntries,
                      !.initialized = FALSE]

finishBlockMapPageLoad(z, d) ==
    continueWithLoadedPage(
      continueLoadForWaiters(
        [releasePageLock(
           returnVIOToPool(
             [z EXCEPT !.dataVIO[d].io = "none",
                       !.page[lockKey(z.dataVIO[d])] =
                          copyValidPage(@, z.dataVIO[d].pbn,
                                        z.storage[z.dataVIO[d].pbn])]),
           d) EXCEPT !.dataVIO[d].height = @ - 1],
        z.dataVIO[d].waiters),
      d)

handleIOError(z, d) ==
    abortLookup(returnVIOToPool([z EXCEPT !.dataVIO[d].io = "none"]), d, "EIO")

continueAllocation(z, d, pbn) ==
    IF z.dataVIO[d].height = 0 THEN finishLookup(z, d, "VDO_SUCCESS", pbn)
    ELSE allocateBlockMapPage(z, d)

continueAllocationForWaiters(z, waiters, pbn) ==
    IF waiters = <<>> THEN z
    ELSE continueAllocationForWaiters(
           continueAllocation(
             [z EXCEPT !.dataVIO[Head(waiters)].height = @ - 1],
             Head(waiters), pbn),
           Tail(waiters), pbn)

updateEntry(z, p, d) ==
    [z EXCEPT !.page[p].entries[SlotAt(z.dataVIO[d], z.dataVIO[d].height)] =
                 z.dataVIO[d].pbn,
              !.made[z.dataVIO[d].pbn] = z.dataVIO[d].lock]

\* The page keeps the lower of its own lock and the lock of the new entry.
updateBlockMapPage(z, p, d) ==
    IF z.page[p].recoveryLock # 0 /\ z.page[p].recoveryLock <= z.dataVIO[d].lock
    THEN updateEntry(z, p, d)
    ELSE releaseRecoveryJournalBlockReference(
           [updateEntry(z, p, d) EXCEPT
              !.references[z.dataVIO[d].lock] = @ + 1,
              !.page[p].recoveryLock = z.dataVIO[d].lock],
           z.page[p].recoveryLock)

\* A page which waits for the outstanding flush needs another one.
recordAllocation_covered(z, p, oldLock) ==
    IF isWaiting(z, p) THEN z
    ELSE writeDirtyPagesCallback(
           [z EXCEPT !.dirtyLists = addToDirtyLists(@, p, oldLock,
                                               z.page[p].recoveryLock)])

recordAllocation(z, p, oldLock) ==
    IF isWaiting(z, p)
    THEN IF z.flusher = p THEN z ELSE setGeneration(z, p, z.generation, TRUE)
    ELSE writeDirtyPagesCallback(
           [z EXCEPT !.dirtyLists = addToDirtyLists(@, p, oldLock,
                                               z.page[p].recoveryLock)])

formatChild(z, d) ==
    IF z.dataVIO[d].height = 1 THEN z
    ELSE [z EXCEPT !.page[lockKey(z.dataVIO[d])] =
             [@ EXCEPT !.pbn = z.dataVIO[d].pbn, !.entries = NoEntries,
                       !.initialized = FALSE]]

lockedPage(z, d) == getTreePage(z.dataVIO[d], z.dataVIO[d].height)

finishBlockMapAllocation(z, d) ==
    continueAllocation(
      continueAllocationForWaiters(
        [releasePageLock(
           formatChild(
             recordAllocation(
               updateBlockMapPage(z, lockedPage(z, d), d), lockedPage(z, d),
               z.page[lockedPage(z, d)].recoveryLock),
             d),
           d) EXCEPT !.dataVIO[d].height = @ - 1],
        z.dataVIO[d].waiters, z.dataVIO[d].pbn),
      d, z.dataVIO[d].pbn)

findBlockMapPagePBN(z, leaf) ==
    IF z.page[getTreePage([leaf |-> leaf], 1)].initialized
    THEN z.page[getTreePage([leaf |-> leaf], 1)].entries[
            SlotAt([leaf |-> leaf], 1)]
    ELSE UNMAPPED

-----------------------------------------------------------------------------
(* The traversal of the trees by a rebuild (forest.c). Every entry of a     *)
(* page is checked and counted; an entry which cannot be right, or lies     *)
(* past the end of the logical space, is erased.                            *)

Cursor ==
    [height |-> BLOCK_MAP_TREE_HEIGHT, io |-> "none", pbn |-> 0,
     levels |-> [h \in 1 .. BLOCK_MAP_TREE_HEIGHT |->
                   [pageIndex |-> 0, slot |-> 0]]]

computeBucketCount(objects, size) == (objects + size - 1) \div size

RECURSIVE bucketsAt(_, _)
bucketsAt(levelPages, height) ==
    IF height = 1 THEN levelPages
    ELSE bucketsAt(computeBucketCount(levelPages, BLOCK_MAP_ENTRIES_PER_PAGE),
                   height - 1)

\* How many entries the pages at a height of a tree may have: the leaf pages
\* are dealt out to the roots in turn.
computeBoundary(r, height) ==
    IF height = BLOCK_MAP_TREE_HEIGHT THEN 1
    ELSE bucketsAt(
           scenario.leafPages \div rootCount
             + (IF inCyclicRange(0, r, (scenario.leafPages - 1)
                                          % rootCount,
                                 rootCount)
                THEN 1 ELSE 0),
           height)

finishCursor(z) ==
    [returnVIOToPool(z) EXCEPT
       !.activeRoots = @ - 1,
       !.phase = IF z.activeRoots = 1 THEN "traversed" ELSE @]

\* The page, and the slot in it, that a cursor is at.
level(cursor) == cursor.levels[cursor.height]
cursorPage(r, cursor) == <<r, cursor.height, level(cursor).pageIndex>>
entryIndex(cursor) ==
    BLOCK_MAP_ENTRIES_PER_PAGE * level(cursor).pageIndex + level(cursor).slot

nextSlot(z, r) ==
    [z EXCEPT !.cursor[r].levels[z.cursor[r].height].slot = @ + 1]

erase(z, p, slot) ==
    writeTreePage([z EXCEPT !.page[p].entries[slot] = UNMAPPED,
                            !.erased = @ \cup {z.page[p].entries[slot]}], p)

\* The entry callback: a block which is no data block, or already counted,
\* is an error.
processEntry(z, pbn) == pbn \notin z.counted

descendCursor(z, r, pbn) ==
    [nextSlot(z, r) EXCEPT
       !.cursor[r].height = @ - 1,
       !.cursor[r].levels[z.cursor[r].height - 1] =
          [pageIndex |-> entryIndex(z.cursor[r]), slot |-> 0],
       !.cursor[r].io = "read", !.cursor[r].pbn = pbn]

visitEntry(z, r, cursor, pbn) ==
    IF pbn = UNMAPPED THEN traverse(nextSlot(z, r), r)
    ELSE IF \/ pbn = BAD
            \/ entryIndex(cursor) >= computeBoundary(r, cursor.height)
            \/ /\ cursor.height < BLOCK_MAP_TREE_HEIGHT
               /\ ~processEntry(z, pbn)
    THEN traverse(nextSlot(erase(z, cursorPage(r, cursor),
                                 level(cursor).slot), r), r)
    ELSE IF cursor.height = 1
    THEN traverse(nextSlot([z EXCEPT !.counted = @ \cup {pbn}], r), r)
    ELSE descendCursor(IF cursor.height = BLOCK_MAP_TREE_HEIGHT THEN z
                       ELSE [z EXCEPT !.counted = @ \cup {pbn}], r, pbn)

cursorPageIsInitialized(z, r, cursor) ==
    \/ cursor.height = BLOCK_MAP_TREE_HEIGHT
    \/ z.page[cursorPage(r, cursor)].initialized

traverse(z, r) ==
    IF z.cursor[r].height > BLOCK_MAP_TREE_HEIGHT THEN finishCursor(z)
    ELSE IF \/ ~cursorPageIsInitialized(z, r, z.cursor[r])
            \/ level(z.cursor[r]).slot = BLOCK_MAP_ENTRIES_PER_PAGE
    THEN traverse([z EXCEPT !.cursor[r].height = @ + 1], r)
    ELSE visitEntry(z, r, z.cursor[r],
                    EntryOf(z, cursorPage(r, z.cursor[r]),
                            level(z.cursor[r]).slot))

launchCursor(z, r) == traverse(z, r)

\* A page which is not valid is left as it is in memory: empty.
finishTraversalLoad(z, r, stored) ==
    traverse(
      [z EXCEPT
         !.cursor[r].io = "none",
         !.page[cursorPage(r, z.cursor[r])] =
            IF stored.initialized
            THEN copyValidPage(@, z.cursor[r].pbn, stored) ELSE @],
      r)

continueTraversal(z, r) == traverse([z EXCEPT !.cursor[r].io = "none"], r)

RECURSIVE launchCursors(_, _)
launchCursors(z, r) ==
    IF r = rootCount THEN z
    ELSE launchCursors(
           acquireVIOFromPool(z, [kind |-> "cursor", root |-> r]), r + 1)

traverseForest(z) ==
    launchCursors([z EXCEPT !.phase = "traversing",
                            !.activeRoots = rootCount], 0)

poolCallback(z, waiter) ==
    CASE waiter.kind = "write" -> writePage(z, waiter.page)
      [] waiter.kind = "load" -> loadPage(z, waiter.dataVIO)
      [] waiter.kind = "cursor" -> launchCursor(z, waiter.root)

-----------------------------------------------------------------------------
(* The specification *)

PBNs == DOMAIN scenario.storage

initialZone ==
    [page |-> [p \in TreePages |-> TreePage],
     generation |-> 0, oldestGeneration |-> 0,
     dirtyPageCounts |-> [g \in 0 .. Generations - 1 |-> 0],
     flusher |-> NO_PAGE, flushWaiters |-> <<>>,
     busyCount |-> 0, poolWaiters |-> <<>>,
     dirtyLists |-> setCurrentPeriod(makeDirtyLists, 1),
     loadingPages |-> [n \in Nodes |-> 0], activeLookups |-> 0,
     dataVIO |-> [d \in DataVIOs |-> TreeLock],
     cursor |-> [r \in Roots |-> Cursor], activeRoots |-> 0,
     counted |-> {}, erased |-> {},
     adminState |-> "NORMAL", drains |-> 0, readOnly |-> FALSE,
     assertionFailed |-> FALSE,
     phase |-> scenario.start,
     storage |-> scenario.storage, allocated |-> {},
     references |-> [p \in Periods |-> 0], period |-> 1,
     made |-> [b \in PBNs |-> 0], flushing |-> {}, flushed |-> scenario.stored]

Init ==
    /\ scenario \in Scenarios
    /\ zone = initialZone

LookupStates == {"lookup", "allocating", "journaling", "counting"}

\* The DataVIOs come in order: the request of each is chosen from its own set.
lookupBlockMapPBN(d) ==
    /\ zone.phase = "online"
    /\ zone.adminState \notin {"SUSPENDED", "SAVED"}
    /\ zone.dataVIO[d].status = "idle"
    /\ \A e \in DataVIOs : e < d =>
          IF scenario.concurrent THEN zone.dataVIO[e].status # "idle"
          ELSE zone.dataVIO[e].status \notin LookupStates \cup {"idle"}
    /\ \E request \in scenario.requests[d] :
         zone' =
           IF isDraining(zone)
           THEN [zone EXCEPT !.dataVIO[d].status = "VDO_SHUTTING_DOWN"]
           ELSE continueWithLoadedPage(
                  [zone EXCEPT
                     !.activeLookups = @ + 1,
                     !.dataVIO[d] =
                       [TreeLock EXCEPT
                          !.kind = request.kind, !.leaf = request.leaf,
                          !.status = "lookup",
                          !.height = CHOOSE h \in 1 .. BLOCK_MAP_TREE_HEIGHT :
                            /\ \/ h = BLOCK_MAP_TREE_HEIGHT
                               \/ zone.page[getTreePage(request, h)].pbn # 0
                            /\ \A l \in 1 .. h - 1 :
                                  zone.page[getTreePage(request, l)].pbn = 0]],
                  d)
    /\ UNCHANGED scenario

finishLoad(d) ==
    /\ zone.dataVIO[d].io = "read"
    /\ zone' = finishBlockMapPageLoad(zone, d)
    /\ UNCHANGED scenario

failLoad(d) ==
    /\ scenario.errors
    /\ zone.dataVIO[d].io = "read"
    /\ zone' = handleIOError(zone, d)
    /\ UNCHANGED scenario

\* The allocator has a block, or none is left.
continueBlockMapPageAllocation(d) ==
    /\ zone.dataVIO[d].status = "allocating"
    /\ IF scenario.free \subseteq zone.allocated
       THEN zone' = abortLookup(zone, d, "VDO_NO_SPACE")
       ELSE \E pbn \in scenario.free \ zone.allocated :
              /\ \A b \in scenario.free \ zone.allocated : pbn <= b
              /\ zone' = [zone EXCEPT !.allocated = @ \cup {pbn},
                                      !.dataVIO[d].pbn = pbn,
                                      !.dataVIO[d].status = "journaling"]
    /\ UNCHANGED scenario

journalBlockMapAllocation(d) ==
    /\ zone.dataVIO[d].status = "journaling"
    /\ zone' = IF zone.readOnly THEN abortLookup(zone, d, "VDO_READ_ONLY")
               ELSE [zone EXCEPT !.dataVIO[d].lock = zone.period,
                                 !.dataVIO[d].status = "counting"]
    /\ UNCHANGED scenario

\* The reference count is set, the write lock released, and the DataVIO back
\* in its logical zone.
setBlockMapPageReferenceCount(d) ==
    /\ zone.dataVIO[d].status = "counting"
    /\ zone' = IF zone.readOnly THEN abortLookup(zone, d, "VDO_READ_ONLY")
               ELSE finishBlockMapAllocation(
                      [zone EXCEPT !.dataVIO[d].status = "lookup"], d)
    /\ UNCHANGED scenario

finishFirstWrite(p) ==
    /\ zone.page[p].io = "first"
    /\ zone' = writeInitializedPage(
                 [zone EXCEPT !.storage[zone.page[p].pbn] =
                    [initialized |-> FALSE, entries |-> zone.page[p].buffer]],
                 p)
    /\ UNCHANGED scenario

finishWrite(p) ==
    /\ zone.page[p].io = "write"
    /\ zone' = finishPageWrite(
                 [zone EXCEPT
                    !.storage[zone.page[p].pbn] =
                      [initialized |-> TRUE, entries |-> zone.page[p].buffer],
                    !.flushed = IF zone.page[p].preflush
                                THEN @ \cup zone.flushing ELSE @,
                    !.page[p].io = "none"],
                 p)
    /\ UNCHANGED scenario

failWrite(p) ==
    /\ scenario.errors
    /\ zone.page[p].io # "none"
    /\ zone' = handleWriteError([zone EXCEPT !.page[p].io = "none"], p)
    /\ UNCHANGED scenario

\* The journal goes on to its next block, and the zone hears of it.
advanceEra ==
    /\ zone.phase = "online" /\ zone.adminState = "NORMAL"
    /\ zone.period < scenario.periods
    /\ zone' = advanceZoneTreePeriod([zone EXCEPT !.period = @ + 1],
                                     zone.period + 1)
    /\ UNCHANGED scenario

\* The DataVIOs of the zone have drained by then.
drainZone(operation) ==
    /\ zone.phase = "online" /\ zone.adminState = "NORMAL"
    /\ zone.activeLookups = 0
    /\ zone.drains < scenario.maxDrains
    /\ zone' = drainZoneTrees([zone EXCEPT !.adminState = operation,
                                           !.drains = @ + 1])
    /\ UNCHANGED scenario

resumeBlockMapZone ==
    /\ zone.adminState \in {"SUSPENDED", "SAVED"} /\ ~zone.readOnly
    /\ zone' = [zone EXCEPT !.adminState = "NORMAL"]
    /\ UNCHANGED scenario

rebuildReferenceCounts ==
    /\ zone.phase = "rebuild"
    /\ zone' = traverseForest(zone)
    /\ UNCHANGED scenario

finishCursorRead(r) ==
    /\ zone.cursor[r].io = "read"
    /\ \/ zone' = finishTraversalLoad(zone, r,
                                      zone.storage[zone.cursor[r].pbn])
       \/ scenario.errors /\ zone' = continueTraversal(zone, r)
    /\ UNCHANGED scenario

flushBlockMapUpdates ==
    /\ zone.phase = "traversed"
    /\ zone' = drainZoneTrees([zone EXCEPT !.adminState = "RECOVERING",
                                           !.phase = "draining"])
    /\ UNCHANGED scenario

finishRebuild ==
    /\ zone.phase = "draining" /\ ~isDraining(zone)
    /\ zone' = [zone EXCEPT !.phase = "online"]
    /\ UNCHANGED scenario

IO ==
    \/ \E d \in DataVIOs : finishLoad(d)
    \/ \E p \in TreePages : finishFirstWrite(p) \/ finishWrite(p)
    \/ \E r \in Roots : finishCursorRead(r)

Allocate ==
    \E d \in DataVIOs : \/ continueBlockMapPageAllocation(d)
                        \/ journalBlockMapAllocation(d)
                        \/ setBlockMapPageReferenceCount(d)

Rebuild == rebuildReferenceCounts \/ flushBlockMapUpdates \/ finishRebuild

Next ==
    \/ \E d \in DataVIOs : lookupBlockMapPBN(d) \/ failLoad(d)
    \/ \E p \in TreePages : failWrite(p)
    \/ advanceEra
    \/ \E operation \in {"SUSPENDING", "SAVING"} : drainZone(operation)
    \/ resumeBlockMapZone
    \/ IO \/ Allocate \/ Rebuild

IOPending ==
    \/ \E d \in DataVIOs : zone.dataVIO[d].io # "none"
    \/ \E p \in TreePages : zone.page[p].io # "none"
    \/ \E r \in Roots : zone.cursor[r].io # "none"
AllocatePending ==
    \E d \in DataVIOs :
       zone.dataVIO[d].status \in {"allocating", "journaling", "counting"}
RebuildPending ==
    \/ zone.phase \in {"rebuild", "traversed"}
    \/ zone.phase = "draining" /\ ~isDraining(zone)

\* The storage, the threads of an allocation and the rebuild go on. Every
\* such step changes the state: this is weak fairness of each, with what
\* enables it spelled out.
Fairness ==
    /\ []<>~IOPending \/ []<><<IO>>_vars
    /\ []<>~AllocatePending \/ []<><<Allocate>>_vars
    /\ []<>~RebuildPending \/ []<><<Rebuild>>_vars

Spec == Init /\ [][Next]_vars /\ Fairness

-----------------------------------------------------------------------------
(* Properties *)

Succeeded(d) == zone.dataVIO[d].status = "VDO_SUCCESS"
Parent(p) == <<p[1], p[2] + 1, p[3] \div BLOCK_MAP_ENTRIES_PER_PAGE>>

\* DataVIOs which look for the same missing page agree on one allocation
\* (attemptPageLock(), continueAllocationForWaiter()): no block is mapped in
\* two places, a page in memory is the one its parent maps, and a lookup that
\* succeeded, for a write always with a page, has what the tree maps.
LookupsAgree ==
    zone.phase = "online" =>
      /\ \A p, q \in TreePages : \A s, t \in Slots :
            /\ zone.page[p].entries[s] \notin {UNMAPPED, BAD}
            /\ zone.page[p].entries[s] = zone.page[q].entries[t]
            => p = q /\ s = t
      /\ \A p \in TreePages : zone.page[p].pbn # 0 =>
            zone.page[p].pbn = EntryOf(zone, Parent(p), p[3] % BLOCK_MAP_ENTRIES_PER_PAGE)
      /\ \A d \in DataVIOs : Succeeded(d) =>
            IF zone.dataVIO[d].kind = "write"
            THEN /\ zone.dataVIO[d].pbn # UNMAPPED
                 /\ zone.dataVIO[d].pbn =
                      findBlockMapPagePBN(
                        [zone EXCEPT !.page[getTreePage(zone.dataVIO[d], 1)]
                                       .initialized = TRUE],
                        zone.dataVIO[d].leaf)
            ELSE zone.dataVIO[d].pbn \in
                   {UNMAPPED, EntryOf(zone, getTreePage(zone.dataVIO[d], 1),
                                      SlotAt(zone.dataVIO[d], 1))}

NeedsWriting(p) ==
    \/ isWaiting(zone, p)
    \/ /\ zone.page[p].writing
       /\ zone.page[p].generation # zone.page[p].writingGeneration

\* The count of a generation is the number of pages that wait to be written
\* or are being written in it, so that the oldest generation rolls on
\* (setGeneration(), releaseGeneration()), and none of the zone's assertions
\* about generations and waiters fails.
GenerationsAreExact ==
    /\ ~zone.assertionFailed
    /\ ~zone.readOnly => \A g \in 0 .. Generations - 1 :
         zone.dirtyPageCounts[g] =
           Cardinality({p \in TreePages : /\ NeedsWriting(p)
                                          /\ zone.page[p].generation = g})
           + Cardinality({p \in TreePages :
                            /\ zone.page[p].writing
                            /\ zone.page[p].writingGeneration = g})

\* A page is written only with updates whose journal entries a flush has made
\* durable: "Write out a dirty page if it is still covered by the most recent
\* flush or if it is the flusher" (writePageCallback()).
WritesAreCovered ==
    \A p \in TreePages : zone.page[p].io = "write" =>
       Mapped(zone.page[p].buffer) \subseteq
          zone.flushed \cup {BAD}
            \cup (IF zone.page[p].preflush THEN zone.flushing ELSE {})

Stored(p) ==
    IF zone.page[p].pbn # 0 /\ zone.storage[zone.page[p].pbn].initialized
    THEN zone.storage[zone.page[p].pbn].entries ELSE NoEntries

\* An update which is not on storage is covered by a reference to its block
\* of the journal, or to an older one, that the page holds, also while the
\* page is being written and updated again (updateBlockMapPage(),
\* writePage(), finishPageWrite()); and no page holds on to more.
UpdatesAreRecoverable ==
    /\ \A p \in TreePages :
         \A pbn \in Mapped(zone.page[p].entries) \cap zone.allocated :
            \/ pbn \in Mapped(Stored(p))
            \/ zone.page[p].recoveryLock \in 1 .. zone.made[pbn]
            \/ /\ zone.page[p].writing
               /\ zone.page[p].writingRecoveryLock \in 1 .. zone.made[pbn]
               /\ pbn \in Mapped(zone.page[p].buffer)
    /\ \A period \in Periods :
         zone.references[period] =
           Cardinality({p \in TreePages : zone.page[p].recoveryLock = period})
           + Cardinality({p \in TreePages :
                            /\ zone.page[p].writing
                            /\ zone.page[p].writingRecoveryLock = period})

\* A zone which has drained has no tree I/O, and one which was saved has its
\* pages on storage (drainZoneTrees(), checkForIOComplete()).
SaveIsComplete ==
    /\ zone.adminState \in {"SUSPENDED", "SAVED"} =>
         /\ ~IOPending
         /\ zone.flushWaiters = <<>> /\ zone.poolWaiters = <<>>
    /\ ~zone.readOnly /\ zone.adminState = "SAVED" =>
         \A p \in TreePages : Stored(p) = zone.page[p].entries

RECURSIVE Reachable(_, _)
Reachable(p, pbn) ==
    IF p[2] = 0 \/ ~scenario.storage[pbn].initialized THEN {}
    ELSE UNION {{<<p, s>>} \cup
                Reachable(<<p[1], p[2] - 1, BLOCK_MAP_ENTRIES_PER_PAGE * p[3] + s>>,
                          scenario.storage[pbn].entries[s]) :
                  s \in {t \in Slots :
                     /\ scenario.storage[pbn].entries[t] \notin {UNMAPPED, BAD}
                     /\ BLOCK_MAP_ENTRIES_PER_PAGE * p[3] + t
                          < computeBoundary(p[1], p[2])}}

\* A rebuild counts every entry it can reach, once, and leaves no other, and
\* none past the end of the logical space, on storage (traverse(),
\* computeBoundary(), processEntry(), writeTreePage()).
TraversalIsComplete ==
    scenario.start = "rebuild" /\ zone.phase = "online" /\ ~zone.readOnly =>
      /\ zone.counted = Updates(zone)
      /\ \A p \in TreePages, s \in Slots : zone.page[p].entries[s] # UNMAPPED =>
            BLOCK_MAP_ENTRIES_PER_PAGE * p[3] + s < computeBoundary(p[1], p[2])
      /\ \A p \in TreePages : Stored(p) = zone.page[p].entries
      /\ ~scenario.errors =>
           \A r \in Roots :
             \A e \in Reachable(<<r, BLOCK_MAP_TREE_HEIGHT - 1, 0>>, RootPBN(r)) :
               \/ zone.page[e[1]].entries[e[2]] # UNMAPPED
               \/ zone.erased \cap zone.counted # {}

LookingUp(d) == zone.dataVIO[d].status \in LookupStates

\* No lookup, drain or rebuild is under way.
AtRest ==
    /\ \A d \in DataVIOs : ~LookingUp(d)
    /\ ~isDraining(zone)
    /\ zone.phase = "online"

\* Every lookup, every drain and every rebuild comes to its end
\* (notifyAllWaiters() after each load and allocation, returnVIOToPool(),
\* checkForIOComplete()).
EverythingFinishes ==
    []<>AtRest
=============================================================================
