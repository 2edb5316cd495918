---------------------------- MODULE VDOPageCache ----------------------------
(***************************************************************************)
(* The leaf pages of a block map zone: the VDO page cache (vdoPageCache.c) *)
(* with its clients, the mapping reads and updates of DataVIOs             *)
(* (blockMap.c, blockMapPage.c), the replay of the recovery journal into   *)
(* the block map (blockMapRecovery.c) and the rebuild of the reference     *)
(* counts from it (referenceCountRebuild.c, readOnlyRebuild.c).            *)
(*                                                                         *)
(* All of this runs on one thread. A completion whose callback belongs to  *)
(* that thread is called at once, so that a client runs inside the cache   *)
(* operation which finishes its request, and calls the cache again from    *)
(* there: the operators below are state transformers which follow these    *)
(* calls, and an action is one event on the thread: a request, the end of  *)
(* an I/O, a new era of the journal, a drain.                              *)
(*                                                                         *)
(* The contents of a page is the set of the updates it holds: every update *)
(* has a slot of its own.                                                  *)
(***************************************************************************)
EXTENDS DirtyLists, FiniteSets

CONSTANTS
    DataVIOs,         \* the reads and updates of mappings (numbers)
    Periods,          \* recovery journal blocks: 1 .. n
    MAXIMUM_SIMULTANEOUS_BLOCK_MAP_RESTORATION_READS,
    Scenarios

VARIABLES
    scenario,         \* what the environment may do; never changes
    zone              \* the block map zone, its storage and its clients

vars == <<scenario, zone>>

NO_PAGE == 0

\* The pages of memory in the cache, and the leaf pages of the zone.
pageCount == scenario.pageCount
Leaves == 1 .. scenario.leafPages
Infos == 1 .. pageCount

\* makeRecoveryCompletion() and makeRebuildCompletion() both use half of the
\* cache at most. Their page completions are numbered from 101.
recoveryPageCount ==
    IF pageCount \div 2 < MAXIMUM_SIMULTANEOUS_BLOCK_MAP_RESTORATION_READS
    THEN pageCount \div 2
    ELSE MAXIMUM_SIMULTANEOUS_BLOCK_MAP_RESTORATION_READS
RecoveryCompletions == 101 .. 100 + recoveryPageCount
Completions == DataVIOs \cup RecoveryCompletions

PageInfo ==
    [state |-> "FREE", pbn |-> NO_PAGE, busy |-> 0, writeStatus |-> "NORMAL",
     waiting |-> <<>>, updates |-> {}, initialized |-> FALSE,
     recoveryLock |-> 0, io |-> "none"]

VDOPageCompletion ==
    [kind |-> "none", pbn |-> NO_PAGE, writable |-> FALSE, ready |-> FALSE,
     info |-> 0, lock |-> 0, status |-> "idle"]

isInFlight(info) == info.state \in {"INCOMING", "OUTGOING"}
isPresent(info) == info.state \in {"RESIDENT", "DIRTY"}
isValid(info) == isPresent(info) \/ info.state = "OUTGOING"

isDraining(z) == z.adminState \in {"SUSPENDING", "SAVING", "RECOVERING"}

\* The updates that a page on storage holds: validatePageOnRead() formats a
\* page which was never written with its initialized flag.
Stored(z, pbn) ==
    IF z.storage[pbn].state = "valid" THEN z.storage[pbn].updates ELSE {}

-----------------------------------------------------------------------------
(* Pages and lists *)

updateLru(z, i) == [z EXCEPT !.lruList = Append(Without(@, i), i)]

setInfoState(z, i, newState) ==
    IF z.info[i].state = newState THEN z
    ELSE IF newState = "DIRTY" THEN [z EXCEPT !.info[i].state = newState]
    ELSE [z EXCEPT
           !.info[i].state = newState,
           !.freeList = IF newState \in {"FREE", "FAILED"}
                        THEN Append(Without(@, i), i) ELSE Without(@, i),
           !.outgoingList = IF newState = "OUTGOING"
                            THEN Append(Without(@, i), i) ELSE Without(@, i),
           !.dirtyLists = unsplice(@, i)]

setInfoPBN(z, i, pbn) ==
    [z EXCEPT !.info[i].pbn = pbn,
              !.pageMap[z.info[i].pbn] = 0,
              !.pageMap[pbn] = IF pbn = NO_PAGE THEN 0 ELSE i]

resetPageInfo(z, i) ==
    [setInfoState(setInfoPBN(z, i, NO_PAGE), i, "FREE")
        EXCEPT !.lruList = Without(@, i)]

vpcFindPage(z, pbn) ==
    IF z.lastFound # 0 /\ z.info[z.lastFound].pbn = pbn
    THEN z.lastFound ELSE z.pageMap[pbn]

selectLRUPage(z) ==
    SelectSeq(z.lruList, LAMBDA i : z.info[i].busy = 0 /\ ~isInFlight(z.info[i]))

launchPageLoad(z, i, pbn) ==
    [setInfoState(setInfoPBN(z, i, pbn), i, "INCOMING")
        EXCEPT !.outstandingReads = @ + 1, !.info[i].io = "read"]

schedulePageSave_busy(z, i) ==
    setInfoState([z EXCEPT !.pagesToFlush = @ + 1,
                           !.outstandingWrites = @ + 1], i, "OUTGOING")

schedulePageSave(z, i) ==
    IF z.info[i].busy > 0
    THEN [z EXCEPT !.info[i].writeStatus = "DEFERRED"]
    ELSE setInfoState([z EXCEPT !.pagesToFlush = @ + 1,
                                !.outstandingWrites = @ + 1], i, "OUTGOING")

\* The zone has drained once its cache has no I/O of its own.
finishDrainingWithResult(z, result) ==
    IF ~isDraining(z) THEN z
    ELSE [z EXCEPT
           !.adminState = CASE @ = "SUSPENDING" -> "SUSPENDED"
                            [] @ = "SAVING" -> "SAVED"
                            [] OTHER -> "NORMAL",
           !.drained = [operation |-> z.adminState, result |-> result,
                        treeActive |-> z.treeActive]]

checkForIOComplete(z) ==
    IF z.outstandingReads + z.outstandingWrites = 0
    THEN finishDrainingWithResult(z, IF z.readOnly THEN "VDO_READ_ONLY"
                                     ELSE "VDO_SUCCESS")
    ELSE z

-----------------------------------------------------------------------------
(* The journal references of a page *)

acquireRecoveryJournalBlockReference(z, period) ==
    [z EXCEPT !.references[period] = @ + 1]

releaseRecoveryJournalBlockReference(z, period) ==
    IF period = 0 THEN z ELSE [z EXCEPT !.references[period] = @ - 1]

updateBlockMapPage_newestLock(z, i, c) ==
    releaseRecoveryJournalBlockReference(
      acquireRecoveryJournalBlockReference(
        [z EXCEPT !.info[i].updates = @ \cup {c},
                  !.info[i].recoveryLock = z.completion[c].lock,
                  !.applied[z.info[i].pbn] = @ \cup {c},
                  !.completion[c].lock = 0,
                  !.made[c] = z.completion[c].lock],
        z.completion[c].lock),
      z.info[i].recoveryLock)

\* The page keeps the lower of its own lock and the lock of the new entry.
updateBlockMapPage(z, i, c) ==
    IF /\ z.info[i].recoveryLock # 0
       /\ z.info[i].recoveryLock <= z.completion[c].lock
    THEN [z EXCEPT !.info[i].updates = @ \cup {c},
                   !.applied[z.info[i].pbn] = @ \cup {c},
                   !.completion[c].lock = 0,
                   !.made[c] = z.completion[c].lock]
    ELSE updateBlockMapPage_newestLock(z, i, c)

-----------------------------------------------------------------------------
(* Requests, and the events they cause. The callback of a page completion  *)
(* is called at once.                                                      *)

RECURSIVE finishPageCompletion(_, _, _), getVDOPageAsync(_, _),
          discardAPage(_), savePages(_), completeWaiterWithPage(_, _, _),
          completeWaiterWithError(_, _, _), writeEach(_, _),
          recoverReadyPages(_, _), recoverWhileReady(_, _),
          fetchRebuildPage(_, _), distributeErrors(_, _, _)

completeWithPage(z, i, c) ==
    IF IF z.completion[c].writable THEN isPresent(z.info[i])
       ELSE isValid(z.info[i])
    THEN finishPageCompletion(
           [z EXCEPT !.completion[c].ready = TRUE, !.completion[c].info = i],
           c, "VDO_SUCCESS")
    ELSE finishPageCompletion(z, c, "VDO_BAD_PAGE")

completeWaiterWithPage(z, i, queue) ==
    IF queue = <<>> THEN z
    ELSE completeWaiterWithPage(completeWithPage(z, i, Head(queue)), i,
                                Tail(queue))

\* The page is busy for every waiter before the first of them runs.
distributePageOverQueue(z, i) ==
    completeWaiterWithPage(
      [updateLru(z, i) EXCEPT !.info[i].busy = @ + Len(z.info[i].waiting),
                              !.info[i].waiting = <<>>],
      i, z.info[i].waiting)

completeWaiterWithError(z, queue, result) ==
    IF queue = <<>> THEN z
    ELSE completeWaiterWithError(finishPageCompletion(z, Head(queue), result),
                                 Tail(queue), result)

distributeErrorOverQueue(z, i, result) ==
    completeWaiterWithError([z EXCEPT !.info[i].waiting = <<>>],
                            z.info[i].waiting, result)

distributeErrors(z, i, result) ==
    IF i > pageCount THEN z
    ELSE distributeErrors(distributeErrorOverQueue(z, i, result), i + 1,
                          result)

setPersistentError(z, result) ==
    distributeErrors(
      [completeWaiterWithError([z EXCEPT !.readOnly = TRUE,
                                         !.freeWaiters = <<>>],
                               z.freeWaiters, result)
          EXCEPT !.waiterCount = 0],
      1, result)

matching(z, pbn) ==
    SelectSeq(z.freeWaiters, LAMBDA c : z.completion[c].pbn = pbn)

loadForWaiters(z, i, pbn) ==
    launchPageLoad([z EXCEPT
                     !.info[i].waiting = matching(z, pbn),
                     !.waiterCount = @ - Len(matching(z, pbn)),
                     !.freeWaiters =
                        SelectSeq(@, LAMBDA c : z.completion[c].pbn # pbn)],
                   i, pbn)

\* The page goes to the first waiter, and to the others for the same page.
allocateFreePage(z, i) ==
    IF z.freeWaiters = <<>> THEN z
    ELSE IF z.info[i].busy # 0 \/ z.info[i].waiting # <<>>
    THEN setPersistentError(z, "UDS_ASSERTION_FAILED")
    ELSE loadForWaiters(resetPageInfo(z, i), i,
                        z.completion[Head(z.freeWaiters)].pbn)

launchPageSave(z, i) == savePages(schedulePageSave(z, i))

discardAPage(z) ==
    IF selectLRUPage(z) = <<>> THEN z
    ELSE IF z.info[Head(selectLRUPage(z))].state # "DIRTY"
    THEN allocateFreePage(z, Head(selectLRUPage(z)))
    ELSE launchPageSave(
           [z EXCEPT !.discardCount = @ + 1,
                     !.info[Head(selectLRUPage(z))].writeStatus = "DISCARD"],
           Head(selectLRUPage(z)))

discardPageForCompletion(z, c) ==
    discardAPage([z EXCEPT !.waiterCount = @ + 1,
                           !.freeWaiters = Append(@, c)])

discardPageIfNeeded_never(z) == z

discardPageIfNeeded(z) ==
    IF z.waiterCount > z.discardCount THEN discardAPage(z) ELSE z

writeHasFinished(z, i) ==
    [z EXCEPT !.outstandingWrites = @ - 1, !.info[i].writeStatus = "NORMAL"]

handlePageWriteError(z, i, result) ==
    checkForIOComplete(
      IF z.info[i].writeStatus = "DISCARD"
      THEN writeHasFinished(
             setPersistentError(setInfoState(z, i, "DIRTY"), result), i)
      ELSE discardPageIfNeeded(writeHasFinished(
             setPersistentError(setInfoState(z, i, "DIRTY"), result), i)))

\* Once the VDO is read-only, the pages of a batch fail without being written.
writeEach(z, n) ==
    IF n = 0 THEN z
    ELSE writeEach(
           IF z.readOnly
           THEN handlePageWriteError(
                  [z EXCEPT !.outgoingList = Tail(@)],
                  Head(z.outgoingList), "VDO_READ_ONLY")
           ELSE [z EXCEPT !.outgoingList = Tail(@),
                          !.info[Head(z.outgoingList)].io = "write"],
           n - 1)

writePages(z) ==
    IF z.pagesToFlush > 0
    THEN savePages(writeEach([z EXCEPT !.pagesInFlush = 0], z.pagesInFlush))
    ELSE writeEach([z EXCEPT !.pagesInFlush = 0], z.pagesInFlush)

\* The flush uses the VIO of the first page on the list. The pages which
\* become outgoing while it lasts are left for the next one.
savePages(z) ==
    IF z.pagesInFlush > 0 \/ z.pagesToFlush = 0 THEN z
    ELSE IF scenario.flushRequired
    THEN [z EXCEPT !.pagesInFlush = z.pagesToFlush, !.pagesToFlush = 0,
                   !.info[Head(z.outgoingList)].io = "flush",
                   !.flushing = UNION {z.applied[p] : p \in Leaves}]
    ELSE writePages([z EXCEPT !.pagesInFlush = z.pagesToFlush,
                              !.pagesToFlush = 0,
                              !.durable = UNION {z.applied[p] : p \in Leaves}])

RECURSIVE scheduleExpired(_)
scheduleExpired(z) ==
    IF z.dirtyLists.expired = <<>> THEN z
    ELSE scheduleExpired(schedulePageSave(
           [z EXCEPT !.dirtyLists.expired = Tail(@)],
           Head(z.dirtyLists.expired)))

writeDirtyPagesCallback(z) ==
    IF z.dirtyLists.expired = <<>> THEN z ELSE savePages(scheduleExpired(z))

releaseInfo(z, i) ==
    IF z.info[i].busy > 0 THEN z
    ELSE discardPageIfNeeded(
           IF z.info[i].writeStatus = "DEFERRED"
           THEN launchPageSave([z EXCEPT !.info[i].writeStatus = "NORMAL"], i)
           ELSE z)

releaseVDOPageCompletion(z, c) ==
    IF z.completion[c].info = 0
    THEN [z EXCEPT !.completion[c].ready = FALSE]
    ELSE releaseInfo([z EXCEPT !.info[z.completion[c].info].busy = @ - 1,
                               !.completion[c].ready = FALSE,
                               !.completion[c].info = 0],
                     z.completion[c].info)

markCompletedVDOPageDirty(z, i, oldLock) ==
    writeDirtyPagesCallback(
      [setInfoState(z, i, "DIRTY") EXCEPT
         !.dirtyLists = addToDirtyLists(@, i, oldLock,
                                        z.info[i].recoveryLock)])

requestVDOPageWrite(z, i) == launchPageSave(setInfoState(z, i, "DIRTY"), i)

\* findFreePage() and loadPageForCompletion().
getVDOPageAsync_fetch(z, c) ==
    IF z.freeList # <<>>
    THEN launchPageLoad([z EXCEPT !.info[Head(z.freeList)].waiting =
                                     Append(@, c)],
                        Head(z.freeList), z.completion[c].pbn)
    ELSE discardPageForCompletion(z, c)

getVDOPageAsync_found(z, i, c) ==
    IF \/ z.info[i].writeStatus = "DEFERRED"
       \/ z.info[i].state = "INCOMING"
       \/ z.info[i].state = "OUTGOING" /\ z.completion[c].writable
    THEN [z EXCEPT !.info[i].waiting = Append(@, c)]
    ELSE IF isValid(z.info[i])
    THEN completeWithPage([updateLru(z, i) EXCEPT !.info[i].busy = @ + 1],
                          i, c)
    ELSE getVDOPageAsync_fetch(z, c)

lookUpPage(z, c, i) ==
    IF i = 0 THEN getVDOPageAsync_fetch([z EXCEPT !.lastFound = 0], c)
    ELSE getVDOPageAsync_found([z EXCEPT !.lastFound = i], i, c)

getVDOPageAsync(z, c) ==
    IF z.completion[c].writable /\ z.readOnly
    THEN finishPageCompletion(z, c, "VDO_READ_ONLY")
    ELSE lookUpPage(z, c, vpcFindPage(z, z.completion[c].pbn))

-----------------------------------------------------------------------------
(* Mapping reads and updates (blockMap.c) *)

finishDataVIO(z, c, result) ==
    [z EXCEPT !.completion[c].status =
                IF result = "VDO_SUCCESS" THEN "done" ELSE "failed"]

getMappingFromFetchedPage(z, c) ==
    finishDataVIO(
      releaseVDOPageCompletion(
        [z EXCEPT !.missed = @ \cup (z.applied[z.completion[c].pbn]
                                       \ z.info[z.completion[c].info].updates)],
        c),
      c, "VDO_SUCCESS")

putMappingInFetchedPage(z, c, i) ==
    finishDataVIO(
      releaseVDOPageCompletion(
        markCompletedVDOPageDirty(updateBlockMapPage(z, i, c), i,
                                  z.info[i].recoveryLock),
        c),
      c, "VDO_SUCCESS")

handlePageError(z, c, result) ==
    finishDataVIO(releaseVDOPageCompletion(z, c), c, result)

setupMappedBlock(z, c, request) ==
    IF isDraining(z) THEN finishDataVIO(z, c, "VDO_SHUTTING_DOWN")
    ELSE getVDOPageAsync(
           [z EXCEPT !.completion[c] =
              [VDOPageCompletion EXCEPT
                 !.kind = IF request.writable THEN "put" ELSE "get",
                 !.pbn = request.pbn, !.writable = request.writable,
                 !.lock = request.lock, !.status = "waiting"]],
           c)

-----------------------------------------------------------------------------
(* Replay of the journal into the block map (blockMapRecovery.c). The      *)
(* entries are in the order in which the heap returns them: by page, and   *)
(* in journal order within a page.                                         *)

BlockMapRecoveryCompletion ==
    [aborted |-> FALSE, launching |-> FALSE, currentEntry |-> 1,
     currentUnfetchedEntry |-> 1, pbn |-> NO_PAGE, outstanding |-> 0]

journalEntries == scenario.journalEntries

findEntryStartingNextPage(k) ==
    CHOOSE j \in k .. Len(journalEntries) + 1 :
       /\ \A l \in k .. j - 1 : journalEntries[l].pbn = journalEntries[k].pbn
       /\ j <= Len(journalEntries) => journalEntries[j].pbn # journalEntries[k].pbn

recoveryIsDone(z) ==
    /\ ~z.recovery.launching
    /\ z.recovery.outstanding = 0
    /\ z.recovery.aborted \/ z.recovery.currentEntry > Len(journalEntries)

RECURSIVE releaseReady(_, _)
releaseReady(z, c) ==
    IF c \notin RecoveryCompletions THEN z
    ELSE releaseReady(IF z.completion[c].ready
                      THEN releaseVDOPageCompletion(z, c) ELSE z, c + 1)

finishRecovery(z) ==
    IF z.recovery.aborted THEN [releaseReady(z, 101) EXCEPT !.phase = "failed"]
    ELSE [z EXCEPT !.phase = "flushRecovery"]

abortRecovery(z) ==
    IF recoveryIsDone([z EXCEPT !.recovery.aborted = TRUE])
    THEN finishRecovery([z EXCEPT !.recovery.aborted = TRUE])
    ELSE [z EXCEPT !.recovery.aborted = TRUE]

initPageCompletion(z, c, kind, pbn) ==
    [z EXCEPT !.completion[c] =
       [VDOPageCompletion EXCEPT !.kind = kind, !.pbn = pbn,
                                 !.writable = TRUE, !.status = "waiting"]]

fetchPage(z, c) ==
    IF z.recovery.currentUnfetchedEntry > Len(journalEntries) THEN z
    ELSE getVDOPageAsync(
           initPageCompletion(
             [z EXCEPT !.recovery.currentUnfetchedEntry =
                          findEntryStartingNextPage(@),
                       !.recovery.outstanding = @ + 1],
             c, "recover",
             journalEntries[z.recovery.currentUnfetchedEntry].pbn),
           c)

getNextPageCompletion(c) ==
    IF c = 100 + recoveryPageCount THEN 101 ELSE c + 1

entriesOnPage(k) ==
    {journalEntries[l].id : l \in k .. findEntryStartingNextPage(k) - 1}

applyJournalEntriesToPage(z, i) ==
    [z EXCEPT
       !.info[i].updates = @ \cup entriesOnPage(z.recovery.currentEntry),
       !.applied[journalEntries[z.recovery.currentEntry].pbn] =
          @ \cup entriesOnPage(z.recovery.currentEntry),
       !.recovery.currentEntry = findEntryStartingNextPage(@)]

nextRecoveryPage(z, c) ==
    IF recoveryIsDone(z) THEN finishRecovery(z)
    ELSE recoverWhileReady(
           fetchPage(
             [z EXCEPT !.recovery.pbn =
                         journalEntries[z.recovery.currentEntry].pbn],
             c),
           getNextPageCompletion(c))

recoverWhileReady(z, c) ==
    IF ~z.completion[c].ready THEN z
    ELSE nextRecoveryPage(
           releaseVDOPageCompletion(
             requestVDOPageWrite(
               applyJournalEntriesToPage(z, z.completion[c].info),
               z.completion[c].info),
             c),
           c)

recoverReadyPages(z, c) ==
    IF recoveryIsDone(z) THEN finishRecovery(z)
    ELSE IF z.recovery.pbn # z.completion[c].pbn THEN z
    ELSE recoverWhileReady(z, c)

recoveryPageLoaded(z, c) ==
    IF z.recovery.launching THEN z ELSE recoverReadyPages(z, c)

RECURSIVE launchRecoveryPages(_, _)
launchRecoveryPages(z, c) ==
    IF \/ c \notin RecoveryCompletions
       \/ z.recovery.currentUnfetchedEntry > Len(journalEntries)
    THEN [z EXCEPT !.recovery.launching = FALSE]
    ELSE launchRecoveryPages(fetchPage(z, c), c + 1)

recoverBlockMap(z) ==
    IF journalEntries = <<>> THEN [z EXCEPT !.phase = "recovered"]
    ELSE recoverReadyPages(
           launchRecoveryPages(
             [z EXCEPT !.phase = "recover",
                       !.recovery = [BlockMapRecoveryCompletion EXCEPT
                                       !.launching = TRUE,
                                       !.pbn = journalEntries[1].pbn]],
             101),
           101)

-----------------------------------------------------------------------------
(* Rebuild of the reference counts from the leaf pages                     *)
(* (referenceCountRebuild.c)                                               *)

RebuildCompletion ==
    [aborted |-> FALSE, launching |-> FALSE, pageToFetch |-> 1,
     outstanding |-> 0]

finishIfDone(z) ==
    IF z.rebuild.launching \/ z.rebuild.outstanding > 0 THEN z
    ELSE IF z.rebuild.aborted THEN [z EXCEPT !.phase = "failed"]
    ELSE IF z.rebuild.pageToFetch <= scenario.leafPages THEN z
    ELSE [z EXCEPT !.phase = "flushRebuild"]

\* An entry which cannot be right is taken out, and its page is written.
removeBadEntries(z, i) ==
    IF z.info[i].updates \cap scenario.badEntries = {} THEN z
    ELSE requestVDOPageWrite(
           [z EXCEPT !.info[i].updates = @ \ scenario.badEntries,
                     !.applied[z.info[i].pbn] = @ \ scenario.badEntries],
           i)

rebuildReferenceCountsFromPage(z, i) ==
    IF ~z.info[i].initialized THEN z
    ELSE removeBadEntries(
           [z EXCEPT !.counted = [u \in DOMAIN @ |->
              IF u \in z.info[i].updates \ scenario.badEntries
              THEN @[u] + 1 ELSE @[u]]],
           i)

afterRebuildPage(z, c) ==
    IF z.phase = "rebuild" THEN fetchRebuildPage(z, c) ELSE z

rebuildPageLoaded(z, c, i) ==
    afterRebuildPage(
      finishIfDone(
        releaseVDOPageCompletion(rebuildReferenceCountsFromPage(z, i), c)),
      c)

fetchRebuildPage(z, c) ==
    IF z.rebuild.pageToFetch > scenario.leafPages THEN z
    ELSE IF z.rebuild.pageToFetch \in scenario.unallocated
    THEN fetchRebuildPage([z EXCEPT !.rebuild.pageToFetch = @ + 1], c)
    ELSE getVDOPageAsync(
           initPageCompletion([z EXCEPT !.rebuild.pageToFetch = @ + 1,
                                        !.rebuild.outstanding = @ + 1],
                              c, "rebuild", z.rebuild.pageToFetch),
           c)

RECURSIVE launchRebuildPages(_, _)
launchRebuildPages(z, c) ==
    IF c \notin RecoveryCompletions
    THEN finishIfDone([z EXCEPT !.rebuild.launching = FALSE])
    ELSE launchRebuildPages(fetchRebuildPage(z, c), c + 1)

\* Only the map is replaced: the infos keep their pages, and their places in
\* the lists.
invalidateVDOPageCache(z) == [z EXCEPT !.pageMap = [p \in DOMAIN @ |-> 0]]

rebuildReferenceCounts(z) ==
    IF \E i \in Infos : z.info[i].state = "DIRTY"
    THEN [z EXCEPT !.phase = "failed"]
    ELSE launchRebuildPages(
           [invalidateVDOPageCache(z) EXCEPT
              !.phase = "rebuild",
              !.rebuild = [RebuildCompletion EXCEPT !.launching = TRUE]],
           101)

-----------------------------------------------------------------------------
(* The callbacks and error handlers of the page completions *)

finishPageCompletion(z, c, result) ==
    CASE z.completion[c].kind = "get" ->
           IF result = "VDO_SUCCESS" THEN getMappingFromFetchedPage(z, c)
           ELSE handlePageError(z, c, result)
      [] z.completion[c].kind = "put" ->
           IF result = "VDO_SUCCESS"
           THEN putMappingInFetchedPage(z, c, z.completion[c].info)
           ELSE handlePageError(z, c, result)
      [] z.completion[c].kind = "recover" ->
           IF result = "VDO_SUCCESS"
           THEN recoveryPageLoaded(
                  [z EXCEPT !.recovery.outstanding = @ - 1], c)
           ELSE abortRecovery([z EXCEPT !.recovery.outstanding = @ - 1])
      [] OTHER ->
           IF result = "VDO_SUCCESS"
           THEN rebuildPageLoaded([z EXCEPT !.rebuild.outstanding = @ - 1],
                                  c, z.completion[c].info)
           ELSE finishIfDone(
                  releaseVDOPageCompletion(
                    [z EXCEPT !.rebuild.outstanding = @ - 1,
                              !.rebuild.aborted = TRUE], c))

-----------------------------------------------------------------------------
(* I/O *)

handleLoadError(z, i) ==
    checkForIOComplete(
      [resetPageInfo(
         distributeErrorOverQueue(
           setInfoState([z EXCEPT !.readOnly = TRUE], i, "FAILED"), i, "EIO"),
         i)
         EXCEPT !.outstandingReads = @ - 1])

pageIsLoaded(z, i) ==
    checkForIOComplete(
      [distributePageOverQueue(setInfoState(z, i, "RESIDENT"), i)
         EXCEPT !.outstandingReads = @ - 1])

\* The read hook of the block map: a page without its initialized flag is
\* formatted, and no page starts with a lock.
validatePageOnRead(z, i, page) ==
    [z EXCEPT !.info[i].io = "none", !.info[i].recoveryLock = 0,
              !.info[i].updates = IF page.state = "valid"
                                  THEN page.updates ELSE {},
              !.info[i].initialized = page.state = "valid"]

\* A read-only rebuild takes a page it cannot read for one never written.
handleRebuildReadError(z, i) ==
    pageIsLoaded(validatePageOnRead([z EXCEPT !.applied[z.info[i].pbn] = {}],
                                    i, [state |-> "unformatted"]), i)

runReadHook(z, i) ==
    pageIsLoaded(validatePageOnRead(z, i, z.storage[z.info[i].pbn]), i)

readPage(z, i) ==
    IF z.storage[z.info[i].pbn].state # "unreadable" THEN runReadHook(z, i)
    ELSE IF z.rebuilding THEN handleRebuildReadError(z, i)
    ELSE handleLoadError([z EXCEPT !.info[i].io = "none"], i)

\* The write hook: a page written for the first time is written again with
\* its flag, and a page written with it gives up its journal reference.
handlePageWrite(z, i) ==
    [releaseRecoveryJournalBlockReference(z, z.info[i].recoveryLock)
       EXCEPT !.info[i].recoveryLock = 0]

reclaimPage(z, i, wasDiscard, reclaimed) ==
    checkForIOComplete(
      IF reclaimed
      THEN discardPageIfNeeded(
             [z EXCEPT !.discardCount = IF wasDiscard THEN @ - 1 ELSE @])
      ELSE allocateFreePage([z EXCEPT !.discardCount = @ - 1], i))

finishPageWrite(z, i, wasDiscard) ==
    reclaimPage(
      distributePageOverQueue(
        setInfoState(writeHasFinished(z, i), i, "RESIDENT"), i),
      i, wasDiscard,
      ~wasDiscard \/ z.info[i].busy > 0 \/ z.info[i].waiting # <<>>)

pageIsWrittenOut(z, i) ==
    IF ~z.info[i].initialized
    THEN [z EXCEPT !.info[i].initialized = TRUE, !.info[i].io = "write"]
    ELSE finishPageWrite(handlePageWrite(z, i), i,
                         z.info[i].writeStatus = "DISCARD")

store(z, i) ==
    [z EXCEPT !.info[i].io = "none",
              !.storage[z.info[i].pbn] =
                 [state |-> IF z.info[i].initialized THEN "valid"
                            ELSE "unformatted",
                  updates |-> z.info[i].updates]]

-----------------------------------------------------------------------------
(* Drains and eras *)

drainVDOPageCache_unflushed(z) ==
    checkForIOComplete(
      IF z.adminState = "SUSPENDING" THEN z
      ELSE savePages(writeDirtyPagesCallback(z)))

drainVDOPageCache(z) ==
    checkForIOComplete(
      IF z.adminState = "SUSPENDING" THEN z
      ELSE savePages(writeDirtyPagesCallback(
             [z EXCEPT !.dirtyLists = flushDirtyLists(@)])))

\* The trees of the zone drain first (external here): the cache is told to
\* once they have no I/O.
drainZoneTrees(z, active) ==
    IF active THEN [z EXCEPT !.treeActive = TRUE] ELSE drainVDOPageCache(z)

advanceVDOPageCachePeriod(z, period) ==
    writeDirtyPagesCallback(
      [z EXCEPT !.dirtyLists = advancePeriod(@, period)])

-----------------------------------------------------------------------------
(* The specification *)

initialZone ==
    [info |-> [i \in Infos |-> PageInfo],
     pageMap |-> [p \in Leaves \cup {NO_PAGE} |-> 0], lastFound |-> 0,
     freeList |-> [i \in Infos |-> i], lruList |-> <<>>,
     outgoingList |-> <<>>,
     dirtyLists |-> setCurrentPeriod(makeDirtyLists, 1),
     freeWaiters |-> <<>>, waiterCount |-> 0, discardCount |-> 0,
     outstandingReads |-> 0, outstandingWrites |-> 0,
     pagesInFlush |-> 0, pagesToFlush |-> 0,
     rebuilding |-> scenario.start = "rebuild", readOnly |-> FALSE,
     adminState |-> "NORMAL",
     drained |-> [operation |-> "none", result |-> "none",
                  treeActive |-> FALSE],
     treeActive |-> FALSE,
     storage |-> scenario.storage,
     completion |-> [c \in Completions |-> VDOPageCompletion],
     references |-> [p \in Periods |-> 0],
     recovery |-> BlockMapRecoveryCompletion,
     rebuild |-> RebuildCompletion,
     phase |-> IF scenario.start = "online" THEN "online" ELSE "start",
     applied |-> [p \in Leaves |->
                    IF scenario.storage[p].state = "valid"
                    THEN scenario.storage[p].updates ELSE {}],
     made |-> [c \in DataVIOs |-> 0],
     missed |-> {}, flushing |-> {}, durable |-> {},
     counted |-> [u \in scenario.stored |-> 0],
     drains |-> 0]

Init ==
    /\ scenario \in Scenarios
    /\ zone = initialZone

mapBlock(c) ==
    /\ zone.phase = "online"
    /\ zone.adminState \notin {"SUSPENDED", "SAVED"}
    /\ zone.completion[c].status = "idle"
    /\ \A d \in DataVIOs : d < c => zone.completion[d].status # "idle"
    /\ \E request \in scenario.requests[c] :
          zone' = setupMappedBlock(zone, c, request)
    /\ UNCHANGED scenario

finishRead(i) ==
    /\ zone.info[i].io = "read"
    /\ zone' = readPage(zone, i)
    /\ UNCHANGED scenario

finishFlush(i) ==
    /\ zone.info[i].io = "flush"
    /\ zone' = writePages([zone EXCEPT !.info[i].io = "none",
                                       !.durable = @ \cup zone.flushing,
                                       !.flushing = {}])
    /\ UNCHANGED scenario

handleFlushError(i) ==
    /\ scenario.writeErrors
    /\ zone.info[i].io = "flush"
    /\ zone' = writePages(setPersistentError([zone EXCEPT
                                               !.info[i].io = "none",
                                               !.flushing = {}], "EIO"))
    /\ UNCHANGED scenario

finishWrite(i) ==
    /\ zone.info[i].io = "write"
    /\ zone' = pageIsWrittenOut(store(zone, i), i)
    /\ UNCHANGED scenario

failWrite(i) ==
    /\ scenario.writeErrors
    /\ zone.info[i].io = "write"
    /\ zone' = handlePageWriteError([zone EXCEPT !.info[i].io = "none"], i,
                                    "EIO")
    /\ UNCHANGED scenario

\* Some other part of the VDO enters read-only mode.
enterReadOnlyMode ==
    /\ scenario.writeErrors /\ ~zone.readOnly
    /\ zone' = [zone EXCEPT !.readOnly = TRUE]
    /\ UNCHANGED scenario

advanceEra ==
    /\ zone.phase = "online" /\ zone.adminState = "NORMAL"
    /\ \E period \in Periods :
          /\ period >= zone.dirtyLists.nextPeriod
          /\ zone' = advanceVDOPageCachePeriod(zone, period)
    /\ UNCHANGED scenario

\* The zones of the DataVIOs have drained by then.
drainZone(operation) ==
    /\ zone.phase = "online" /\ zone.adminState = "NORMAL"
    /\ zone.drains < scenario.maxDrains
    /\ \A c \in DataVIOs : zone.completion[c].status # "waiting"
    /\ \E active \in scenario.treeActivity :
          /\ ~scenario.pageIODuringTreeDrain /\ active
                => zone.outstandingReads + zone.outstandingWrites = 0
          /\ zone' = drainZoneTrees([zone EXCEPT !.adminState = operation,
                                                 !.drains = @ + 1], active)
    /\ UNCHANGED scenario

treeIOComplete ==
    /\ zone.treeActive
    /\ zone' = IF isDraining(zone)
               THEN drainVDOPageCache([zone EXCEPT !.treeActive = FALSE])
               ELSE [zone EXCEPT !.treeActive = FALSE]
    /\ UNCHANGED scenario

resumeBlockMapZone ==
    /\ zone.adminState \in {"SUSPENDED", "SAVED"} /\ ~zone.readOnly
    /\ zone' = [zone EXCEPT !.adminState = "NORMAL"]
    /\ UNCHANGED scenario

startRecovery ==
    /\ zone.phase = "start"
    /\ zone' = recoverBlockMap(zone)
    /\ UNCHANGED scenario

flushBlockMap ==
    /\ zone.phase \in {"flushRecovery", "flushRebuild"}
    /\ zone' = drainZoneTrees(
                 [zone EXCEPT
                   !.adminState = "RECOVERING",
                   !.drained.operation = "none",
                   !.phase = IF @ = "flushRecovery" THEN "drainRecovery"
                             ELSE "drainRebuild"], FALSE)
    /\ UNCHANGED scenario

\* The drain has finished: the parent of the recovery, or of the rebuild,
\* goes on.
finishFlushingBlockMap ==
    /\ zone.phase \in {"drainRecovery", "drainRebuild"}
    /\ ~isDraining(zone)
    /\ zone' = [zone EXCEPT
                 !.phase = IF zone.drained.result # "VDO_SUCCESS" THEN "failed"
                           ELSE IF @ = "drainRecovery" THEN "recovered"
                           ELSE "online",
                 !.rebuilding = @ /\ zone.phase = "drainRecovery"
                                  /\ zone.drained.result = "VDO_SUCCESS"]
    /\ UNCHANGED scenario

afterRecovery ==
    /\ zone.phase = "recovered"
    /\ zone' = IF scenario.start = "rebuild" THEN rebuildReferenceCounts(zone)
               ELSE [zone EXCEPT !.phase = "online"]
    /\ UNCHANGED scenario

IO == \E i \in Infos : finishRead(i) \/ finishFlush(i) \/ finishWrite(i)

Continue ==
    \/ treeIOComplete \/ startRecovery \/ flushBlockMap
    \/ finishFlushingBlockMap \/ afterRecovery

Next ==
    \/ \E c \in DataVIOs : mapBlock(c)
    \/ IO
    \/ \E i \in Infos : handleFlushError(i) \/ failWrite(i)
    \/ enterReadOnlyMode
    \/ advanceEra
    \/ \E operation \in {"SUSPENDING", "SAVING"} : drainZone(operation)
    \/ resumeBlockMapZone
    \/ Continue

\* The thread of the zone and the storage go on. Every IO and every Continue
\* changes the state: this is weak fairness, with what enables them spelled
\* out.
IOPending == \E i \in Infos : zone.info[i].io # "none"
ContinuePending ==
    \/ zone.treeActive
    \/ zone.phase \in {"start", "flushRecovery", "flushRebuild", "recovered"}
    \/ zone.phase \in {"drainRecovery", "drainRebuild"} /\ ~isDraining(zone)

Fairness ==
    /\ []<>~IOPending \/ []<><<IO>>_vars
    /\ []<>~ContinuePending \/ []<><<Continue>>_vars

Spec == Init /\ [][Next]_vars /\ Fairness

-----------------------------------------------------------------------------
(* Properties *)

With(state) == {i \in Infos : zone.info[i].state = state}

\* The counters and lists of the cache agree with the states of its pages
\* (setInfoState(), launchPageLoad(), schedulePageSave(), writeHasFinished(),
\* discardAPage()): reads and writes outstanding, pages to be flushed and in
\* the flush, waiters for a free page, and, until a write fails, discards. A
\* page which holds a leaf is the one the map has for it, until a rebuild
\* replaces the map.
AccountingIsExact ==
    /\ zone.outstandingReads = Cardinality(With("INCOMING"))
    /\ zone.outstandingWrites = Cardinality(With("OUTGOING"))
    /\ zone.pagesInFlush + zone.pagesToFlush = Len(zone.outgoingList)
    /\ zone.waiterCount = Len(zone.freeWaiters)
    /\ ~zone.readOnly =>
          zone.discardCount = Cardinality({i \in Infos :
                                 zone.info[i].writeStatus = "DISCARD"})
    /\ \A i \in Infos :
          /\ zone.info[i].state = "FREE" <=> zone.info[i].pbn = NO_PAGE
          /\ zone.info[i].io # "none" => isInFlight(zone.info[i])
          /\ zone.info[i].busy =
               Cardinality({c \in Completions : zone.completion[c].info = i})
          /\ scenario.start # "rebuild" /\ zone.info[i].pbn # NO_PAGE
               => zone.pageMap[zone.info[i].pbn] = i
    /\ \A period \in Periods :
          zone.references[period] =
             Cardinality({i \in Infos : zone.info[i].recoveryLock = period})

\* What a request for the page would be given now.
Visible(pbn) ==
    IF /\ vpcFindPage(zone, pbn) # 0
       /\ zone.info[vpcFindPage(zone, pbn)].state # "INCOMING"
    THEN zone.info[vpcFindPage(zone, pbn)].updates ELSE Stored(zone, pbn)

\* A page is never given to a reader without an update that was made to it
\* (getMappingFromFetchedPage()), whichever of its copies is in memory, being
\* written, discarded or read again; and an update never lands on the page of
\* another (recoverReadyPages()).
NoUpdateIsLost ==
    /\ zone.missed = {}
    /\ \A pbn \in Leaves : Visible(pbn) = zone.applied[pbn]

\* After a crash the journal is replayed from its oldest referenced block: an
\* update which is not on storage is covered by the reference its page holds
\* (updateBlockMapPage(), handlePageWrite()). And a page is only written with
\* updates whose journal entries a flush has made durable (savePages()).
UpdatesAreRecoverable ==
    /\ \A pbn \in Leaves : \A c \in zone.applied[pbn] \cap DataVIOs :
          \/ c \in Stored(zone, pbn)
          \/ \E i \in Infos : /\ zone.info[i].pbn = pbn
                              /\ zone.info[i].recoveryLock \in 1 .. zone.made[c]
    /\ \A i \in Infos : zone.info[i].io = "write"
          => zone.info[i].updates \cap DataVIOs \subseteq zone.durable

\* A zone which has drained has no I/O, not even in its trees, and one which
\* was saved has every update on storage (drainVDOPageCache(),
\* checkForIOComplete()).
SaveIsComplete ==
    /\ zone.adminState \in {"SUSPENDED", "SAVED"} =>
          /\ ~zone.drained.treeActive
          /\ \A i \in Infos : zone.info[i].io = "none"
    /\ zone.adminState = "SAVED" /\ zone.drained.result = "VDO_SUCCESS" =>
          \A pbn \in Leaves : zone.applied[pbn] = Stored(zone, pbn)

\* The block map goes online after a crash with every journal entry on
\* storage in its own page, and a rebuild has counted every mapping exactly
\* once (recoverBlockMap(), rebuildReferenceCounts()).
ReplayIsComplete ==
    /\ zone.phase \in {"recovered", "rebuild", "flushRebuild", "online"} =>
          \A k \in DOMAIN journalEntries :
             journalEntries[k].id \in zone.applied[journalEntries[k].pbn]
               \cap Stored(zone, journalEntries[k].pbn)
    /\ zone.phase = "online" /\ scenario.start = "rebuild" =>
          \A u \in scenario.stored :
             zone.counted[u] =
                IF \E pbn \in Leaves : u \in zone.applied[pbn] THEN 1 ELSE 0

Waiting(c) == zone.completion[c].status = "waiting"

\* No request, drain, recovery or rebuild is under way.
AtRest ==
    /\ \A c \in DataVIOs : ~Waiting(c)
    /\ ~isDraining(zone)
    /\ zone.phase \in {"online", "failed"}

\* Every request is answered, every drain finishes, and a recovery or rebuild
\* comes to its end (discardPageIfNeeded(), pageIsWrittenOut(),
\* checkForIOComplete(), finishIfDone()).
EverythingFinishes ==
    []<>AtRest
=============================================================================
