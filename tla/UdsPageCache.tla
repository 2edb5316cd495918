---------------------------- MODULE UdsPageCache ----------------------------
(***************************************************************************)
(* The page cache of a deduplication volume (uds/pageCache.c) and the      *)
(* threads that share it (uds/volume.c).  Zone threads search cached pages *)
(* without a lock, protected only by a per-zone search-pending counter.    *)
(* Reader threads fill the cache from a circular queue of reads.  The      *)
(* chapter writer replaces a chapter on the volume and donates its index   *)
(* page to the cache.  Everything but the zones' fast path is done under   *)
(* readThreadsMutex.                                                       *)
(*                                                                         *)
(* A chapter has one index page and one record page.  The contents of a    *)
(* page are the version of the chapter that was written to it; reading a   *)
(* page into a buffer first makes the contents of the buffer Garbage.      *)
(***************************************************************************)
EXTENDS Naturals, Sequences, FiniteSets

CONSTANTS
  Zones, Readers, Writer,  \* the threads; zones are naturals
  Entries,                 \* numCacheEntries cached pages, numbered
  Chapters,                \* physical chapters, numbered from 0
  Replaced,                \* the physical chapter which the writer replaces
  Requests,
  MaxVersion,              \* how often Replaced is rewritten
  Scenarios,               \* what the requests search and how large the queue is
  Nobody, Closed, Garbage  \* model values

PageCacheAssumption ==
  /\ Entries = 0 .. Cardinality(Entries) - 1
  /\ Cardinality(Entries) > Cardinality(Readers)
  /\ Replaced \in Chapters
  /\ \A s \in Scenarios : /\ s.queueSize > Cardinality(s.readers) /\ s.readers \subseteq Readers
                          /\ s.zoneOf \in [Requests -> Zones]
                          /\ s.chapterOf \in [Requests -> Chapters]
                          /\ s.readsFail \in BOOLEAN /\ s.requests \subseteq Requests

VARIABLES
  scenario, \* never changes
  index,    \* cache->index: physical page -> cached entry, queue position or nothing
  cache,    \* cache->cache
  readQueue, queueFirst, queueLastRead, queueLast,
  searching, \* the page of a zone's pending search, or NoPage
  mutex,    \* the holder of readThreadsMutex, or Nobody
  thread,   \* what every thread is doing
  request,  \* where every request is
  volume,   \* the version on every page of the volume
  pageMap,  \* the version the index page map describes
  zoneVersion, \* the version of Replaced a zone searches, or Closed
  chapter   \* Replaced is open, forgotten by its last zone, or written again

vars == <<scenario, index, cache, readQueue, queueFirst, queueLastRead, queueLast,
          searching, mutex, thread, request, volume, pageMap, zoneVersion,
          chapter>>

NoPage == 0
Threads == Zones \cup Readers \cup {Writer}
Unmapped == [kind |-> "none", at |-> 0]
Cached(e) == [kind |-> "cached", at |-> e]
Queued(q) == [kind |-> "queued", at |-> q]

QueueSize == scenario.queueSize  \* readQueueMaxSize
ZoneOf == scenario.zoneOf
ChapterOf == scenario.chapterOf

mapToPhysicalPage(c, n) == 1 + 2 * c + n
IndexPage(c) == mapToPhysicalPage(c, 0)
RecordPage(c) == mapToPhysicalPage(c, 1)
Pages == UNION {{IndexPage(c), RecordPage(c)} : c \in Chapters}
mapToChapterNumber(p) == (p - 1) \div 2
isRecordPage(p) == (p - 1) % 2 >= 1
VersionOf(z, c) == IF c = Replaced THEN zoneVersion[z] ELSE 0

ClearedPage == [readPending |-> FALSE, physicalPage |-> NoPage,
                lastUsed |-> 0, data |-> Garbage]
EmptyRead == [invalid |-> FALSE, reserved |-> FALSE, physicalPage |-> NoPage,
              requests |-> <<>>]
Idle == [pc |-> "idle", req |-> Nobody, page |-> NoPage, entry |-> 0,
         pos |-> 0, wait |-> {}, invalid |-> FALSE]
NewRequest == [at |-> "zone", known |-> FALSE, status |-> "success"]

Init ==
  /\ scenario \in Scenarios
  /\ index = [p \in Pages |-> Unmapped]
  /\ cache = [e \in Entries |-> ClearedPage]
  /\ readQueue = [q \in 0 .. QueueSize - 1 |-> EmptyRead]
  /\ queueFirst = 0 /\ queueLastRead = 0 /\ queueLast = 0
  /\ searching = [z \in Zones |-> NoPage]
  /\ mutex = Nobody
  /\ thread = [t \in Threads |-> Idle]
  /\ request = [r \in Requests |-> IF r \in scenario.requests THEN NewRequest
                                  ELSE [NewRequest EXCEPT !.at = "done"]]
  /\ volume = [p \in Pages |-> 0]
  /\ pageMap = [c \in Chapters |-> 0]
  /\ zoneVersion = [z \in Zones |-> 0]
  /\ chapter = "open"

-----------------------------------------------------------------------------
(* Least recently used order.  lastUsed is the rank of the volume clock.   *)
Ranked(c) ==
  [e \in Entries |-> [c[e] EXCEPT !.lastUsed =
     Cardinality({c[d].lastUsed : d \in {d \in Entries : c[d].lastUsed \in 1 .. c[e].lastUsed}})]]

makePageMostRecent(c, e) ==
  Ranked([c EXCEPT ![e].lastUsed = 1 + Cardinality(Entries)])

getLeastRecentPage ==
  CHOOSE e \in Entries :
    /\ ~cache[e].readPending
    /\ \A d \in Entries \ {e} : ~cache[d].readPending =>
         \/ cache[e].lastUsed < cache[d].lastUsed
         \/ cache[e].lastUsed = cache[d].lastUsed /\ d < e

waitForNoSearches(p) == {}

(* Every zone whose pending search is on page p has to end it.             *)
waitForPendingSearches(p) == {z \in Zones : searching[z] = p /\ p # NoPage}

beginPendingSearch(z, p) == searching' = [searching EXCEPT ![z] = p]

(* The counter of zone z changes, which ends the waits for it; the zone may *)
(* begin its next search at once.                                          *)
endPendingSearch(z, th, next) ==
  /\ searching' = [searching EXCEPT ![z] = next]
  /\ thread' = [t \in Threads |-> [th[t] EXCEPT !.wait = @ \ {z}]]

putPageInCache(p, e, data) ==
  /\ cache' = makePageMostRecent(
       [cache EXCEPT ![e] = [ClearedPage EXCEPT !.physicalPage = p,
                                                !.data = data]], e)
  /\ index' = [index EXCEPT ![p] = Cached(e)]

cancelPageInCache(p, e) ==
  /\ cache' = [cache EXCEPT ![e] = ClearedPage]
  /\ index' = [index EXCEPT ![p] = Unmapped]

(* The victim leaves the map, but its data stays until the searches of its *)
(* page are over.  The thread keeps the mutex meanwhile.                   *)
selectVictimInCache(t, next) ==
  LET e == getLeastRecentPage
      p == cache[e].physicalPage
  IN /\ index' = IF p = NoPage THEN index ELSE [index EXCEPT ![p] = Unmapped]
     /\ mutex' = t
     /\ thread' = [thread EXCEPT ![t] = [next EXCEPT !.entry = e,
                     !.wait = waitForPendingSearches(p)]]

-----------------------------------------------------------------------------
(* The zones.                                                              *)

(* A request searches an index page first, then the record page it names.  *)
(* One which the reader has already resolved is finished.  A request whose *)
(* chapter is gone is no longer sent there by the master index.            *)
StartRequest(z, r) ==
  /\ thread[z].pc = "idle" /\ ZoneOf[r] = z /\ request[r].at = "zone"
  /\ IF request[r].known \/ request[r].status # "success"
          \/ VersionOf(z, ChapterOf[r]) = Closed
     THEN /\ request' = [request EXCEPT ![r].at = "done"]
          /\ UNCHANGED <<searching, thread>>
     ELSE LET p == IndexPage(ChapterOf[r])
          IN /\ beginPendingSearch(z, p)
             /\ thread' = [thread EXCEPT ![z] =
                             [Idle EXCEPT !.pc = "probe", !.req = r, !.page = p]]
             /\ request' = [request EXCEPT ![r].at = "thread"]
  /\ UNCHANGED <<scenario, index, cache, readQueue, queueFirst, queueLastRead, queueLast,
                 mutex, volume, pageMap, zoneVersion, chapter>>

(* getPageProtected: the look-up without the mutex.                        *)
ProbeCache(z) ==
  LET p == thread[z].page IN
  /\ z \in Zones /\ thread[z].pc = "probe"
  /\ IF index[p].kind = "cached"
     THEN /\ thread' = [thread EXCEPT ![z].pc = "search", ![z].entry = index[p].at]
          /\ cache' = IF z = 0 THEN makePageMostRecent(cache, index[p].at) ELSE cache
          /\ UNCHANGED searching
     ELSE /\ endPendingSearch(z, [thread EXCEPT ![z].pc = "lock"], NoPage)
          /\ UNCHANGED cache
  /\ UNCHANGED <<scenario, index, readQueue, queueFirst, queueLastRead, queueLast, mutex,
                 request, volume, pageMap, zoneVersion, chapter>>

(* getPageProtected: the look-up with the mutex finds the page after all.  *)
ProbeCacheLocked(z) ==
  LET p == thread[z].page IN
  /\ z \in Zones /\ thread[z].pc = "lock" /\ mutex = Nobody
  /\ index[p].kind = "cached"
  /\ beginPendingSearch(z, p)
  /\ thread' = [thread EXCEPT ![z].pc = "search", ![z].entry = index[p].at]
  /\ cache' = IF z = 0 THEN makePageMostRecent(cache, index[p].at) ELSE cache
  /\ UNCHANGED <<scenario, index, readQueue, queueFirst, queueLastRead, queueLast, mutex,
                 request, volume, pageMap, zoneVersion, chapter>>

readQueueIsFull == queueFirst = (queueLast + 1) % QueueSize

(* enqueuePageRead: the request joins the queued read of its page, or a new *)
(* one; while the queue is full the zone waits with the mutex released, and *)
(* then tries again without another look-up of the page.                   *)
EnqueueRead(z) ==
  LET p == thread[z].page
      r == thread[z].req IN
  /\ z \in Zones /\ mutex = Nobody
  /\ \/ thread[z].pc = "lock" /\ index[p].kind # "cached"
     \/ thread[z].pc = "full" /\ ~readQueueIsFull
  /\ IF index[p].kind = "queued"
     THEN /\ readQueue' = [readQueue EXCEPT ![index[p].at].requests = Append(@, r)]
          /\ request' = [request EXCEPT ![r].at = "queue"]
          /\ thread' = [thread EXCEPT ![z].pc = "queued"]
          /\ UNCHANGED <<index, queueLast>>
     ELSE IF readQueueIsFull
     THEN /\ thread' = [thread EXCEPT ![z].pc = "full"]
          /\ UNCHANGED <<readQueue, request, index, queueLast>>
     ELSE /\ readQueue' = [readQueue EXCEPT ![queueLast] =
               [@ EXCEPT !.physicalPage = p, !.invalid = FALSE, !.requests = <<r>>]]
          /\ index' = [index EXCEPT ![p] = Queued(queueLast)]
          /\ queueLast' = (queueLast + 1) % QueueSize
          /\ request' = [request EXCEPT ![r].at = "queue"]
          /\ thread' = [thread EXCEPT ![z].pc = "queued"]
  /\ UNCHANGED <<scenario, cache, queueFirst, queueLastRead, searching, mutex, volume,
                 pageMap, zoneVersion, chapter>>

(* The caller of getPageProtected expects a pending search even when the   *)
(* read was queued, and ends it.                                           *)
ReturnQueued(z) ==
  /\ z \in Zones
  /\ \/ /\ thread[z].pc = "queued"
        /\ beginPendingSearch(z, thread[z].page)
        /\ thread' = [thread EXCEPT ![z].pc = "return"]
     \/ /\ thread[z].pc = "return"
        /\ endPendingSearch(z, [thread EXCEPT ![z] = Idle], NoPage)
  /\ UNCHANGED <<scenario, index, cache, readQueue, queueFirst, queueLastRead, queueLast,
                 mutex, request, volume, pageMap, zoneVersion, chapter>>

(* The search of the cached page is over: an index page leads on to a      *)
(* search of the record page, a record page finishes the request.          *)
FinishSearch(z) ==
  LET r == thread[z].req
      p == RecordPage(ChapterOf[r]) IN
  /\ z \in Zones /\ thread[z].pc = "search"
  /\ IF isRecordPage(thread[z].page)
     THEN /\ endPendingSearch(z, [thread EXCEPT ![z] = Idle], NoPage)
          /\ request' = [request EXCEPT ![r].at = "done"]
     ELSE /\ endPendingSearch(z, [thread EXCEPT ![z] =
                 [Idle EXCEPT !.pc = "probe", !.req = r, !.page = p]], p)
          /\ UNCHANGED request
  /\ UNCHANGED <<scenario, index, cache, readQueue, queueFirst, queueLastRead, queueLast,
                 mutex, volume, pageMap, zoneVersion, chapter>>

-----------------------------------------------------------------------------
(* The life of the replaced chapter: every zone closes it, the last one    *)
(* forgets it, the writer replaces it, every zone starts to use it again.  *)

CloseChapter(z) ==
  /\ z \in Zones /\ thread[z].pc = "idle"
  /\ chapter = "open" /\ zoneVersion[z] \in 0 .. MaxVersion - 1
  /\ zoneVersion' = [zoneVersion EXCEPT ![z] = Closed]
  /\ thread' = IF \A y \in Zones : zoneVersion'[y] = Closed
               THEN [thread EXCEPT ![z] = [Idle EXCEPT !.pc = "forget",
                                             !.page = IndexPage(Replaced)]]
               ELSE thread
  /\ UNCHANGED <<scenario, index, cache, readQueue, queueFirst, queueLastRead, queueLast,
                 searching, mutex, request, volume, pageMap, chapter>>

(* invalidatePageCacheForChapter, page by page, with the mutex held: a     *)
(* queued read is marked invalid, a cached page is unmapped and cleared    *)
(* when its searches are over.                                             *)
InvalidateEntry(z) ==
  LET p == thread[z].page
      i == index[p] IN
  /\ z \in Zones /\ thread[z].pc = "forget" /\ mutex \in {Nobody, z}
  /\ mutex' = z
  /\ IF i.kind = "cached"
     THEN /\ index' = [index EXCEPT ![p] = Unmapped]
          /\ thread' = [thread EXCEPT ![z].pc = "clear", ![z].entry = i.at,
                                      ![z].wait = waitForPendingSearches(p)]
          /\ UNCHANGED readQueue
     ELSE /\ readQueue' = IF i.kind = "queued"
                          THEN [readQueue EXCEPT ![i.at].invalid = TRUE]
                          ELSE readQueue
          /\ thread' = [thread EXCEPT ![z].pc = "next"]
          /\ UNCHANGED index
  /\ UNCHANGED <<scenario, cache, queueFirst, queueLastRead, queueLast, searching,
                 request, volume, pageMap, zoneVersion, chapter>>

ClearEntry(z) ==
  /\ z \in Zones /\ thread[z].pc = "clear" /\ thread[z].wait = {}
  /\ cache' = [cache EXCEPT ![thread[z].entry] = ClearedPage]
  /\ thread' = [thread EXCEPT ![z].pc = "next"]
  /\ UNCHANGED <<scenario, index, readQueue, queueFirst, queueLastRead, queueLast,
                 searching, mutex, request, volume, pageMap, zoneVersion,
                 chapter>>

ForgetNextPage(z) ==
  /\ z \in Zones /\ thread[z].pc = "next"
  /\ IF isRecordPage(thread[z].page)
     THEN /\ thread' = [thread EXCEPT ![z] = Idle]
          /\ mutex' = Nobody /\ chapter' = "forgotten"
     ELSE /\ thread' = [thread EXCEPT ![z] = [Idle EXCEPT !.pc = "forget",
                                        !.page = RecordPage(Replaced)]]
          /\ UNCHANGED <<mutex, chapter>>
  /\ UNCHANGED <<scenario, index, cache, readQueue, queueFirst, queueLastRead, queueLast,
                 searching, request, volume, pageMap, zoneVersion>>

(* A zone looks for the new version on the volume once it is written.      *)
UseNewVersion(z) ==
  /\ z \in Zones /\ thread[z].pc = "idle" /\ zoneVersion[z] = Closed
  /\ chapter = "written"
  /\ zoneVersion' = [zoneVersion EXCEPT ![z] = volume[RecordPage(Replaced)]]
  /\ chapter' = IF \E y \in Zones : zoneVersion'[y] = Closed THEN chapter ELSE "open"
  /\ UNCHANGED <<scenario, index, cache, readQueue, queueFirst, queueLastRead, queueLast,
                 searching, mutex, thread, request, volume, pageMap>>

(* writeIndexPages and writeRecordPages: the index page is written, then   *)
(* described by the index page map, then donated to the cache.             *)
WriteIndexPage ==
  LET p == IndexPage(Replaced) IN
  /\ thread[Writer].pc = "idle" /\ chapter = "forgotten"
  /\ volume' = [volume EXCEPT ![p] = @ + 1]
  /\ thread' = [thread EXCEPT ![Writer] = [Idle EXCEPT !.pc = "map", !.page = p]]
  /\ UNCHANGED <<scenario, index, cache, readQueue, queueFirst, queueLastRead, queueLast,
                 searching, mutex, request, pageMap, zoneVersion, chapter>>

UpdateIndexPageMap ==
  /\ thread[Writer].pc = "map"
  /\ pageMap' = [pageMap EXCEPT ![Replaced] = volume[IndexPage(Replaced)]]
  /\ thread' = [thread EXCEPT ![Writer].pc = "donate"]
  /\ UNCHANGED <<scenario, index, cache, readQueue, queueFirst, queueLastRead, queueLast,
                 searching, mutex, request, volume, zoneVersion, chapter>>

DonateIndexPage ==
  /\ thread[Writer].pc = "donate" /\ mutex = Nobody
  /\ selectVictimInCache(Writer, [thread[Writer] EXCEPT !.pc = "copy"])
  /\ UNCHANGED <<scenario, cache, readQueue, queueFirst, queueLastRead, queueLast,
                 searching, request, volume, pageMap, zoneVersion, chapter>>

CopyIndexPage ==
  /\ thread[Writer].pc = "copy" /\ thread[Writer].wait = {}
  /\ putPageInCache(thread[Writer].page, thread[Writer].entry,
                    volume[IndexPage(Replaced)])
  /\ mutex' = Nobody
  /\ thread' = [thread EXCEPT ![Writer].pc = "records"]
  /\ UNCHANGED <<scenario, readQueue, queueFirst, queueLastRead, queueLast, searching,
                 request, volume, pageMap, zoneVersion, chapter>>

WriteRecordPage ==
  /\ thread[Writer].pc = "records"
  /\ volume' = [volume EXCEPT ![RecordPage(Replaced)] = @ + 1]
  /\ thread' = [thread EXCEPT ![Writer] = Idle]
  /\ chapter' = "written"
  /\ UNCHANGED <<scenario, index, cache, readQueue, queueFirst, queueLastRead, queueLast,
                 searching, mutex, request, pageMap, zoneVersion>>

-----------------------------------------------------------------------------
(* The reader threads.                                                     *)

RestartedAlone(q, status, known) ==
  [request EXCEPT ![readQueue[q].requests[1]] =
     [at |-> "zone", status |-> status, known |-> known]]

(* Every request of the queue entry is restarted, those appended while the *)
(* page was being read too; then the entry is released and queueFirst      *)
(* moves past the entries which are no longer reserved.                    *)
Restarted(q, status, known) ==
  [r \in Requests |->
     IF \E i \in 1 .. Len(readQueue[q].requests) : readQueue[q].requests[i] = r
     THEN [at |-> "zone", status |-> status, known |-> known] ELSE request[r]]

releaseReadQueueEntry(queue, lastRead) ==
  LET steps == (lastRead + QueueSize - queueFirst) % QueueSize
      free == {n \in 0 .. steps :
                 \A i \in 0 .. n - 1 : ~queue[(queueFirst + i) % QueueSize].reserved}
      moved == CHOOSE n \in free : \A k \in free : k <= n
  IN (queueFirst + moved) % QueueSize

RestartRequests(q, status, known, lastRead) ==
  LET queue == [readQueue EXCEPT ![q].reserved = FALSE, ![q].requests = <<>>]
  IN /\ request' = Restarted(q, status, known)
     /\ readQueue' = queue
     /\ queueFirst' = releaseReadQueueEntry(queue, lastRead)

(* reserveReadQueueEntry takes the next queued read.  A read that was      *)
(* invalidated, or whose page a donation has mapped, only restarts its     *)
(* requests.                                                               *)
ReserveInvalid(t) ==
  LET q == queueLastRead
      p == readQueue[q].physicalPage
      queued == index[p].kind = "queued"
      next == (q + 1) % QueueSize IN
  /\ t \in Readers /\ thread[t].pc = "idle" /\ mutex = Nobody
  /\ q # queueLast
  /\ readQueue[q].invalid \/ ~queued
  /\ index' = IF queued THEN [index EXCEPT ![p] = Unmapped] ELSE index
  /\ queueLastRead' = next
  /\ RestartRequests(q, "success", FALSE, next)
  /\ UNCHANGED <<scenario, cache, queueLast, searching, mutex, thread, volume, pageMap,
                 zoneVersion, chapter>>

ReserveRead(t) ==
  LET q == queueLastRead
      p == readQueue[q].physicalPage IN
  /\ t \in Readers /\ thread[t].pc = "idle" /\ mutex = Nobody
  /\ q # queueLast
  /\ ~readQueue[q].invalid /\ index[p].kind = "queued"
  /\ readQueue' = [readQueue EXCEPT ![q].reserved = TRUE]
  /\ queueLastRead' = (q + 1) % QueueSize
  /\ selectVictimInCache(t, [Idle EXCEPT !.pc = "evict", !.page = p, !.pos = q])
  /\ UNCHANGED <<scenario, cache, queueFirst, queueLast, searching, request, volume,
                 pageMap, zoneVersion, chapter>>

(* The mutex is released and the page is read over the victim's data.      *)
StartRead(t) ==
  /\ t \in Readers /\ thread[t].pc = "evict" /\ thread[t].wait = {}
  /\ cache' = [cache EXCEPT ![thread[t].entry].readPending = TRUE,
                            ![thread[t].entry].data = Garbage]
  /\ thread' = [thread EXCEPT ![t].pc = "read"]
  /\ mutex' = Nobody
  /\ UNCHANGED <<scenario, index, readQueue, queueFirst, queueLastRead, queueLast,
                 searching, request, volume, pageMap, zoneVersion, chapter>>

(* A failed read is cancelled before the mutex is taken again.             *)
FinishRead(t) ==
  LET e == thread[t].entry
      p == thread[t].page IN
  /\ t \in Readers /\ thread[t].pc = "read"
  /\ \/ /\ cache' = [cache EXCEPT ![e].data = volume[p]]
        /\ thread' = [thread EXCEPT ![t].pc = "install"]
        /\ UNCHANGED index
     \/ /\ scenario.readsFail
        /\ cancelPageInCache(p, e)
        /\ thread' = [thread EXCEPT ![t].pc = "failed"]
  /\ UNCHANGED <<scenario, readQueue, queueFirst, queueLastRead, queueLast, searching,
                 mutex, request, volume, pageMap, zoneVersion, chapter>>

(* An index page must agree with the index page map.                       *)
PageIsConsistent(t) ==
  \/ isRecordPage(thread[t].page)
  \/ cache[thread[t].entry].data = pageMap[mapToChapterNumber(thread[t].page)]

ReadWasInvalidated(t) == readQueue[thread[t].pos].invalid

InstallPage(t) ==
  LET e == thread[t].entry
      p == thread[t].page
      q == thread[t].pos IN
  /\ t \in Readers /\ mutex = Nobody
  /\ \/ /\ thread[t].pc = "install" /\ ReadWasInvalidated(t)
        /\ cancelPageInCache(p, e)
        /\ RestartRequests(q, "success", FALSE, queueLastRead)
     \/ /\ thread[t].pc = "install" /\ ~ReadWasInvalidated(t) /\ ~PageIsConsistent(t)
        /\ cancelPageInCache(p, e)
        /\ RestartRequests(q, "corrupt", FALSE, queueLastRead)
     \/ /\ thread[t].pc = "install" /\ ~ReadWasInvalidated(t) /\ PageIsConsistent(t)
        /\ putPageInCache(p, e, cache[e].data)
        /\ RestartRequests(q, "success", isRecordPage(p), queueLastRead)
     \/ /\ thread[t].pc = "failed"
        /\ RestartRequests(q, "error", FALSE, queueLastRead)
        /\ UNCHANGED <<cache, index>>
  /\ thread' = [thread EXCEPT ![t] = Idle]
  /\ UNCHANGED <<scenario, queueLastRead, queueLast, searching, mutex, volume, pageMap,
                 zoneVersion, chapter>>

ZoneStep(z) ==
  \/ \E r \in Requests : StartRequest(z, r)
  \/ ProbeCache(z) \/ ProbeCacheLocked(z) \/ EnqueueRead(z) \/ ReturnQueued(z)
  \/ FinishSearch(z)
  \/ InvalidateEntry(z) \/ ClearEntry(z) \/ ForgetNextPage(z) \/ UseNewVersion(z)

ReaderStep(t) ==
  ReserveInvalid(t) \/ ReserveRead(t) \/ StartRead(t) \/ FinishRead(t) \/ InstallPage(t)

WriterStep ==
  \/ WriteIndexPage \/ UpdateIndexPageMap \/ DonateIndexPage \/ CopyIndexPage
  \/ WriteRecordPage

Next ==
  \/ \E z \in Zones : ZoneStep(z) \/ CloseChapter(z)
  \/ \E t \in scenario.readers : ReaderStep(t)
  \/ WriterStep

(* Every thread is scheduled; nothing forces a chapter to be closed.       *)
Spec ==
  /\ Init /\ [][Next]_vars
  /\ \A z \in Zones : WF_vars(ZoneStep(z))
  /\ \A t \in Readers : WF_vars(t \in scenario.readers /\ ReaderStep(t))
  /\ WF_vars(WriterStep)

-----------------------------------------------------------------------------
(* A zone which searches a cached page reads that page, in the version it   *)
(* expects, until its search is over: no reader, donation or invalidation  *)
(* reuses the entry under it (waitForPendingSearches).                      *)
SearchesAreStable ==
  \A z \in Zones : thread[z].pc = "search" =>
    LET e == cache[thread[z].entry] IN
    /\ e.physicalPage = thread[z].page
    /\ e.data = VersionOf(z, mapToChapterNumber(thread[z].page))

(* No request is failed with UDS_CORRUPT_DATA: an index page never reaches  *)
(* initChapterIndexPage while the index page map describes another version *)
(* of its chapter.                                                         *)
NoFalseCorruption == \A r \in Requests : request[r].status # "corrupt"

=============================================================================
