-------------------------------- MODULE MCUds --------------------------------
(***************************************************************************)
(* The deduplication index for TLC, in two parts which share no state: the *)
(* index with its zones, chapter writer, saves and checkpoints (UdsIndex), *)
(* and the page cache through which the zones read chapters                *)
(* (UdsPageCache).  A behaviour is one of one part; the variables of the   *)
(* other are Unused.                                                       *)
(***************************************************************************)
EXTENDS MCUdsIndex

CONSTANTS PageScenarios, r1, r2, Writer, Nobody, Closed, Garbage

VARIABLES part, cache, readQueue, queueFirst, queueLastRead, queueLast, searching, mutex,
          thread, request, pageMap, zoneVersion, chapter

pages == INSTANCE UdsPageCache WITH
  Readers <- {r1, r2}, Entries <- {0, 1, 2}, Chapters <- {0, 1}, Replaced <- 0,
  Requests <- {1, 2, 3}, MaxVersion <- 1, Scenarios <- PageScenarios

ASSUME pages!PageCacheAssumption

\* Two zones search the replaced chapter, with room in the queue; reads fail;
\* the queue fills up, but no two zones want the same page.
Sharing == [zoneOf |-> <<0, 1, 0>>, chapterOf |-> <<0, 0, 1>>, requests |-> {1, 2},
            readers |-> {r1, r2}, queueSize |-> 4, readsFail |-> FALSE]
Failing == [Sharing EXCEPT !.readsFail = TRUE]
Crowded == [Sharing EXCEPT !.chapterOf = <<0, 1, 0>>, !.readers = {r1}, !.queueSize = 2]

MCPageScenarios == {Sharing, Crowded, Failing}

-----------------------------------------------------------------------------
Unused == "unused"

Indexing == part = "index"
Paging == part = "page cache"

indexOnly == <<phase, zones, mi, writer, checkpoint, layout, disk, unsynced, time>>
pagesOnly == <<cache, readQueue, queueFirst, queueLastRead, queueLast, searching, mutex,
               thread, request, pageMap, zoneVersion, chapter>>
allVars == <<part, vars, pagesOnly>>

UdsInit ==
  \/ /\ part = "index" /\ Init
     /\ cache = Unused /\ readQueue = Unused /\ queueFirst = Unused
     /\ queueLastRead = Unused /\ queueLast = Unused /\ searching = Unused
     /\ mutex = Unused /\ thread = Unused /\ request = Unused /\ pageMap = Unused
     /\ zoneVersion = Unused /\ chapter = Unused
  \/ /\ part = "page cache" /\ pages!Init
     /\ phase = Unused /\ zones = Unused /\ mi = Unused /\ writer = Unused
     /\ checkpoint = Unused /\ layout = Unused /\ disk = Unused /\ unsynced = Unused
     /\ time = Unused

InIndex(A) == Indexing /\ A /\ UNCHANGED <<part, pagesOnly>>
InPages(A) == Paging /\ A /\ UNCHANGED <<part, indexOnly>>

UdsNext ==
  \/ InIndex(Next)
  \/ InPages(pages!Next)
  \/ Paging /\ UNCHANGED allVars \* there may be nothing to do

\* The fairness of the two modules.
UdsFairness ==
  /\ \A z \in Zones : WF_allVars(InIndex(ZoneStep(z)))
  /\ WF_allVars(InIndex(WriterStep))
  /\ \A z \in Zones : WF_allVars(InPages(pages!ZoneStep(z)))
  /\ \A t \in {r1, r2} : WF_allVars(InPages(t \in scenario.readers /\ pages!ReaderStep(t)))
  /\ WF_allVars(InPages(pages!WriterStep))

UdsSpec == UdsInit /\ [][UdsNext]_allVars /\ UdsFairness

-----------------------------------------------------------------------------
\* The master index forgets nothing that is in the chapters of the volume,
\* also after a crash and a replay (UdsIndex's NothingForgotten).
IndexForgetsNothing == Indexing => NothingForgotten

\* The master index points a zone only to a chapter which has the name, on the
\* volume or in memory (UdsIndex's AdviceIsSound).
IndexIsSound == Indexing => AdviceIsSound

\* What a start after a crash finds on storage is right: the save it selects
\* is up to date, and the boundaries of the volume are found
\* (SavedOpenChapterIsUnwritten, BoundariesAreFound).
StartIsSound == Indexing => SavedOpenChapterIsUnwritten /\ BoundariesAreFound

\* A zone reads the page it searches, in the version it expects, and none is
\* taken for corrupt (UdsPageCache's SearchesAreStable, NoFalseCorruption).
PagesAreRight == Paging => pages!SearchesAreStable /\ pages!NoFalseCorruption

\* A zone that waits to open its next chapter eventually has: the chapter
\* writer waits for all zones, and every zone is told to close.  Every request
\* that reads pages is answered, whatever is evicted, invalidated or full.
RequestsProceed ==
  /\ \A z \in Zones : []<>(Indexing => zones[z].pc # "swap")
  /\ []<>(Paging => \A r \in {1, 2, 3} : request[r].at = "done")
=============================================================================
