------------------------------ MODULE SlabDepot ------------------------------
(***************************************************************************)
(* The slab depot (base/slabDepot.c): its zones' block allocators          *)
(* (base/blockAllocator.c) with their priority tables (priorityTable.c)    *)
(* and slab scrubbers (slabScrubber.c), the slab summary of every zone     *)
(* (slabSummary.c), and the VIOs which allocate (allocatingVIO.c).  The    *)
(* depot is loaded (after a format, a save, a crash, or a rebuild), comes  *)
(* online, is suspended, grown and resumed, and may crash at any time.     *)
(*                                                                         *)
(* A zone's handlers run on the zone's thread, so each is one step; a      *)
(* handler is an operator from the state d of the depot to its next state. *)
(* What happens inside a slab (its journal and reference counts) is the    *)
(* subject of module Slab: here a slab has a number of free blocks, and a  *)
(* drain of it is one I/O.                                                 *)
(***************************************************************************)
EXTENDS Integers, Sequences, FiniteSets, FiniteSetsExt, SequencesExt, TLC

CONSTANTS dataBlocks,     \* of a slab (slabConfig.dataBlocks)
          MaxSlabs,       \* bound: slabs of a depot which has grown
          MaxZones,       \* MAX_PHYSICAL_ZONES
          VIOs,           \* the AllocatingVIOs
          ALLOCATIONS_PER_ZONE,
          Scenarios       \* the depots and their surroundings

SlabDepotAssumption ==
  /\ dataBlocks > 1 /\ ALLOCATIONS_PER_ZONE > 0
  /\ \A s \in Scenarios : \A z \in DOMAIN s.loads : s.loads[z] <= s.slabCount

VARIABLES depot, scenario

vars == <<depot, scenario>>

NONE == 0 - 1
Slabs == 0 .. (MaxSlabs - 1)
Zones == 0 .. (MaxZones - 1)

log2[n \in 1 .. (4 * dataBlocks)] == IF n = 1 THEN 0 ELSE 1 + log2[n \div 2]

maxPriority == 2 + log2[dataBlocks]
unopenedSlabPriority == 1 + log2[(dataBlocks * 3) \div 4]
Priorities == 0 .. maxPriority

SlabSummaryEntry(dirty, hint, load) ==
  [isDirty |-> dirty, fullnessHint |-> hint, loadRefCounts |-> load, version |-> 0]

\* A slab as makeSlab leaves it; a new slab (of a growth) has reference counts.
makeSlab(isNew) ==
  [status |-> "rebuilt", free |-> dataBlocks, blank |-> TRUE, priority |-> 0,
   wasQueuedForScrubbing |-> FALSE, state |-> IF isNew THEN "new" ELSE "normal"]

makeBlockAllocator ==
  [openSlab |-> NONE, table |-> [p \in Priorities |-> << >>], searchVector |-> {},
   allocatedBlocks |-> 0, slabCount |-> 0, lastSlab |-> NONE, step |-> "none",
   pending |-> {}, prepared |-> FALSE,
   \* the slab scrubber
   highPrioritySlabs |-> << >>, slabs |-> << >>, slab |-> NONE, io |-> "none",
   scrubber |-> "suspended", completion |-> "none", highPriorityOnly |-> FALSE,
   waiters |-> << >>, scrubCount |-> 0,
   \* the zone of the slab summary: its block's write, and who waits for one
   writing |-> FALSE, outgoing |-> << >>, current |-> {}, next |-> {}]

AllocatingVIO ==
  [phase |-> "idle", zone |-> 0, attempts |-> 0, waitForCleanSlab |-> FALSE,
   allocation |-> NONE, result |-> "none"]

zoneOf(d, s) == s % d.zoneCount
LiveZones(d) == 0 .. (d.zoneCount - 1)
isUnrecoveredSlab(d, s) == d.slab[s].status # "rebuilt"

\* The slabs of an allocator from its last slab down (getSlabIterator).
RECURSIVE slabsFrom(_, _, _)
slabsFrom(s, end, stride) ==
  IF s = NONE THEN << >>
  ELSE <<s>> \o IF s < end + stride THEN << >> ELSE slabsFrom(s - stride, end, stride)
getSlabIterator(d, z) == slabsFrom(d.zone[z].lastSlab, z, d.zoneCount)

-----------------------------------------------------------------------------
(* The priority table.                                                     *)

\* Slabs with the same order of magnitude of free blocks are alike; a slab
\* never opened ranks below slabs with many free blocks.
calculateSlabPriority(slab) ==
  IF slab.free = 0 THEN 0
  ELSE IF slab.blank THEN unopenedSlabPriority
  ELSE LET priority == 1 + log2[slab.free] IN
       IF priority < unopenedSlabPriority THEN priority ELSE priority + 1

priorityTableEnqueue(d, z, p, s) ==
  [d EXCEPT !.zone[z].table[p] = Append(@, s), !.zone[z].searchVector = @ \union {p}]

\* Take a slab off whatever ring it is on.
unspliceRingNode(d, s) ==
  LET z == zoneOf(d, s)
      Without(ring) == SelectSeq(ring, LAMBDA t : t # s)
  IN [d EXCEPT !.zone[z].table = [p \in Priorities |-> Without(@[p])],
               !.zone[z].highPrioritySlabs = Without(@), !.zone[z].slabs = Without(@)]

onTable(d, s) ==
  {p \in Priorities : \E i \in DOMAIN d.zone[zoneOf(d, s)].table[p] :
     d.zone[zoneOf(d, s)].table[p][i] = s}

priorityTableRemove(d, s) ==
  LET z == zoneOf(d, s)
      removed == unspliceRingNode(d, s)
  IN [removed EXCEPT !.zone[z].searchVector =
        @ \ {p \in onTable(d, s) : removed.zone[z].table[p] = << >>}]

prioritizeSlab(d, s) ==
  LET p == calculateSlabPriority(d.slab[s]) IN
  priorityTableEnqueue([d EXCEPT !.slab[s].priority = p], zoneOf(d, s), p, s)

\* Remove the first slab of the highest bucket flagged in the vector.  When
\* no bucket is flagged there is no slab to open, and when the flagged bucket
\* is empty its head is taken for a slab: the program is lost either way.
priorityTableDequeue(d, z) ==
  LET vector == d.zone[z].searchVector
      top == Max(vector)
      bucket == d.zone[z].table[top]
  IN IF vector = {} \/ bucket = << >> THEN [d EXCEPT !.lost = TRUE]
     ELSE [d EXCEPT !.zone[z].table[top] = Tail(@), !.zone[z].openSlab = Head(bucket),
                    !.zone[z].searchVector = IF Len(bucket) = 1 THEN @ \ {top} ELSE @]

-----------------------------------------------------------------------------
(* The scrubber's rings and the queueing of slabs.                         *)

registerSlabForScrubbing(d, s, highPriority) ==
  LET z == zoneOf(d, s)
      counted == IF d.slab[s].wasQueuedForScrubbing THEN d
                 ELSE [d EXCEPT !.zone[z].scrubCount = @ + 1,
                                !.slab[s].wasQueuedForScrubbing = TRUE]
      off == unspliceRingNode(counted, s)
  IN IF d.slab[s].status # "requiresScrubbing" THEN d
     ELSE IF highPriority
     THEN [off EXCEPT !.slab[s].status = "requiresHighPriorityScrubbing",
                      !.zone[z].highPrioritySlabs = Append(@, s)]
     ELSE [off EXCEPT !.zone[z].slabs = Append(@, s)]

\* A slab is made available for allocation, or for scrubbing.  A resuming
\* slab's blocks have been accounted for.
queueSlab(d, s) ==
  LET z == zoneOf(d, s) IN
  IF isUnrecoveredSlab(d, s) THEN registerSlabForScrubbing(d, s, FALSE)
  ELSE prioritizeSlab(IF d.slab[s].state = "resuming" THEN d
                      ELSE [d EXCEPT !.zone[z].allocatedBlocks = @ - d.slab[s].free], s)

\* Mutant: the slab stays in its old bucket.
adjustFreeBlockCount_stays(d, s, increment) ==
  [d EXCEPT !.slab[s].free = IF increment THEN @ + 1 ELSE @ - 1,
            !.zone[zoneOf(d, s)].allocatedBlocks = IF increment THEN @ - 1 ELSE @ + 1]

\* A slab which has one free block more or less gets the priority it merits,
\* unless it is the open one.
adjustFreeBlockCount(d, s, increment) ==
  LET z == zoneOf(d, s)
      counted == [d EXCEPT !.slab[s].free = IF increment THEN @ + 1 ELSE @ - 1,
                           !.zone[z].allocatedBlocks = IF increment THEN @ - 1 ELSE @ + 1]
  IN IF s = d.zone[z].openSlab
        \/ d.slab[s].priority = calculateSlabPriority(counted.slab[s])
     THEN counted
     ELSE prioritizeSlab(priorityTableRemove(counted, s), s)

-----------------------------------------------------------------------------
(* Allocation.                                                             *)

allocateSlabBlock(d, v, s) ==
  IF d.slab[s].free = 0 THEN [d EXCEPT !.vio[v].result = "noSpace"]
  ELSE [adjustFreeBlockCount(d, s, FALSE) EXCEPT
          !.vio[v].result = "success", !.vio[v].allocation = s]

openNextSlab(d, v, z) ==
  LET opened == priorityTableDequeue(d, z) IN
  IF opened.lost THEN [opened EXCEPT !.vio[v].result = "lost"]
  ELSE allocateSlabBlock(opened, v, opened.zone[z].openSlab)

\* Allocate in the open slab or, when that is exhausted, in the best other.
allocateBlock(d, v, z) ==
  LET open == d.zone[z].openSlab
      tried == allocateSlabBlock(d, v, open)
  IN IF open = NONE THEN openNextSlab(d, v, z)
     ELSE IF tried.vio[v].result = "success" THEN tried
     ELSE openNextSlab(prioritizeSlab(tried, open), v, z)

\* Wait for the zone's scrubber to clean a slab; a scrubber at rest never will.
waitForCleanSlab(d, v, z) ==
  IF d.readOnly THEN [d EXCEPT !.vio[v].result = "readOnly"]
  ELSE IF d.zone[z].scrubber = "suspended" THEN [d EXCEPT !.vio[v].result = "noSpace"]
  ELSE [d EXCEPT !.zone[z].waiters = Append(@, v), !.vio[v].result = "waiting",
                 !.vio[v].phase = "waiting", !.vio[v].waitForCleanSlab = FALSE,
                 !.vio[v].attempts = 0]

\* No space in this zone: go on to the next; the second time around, wait for
\* a clean slab wherever one may come.
tryNextZone(d, v) ==
  LET vio == d.vio[v]
      around == vio.attempts >= d.zoneCount
  IN IF around /\ vio.waitForCleanSlab THEN [d EXCEPT !.vio[v].phase = "failed"]
     ELSE [d EXCEPT !.vio[v].phase = "allocating",
                    !.vio[v].zone = (vio.zone + 1) % d.zoneCount,
                    !.vio[v].waitForCleanSlab = vio.waitForCleanSlab \/ around,
                    !.vio[v].attempts = IF around THEN 0 ELSE @]

afterWaiting(d, v) ==
  CASE d.vio[v].result = "noSpace" -> tryNextZone(d, v)
    [] d.vio[v].result = "readOnly" -> [d EXCEPT !.vio[v].phase = "failed"]
    [] OTHER -> d

allocateBlockInZone(d, v) ==
  LET z == d.vio[v].zone
      tried == allocateBlock([d EXCEPT !.vio[v].attempts = @ + 1], v, z)
  IN IF tried.vio[v].result # "noSpace" THEN [tried EXCEPT !.vio[v].phase = "holding"]
     ELSE IF tried.vio[v].waitForCleanSlab THEN afterWaiting(waitForCleanSlab(tried, v, z), v)
     ELSE tryNextZone(tried, v)

RECURSIVE retryAllocateBlockForWrite(_, _)
retryAllocateBlockForWrite(d, waiters) ==
  IF waiters = << >> THEN d
  ELSE retryAllocateBlockForWrite(allocateBlockInZone(d, Head(waiters)), Tail(waiters))

\* Every VIO which waits for a clean slab tries again, at once.
notifyAllWaiters(d, z) ==
  retryAllocateBlockForWrite([d EXCEPT !.zone[z].waiters = << >>], d.zone[z].waiters)

-----------------------------------------------------------------------------
(* The slab summary: each zone has entries for every slab, and writes its  *)
(* own slabs'.  A zone's entries are one block here.                       *)

Committer(s) == MaxSlabs + s    \* the waiter of a journal's commit, not a scrubber's

launchWrite(d, z) ==
  IF d.zone[z].writing THEN d
  ELSE [d EXCEPT !.zone[z].writing = TRUE, !.zone[z].current = d.zone[z].next,
                 !.zone[z].next = {}, !.zone[z].outgoing = d.entries[z]]

updateSlabSummaryEntry(d, s, waiter, loadRefCounts, isClean, free) ==
  LET z == zoneOf(d, s) IN
  launchWrite([d EXCEPT
    !.entries[z][s] = [isDirty |-> ~isClean, fullnessHint |-> free,
                       loadRefCounts |-> @.loadRefCounts \/ loadRefCounts,
                       version |-> @.version + 1],
    !.zone[z].next = @ \union {waiter}], z)

\* Mutant: each entry from the zone it belongs to now.
combineZones_byNewZones(d) ==
  LET combined == [s \in Slabs |-> d.disk[zoneOf(d, s)][s]] IN [z \in Zones |-> combined]

\* Each entry from the zone it was written by, and all of them to every zone.
combineZones(d) ==
  LET combined == [s \in Slabs |-> d.disk[IF d.oldZoneCount > 1 THEN s % d.oldZoneCount ELSE 0][s]]
  IN [z \in Zones |-> combined]

-----------------------------------------------------------------------------
(* Scrubbing.                                                              *)

hasSlabsToScrub(d, z) == d.zone[z].highPrioritySlabs \o d.zone[z].slabs # << >>
getNextSlab(d, z) == Head(d.zone[z].highPrioritySlabs \o d.zone[z].slabs)

\* The last zone to finish completes the scrubbing of the depot.
notifyZoneFinishedScrubbing(d) ==
  [d EXCEPT !.zonesToScrub = @ - 1, !.scrubbed = @ \/ d.zonesToScrub = 1]

completeScrubbing(d, z) ==
  LET done == [d EXCEPT !.zone[z].completion = "none"] IN
  CASE d.zone[z].completion = "load" ->
         IF d.readOnly THEN [done EXCEPT !.phase = "readOnly"]
         ELSE [done EXCEPT !.zone[z].prepared = TRUE]
    [] d.zone[z].completion = "depot" /\ ~d.readOnly -> notifyZoneFinishedScrubbing(done)
    [] OTHER -> done

\* Waiters are woken once the scrubber is at rest, or they would wait again.
finishScrubbing(d, z) ==
  LET done == completeScrubbing(d, z)
      rest == [done EXCEPT !.zone[z].scrubber = "suspended",
                           !.zone[z].step = IF @ = "stopping" THEN "drainSlabs" ELSE @]
  IN IF d.zone[z].waiters = << >> THEN rest ELSE notifyAllWaiters(rest, z)

\* The next slab is flushed, unless the scrubber is to stop, or there is none.
nextScrub(d, z) ==
  IF d.readOnly THEN finishScrubbing(d, z)
  ELSE IF ~hasSlabsToScrub(d, z)
          \/ (d.zone[z].highPriorityOnly /\ d.zone[z].highPrioritySlabs = << >>)
  THEN finishScrubbing([d EXCEPT !.zone[z].highPriorityOnly = FALSE], z)
  ELSE IF d.zone[z].scrubber = "draining"
  THEN [d EXCEPT !.zone[z].scrubber = "suspended", !.zone[z].step = "drainSlabs"]
  ELSE LET s == getNextSlab(d, z) IN
       [unspliceRingNode(d, s) EXCEPT !.zone[z].slab = s, !.zone[z].io = "flush",
                                      !.slab[s].status = "rebuilding"]

scrubNextSlab(d, z) == nextScrub(notifyAllWaiters(d, z), z)

scrubSlabs(d, z, parent) ==
  LET started == [d EXCEPT !.zone[z].scrubber = "normal", !.zone[z].completion = parent] IN
  IF hasSlabsToScrub(d, z) THEN scrubNextSlab(started, z) ELSE finishScrubbing(started, z)

scrubHighPrioritySlabs(d, z, scrubAtLeastOne) ==
  LET chosen == IF scrubAtLeastOne /\ d.zone[z].highPrioritySlabs = << >> /\ hasSlabsToScrub(d, z)
                THEN registerSlabForScrubbing(d, getNextSlab(d, z), TRUE) ELSE d
  IN scrubSlabs([chosen EXCEPT !.zone[z].highPriorityOnly = TRUE], z, "load")

\* The slab's counts are whole (its blocks were loaded, its journal applied).
finishScrubbingSlab(d, s) ==
  queueSlab([d EXCEPT !.slab[s].status = "rebuilt", !.slab[s].free = dataBlocks - d.used[s]], s)

slabScrubbed(d, z) ==
  scrubNextSlab([finishScrubbingSlab(d, d.zone[z].slab) EXCEPT
                   !.zone[z].scrubCount = @ - 1, !.zone[z].slab = NONE,
                   !.zone[z].io = "none"], z)

abortScrubbing(d, z) == scrubNextSlab([d EXCEPT !.readOnly = TRUE, !.zone[z].io = "none"], z)

\* The journal was flushed: a slab whose counts were saved needs no more.
startScrubbing(d, z) ==
  IF ~d.entries[z][d.zone[z].slab].isDirty THEN slabScrubbed(d, z)
  ELSE [d EXCEPT !.zone[z].io = "read"]

\* The journal's entries are applied, and the counts saved.
applyJournalEntries(d, z) ==
  LET s == d.zone[z].slab IN
  IF s \in scenario.corrupt THEN abortScrubbing(d, z)
  ELSE updateSlabSummaryEntry([d EXCEPT !.zone[z].io = "save"], s, s, TRUE, TRUE,
                              dataBlocks - d.used[s])

stopScrubbing(d, z) ==
  IF d.zone[z].scrubber = "suspended" THEN [d EXCEPT !.zone[z].step = "drainSlabs"]
  ELSE [d EXCEPT !.zone[z].scrubber = "draining", !.zone[z].step = "stopping"]

resumeScrubbing(d, z) ==
  IF ~hasSlabsToScrub(d, z) THEN d
  ELSE scrubNextSlab([d EXCEPT !.zone[z].scrubber = "normal"], z)

-----------------------------------------------------------------------------
(* Preparing to allocate.                                                  *)

SlabStatus(d, z, s) ==
  [slabNumber |-> s, isClean |-> ~d.entries[z][s].isDirty,
   emptiness |-> d.entries[z][s].fullnessHint]

\* Clean before dirty, then by emptiness, then by number.
compareSlabStatuses(a, b) ==
  IF a.isClean # b.isClean THEN a.isClean
  ELSE IF a.emptiness # b.emptiness THEN a.emptiness > b.emptiness
  ELSE a.slabNumber < b.slabNumber

\* requiresScrubbing(journal): a property of the loaded slab journal.
requiresScrubbing(s) == s \in scenario.full

prepareSlab(d, z, status) ==
  LET s == status.slabNumber IN
  IF zoneOf(d, s) # z THEN d
  ELSE IF d.loadType = "rebuild" \/ (~d.entries[z][s].loadRefCounts /\ status.isClean)
  THEN queueSlab(d, s)
  ELSE registerSlabForScrubbing([d EXCEPT !.slab[s].status = "requiresScrubbing"], s,
         (status.isClean /\ d.loadType = "normal") \/ requiresScrubbing(s))

RECURSIVE prepareSlabs(_, _, _)
prepareSlabs(d, z, statuses) ==
  IF statuses = << >> THEN d
  ELSE prepareSlabs(prepareSlab(d, z, Head(statuses)), z, Tail(statuses))

prepareSlabsForAllocation(d, z) ==
  prepareSlabs([d EXCEPT !.zone[z].allocatedBlocks = d.zone[z].slabCount * dataBlocks], z,
    SortSeq([i \in 1 .. d.slabCount |-> SlabStatus(d, z, i - 1)], compareSlabStatuses))

prepareAllocatorToAllocate(d, z) ==
  LET prepared == prepareSlabsForAllocation(d, z) IN
  scrubHighPrioritySlabs(prepared, z, prepared.zone[z].searchVector = {})

-----------------------------------------------------------------------------
(* Making, draining, resuming and growing.                                 *)

registerSlabWithAllocator(d, s) ==
  [d EXCEPT !.zone[zoneOf(d, s)].slabCount = @ + 1, !.zone[zoneOf(d, s)].lastSlab = s]

RECURSIVE registerSlabs(_, _)
registerSlabs(d, slabs) ==
  IF slabs = << >> THEN d ELSE registerSlabs(registerSlabWithAllocator(d, Head(slabs)), Tail(slabs))

\* A depot is made from the super block for the zones of this load.
allocateDepot(d, zoneCount) ==
  LET made == [d EXCEPT
        !.phase = "loading", !.zoneCount = zoneCount, !.oldZoneCount = d.super.zoneCount,
        !.slabCount = d.super.slabCount, !.newSlabCount = 0, !.zonesToScrub = 0,
        !.scrubbed = FALSE, !.zone = [z \in Zones |-> makeBlockAllocator],
        !.slab = [s \in Slabs |-> [makeSlab(FALSE) EXCEPT !.blank = d.slab[s].blank]],
        !.selector = [zone |-> 0, count |-> 0], !.region = 0, !.loadsDone = @ + 1,
        !.loadType = CASE d.super.state = "dirty" -> "recovery"
                       [] d.super.state = "rebuild" -> "rebuild"
                       [] OTHER -> "normal"]
  IN registerSlabs(made, [i \in 1 .. made.slabCount |-> i - 1])

\* Nothing is on a ring or open while an action is applied to every slab.
RECURSIVE unspliceAll(_, _)
unspliceAll(d, slabs) ==
  IF slabs = << >> THEN d ELSE unspliceAll(unspliceRingNode(d, Head(slabs)), Tail(slabs))

drainSlabs(d, z) ==
  LET slabs == getSlabIterator(d, z)
      free == unspliceAll([d EXCEPT !.zone[z].openSlab = NONE], slabs)
  IN [free EXCEPT !.zone[z].step = "draining", !.zone[z].pending = ToSet(slabs),
        !.slab = [s \in Slabs |-> IF s \in ToSet(slabs) THEN [@[s] EXCEPT !.state = "draining"]
                                  ELSE @[s]]]

RECURSIVE resumeSlabs(_, _)
resumeSlabs(d, slabs) ==
  IF slabs = << >> THEN d
  ELSE LET s == Head(slabs)
           queued == queueSlab([d EXCEPT !.slab[s].state = "resuming"], s)
       IN resumeSlabs([queued EXCEPT !.slab[s].state = "normal"], Tail(slabs))

resumeBlockAllocator(d, z) ==
  LET slabs == getSlabIterator(d, z)
      free == unspliceAll([d EXCEPT !.zone[z].openSlab = NONE], slabs)
  IN resumeScrubbing([resumeSlabs(free, slabs) EXCEPT !.zone[z].step = "none"], z)

abandonNewSlabs(d) == [d EXCEPT !.newSlabCount = 0]

prepareToGrowSlabDepot(d, n) ==
  IF n <= d.slabCount \/ n = d.newSlabCount THEN d
  ELSE [abandonNewSlabs(d) EXCEPT !.newSlabCount = n,
          !.slab = [s \in Slabs |-> IF s \in d.slabCount .. (n - 1) THEN makeSlab(TRUE) ELSE @[s]]]

registerNewSlabsForAllocator(d, z) ==
  LET new == SelectSeq([i \in 1 .. d.newSlabCount |-> i - 1],
                       LAMBDA s : s >= d.slabCount /\ zoneOf(d, s) = z)
  IN registerSlabs([d EXCEPT !.zone[z].prepared = FALSE], new)

finishRegistration(d) ==
  [d EXCEPT !.slabCount = d.newSlabCount, !.newSlabCount = 0, !.phase = "suspended"]

getNextAllocationZone(selector, zoneCount) ==
  IF zoneCount = 1 THEN selector
  ELSE IF selector.count < ALLOCATIONS_PER_ZONE THEN [selector EXCEPT !.count = @ + 1]
  ELSE [zone |-> IF selector.zone < zoneCount - 1 THEN selector.zone + 1 ELSE 0, count |-> 1]

-----------------------------------------------------------------------------
(* The steps of a load (vdoLoad.c).                                        *)

DefaultEntry == SlabSummaryEntry(FALSE, dataBlocks, FALSE)

Init ==
  /\ scenario \in Scenarios
  /\ depot = [phase |-> "down", zoneCount |-> 1, oldZoneCount |-> 1, loadType |-> "normal",
       slabCount |-> scenario.slabCount, newSlabCount |-> 0, zonesToScrub |-> 0,
       scrubbed |-> FALSE, readOnly |-> FALSE, lost |-> FALSE,
       zone |-> [z \in Zones |-> makeBlockAllocator],
       slab |-> [s \in Slabs |-> [makeSlab(FALSE) EXCEPT !.blank = s \notin scenario.written]],
       used |-> [s \in Slabs |-> scenario.used[s]],
       entries |-> [z \in Zones |-> [s \in Slabs |-> DefaultEntry]],
       disk |-> [z \in Zones |-> [s \in Slabs |-> scenario.entries[s]]],
       super |-> [state |-> scenario.start, zoneCount |-> scenario.zoneCount,
                  slabCount |-> scenario.slabCount],
       selector |-> [zone |-> 0, count |-> 0], vio |-> [v \in VIOs |-> AllocatingVIO],
       stat |-> [zone |-> 0, allocated |-> 0, free |-> 0], region |-> 0, loadsDone |-> 0,
       ops |-> 0, suspends |-> 0, crashes |-> 0, touched |-> scenario.touched,
       latest |-> [s \in Slabs |-> 0]]

\* The summary is read and combined, or made anew.
Load ==
  /\ depot.phase = "down" /\ depot.loadsDone < Len(scenario.loads)
  /\ LET made == allocateDepot(depot, scenario.loads[depot.loadsDone + 1]) IN
     depot' = [made EXCEPT !.entries =
                 IF depot.super.state \in {"new", "rebuild"}
                 THEN [z \in Zones |-> [s \in Slabs |-> DefaultEntry]] ELSE combineZones(made)]

\* The summary is written, to the region of one zone after another.
WriteSummary ==
  /\ depot.phase = "loading" /\ depot.region < MaxZones
  /\ depot' = [depot EXCEPT !.disk[depot.region] = depot.entries[depot.region],
                            !.region = @ + 1]

\* What the recovery or the rebuild leaves of a slab and its summary entry:
\* a slab with entries replayed into it is dirty, a rebuilt slab is saved.
recoveredSlab(d, s) ==
  CASE d.loadType = "recovery" /\ s \in d.touched -> [d.slab[s] EXCEPT !.status = "replaying"]
    [] d.loadType = "rebuild" -> [d.slab[s] EXCEPT !.free = dataBlocks - d.used[s], !.blank = TRUE]
    [] OTHER -> d.slab[s]
recoveredEntry(d, s, entry) ==
  CASE d.loadType = "recovery" /\ s \in d.touched -> [entry EXCEPT !.isDirty = TRUE]
    [] d.loadType = "rebuild" /\ d.used[s] > 0 ->
         [entry EXCEPT !.loadRefCounts = TRUE, !.fullnessHint = dataBlocks - d.used[s]]
    [] OTHER -> entry

\* The allocators load their slabs; recovery or rebuild is done with them.
loadBlockAllocators(d) ==
  LET entries == [z \in Zones |-> [s \in Slabs |->
        IF z = zoneOf(d, s) THEN recoveredEntry(d, s, d.entries[z][s]) ELSE d.entries[z][s]]]
  IN [d EXCEPT !.phase = "loaded", !.slab = [s \in Slabs |-> recoveredSlab(d, s)],
               !.entries = entries, !.disk = entries]

LoadSlabs ==
  /\ depot.phase = "loading" /\ depot.region = MaxZones
  /\ depot' = loadBlockAllocators(depot)

\* The super block is saved, and the depot prepared to allocate.
MakeDirty ==
  /\ depot.phase = "loaded"
  /\ depot' = [depot EXCEPT !.phase = "preparing", !.zonesToScrub = depot.zoneCount,
                 !.super = [state |-> "dirty", zoneCount |-> depot.zoneCount,
                            slabCount |-> depot.slabCount]]

PrepareZone(z) ==
  /\ depot.phase = "preparing" /\ z \in LiveZones(depot)
  /\ ~depot.zone[z].prepared /\ depot.zone[z].completion = "none"
  /\ depot' = prepareAllocatorToAllocate(depot, z)

AllPrepared(d) == \A z \in LiveZones(d) : d.zone[z].prepared

\* Each zone starts to scrub whatever is left; then the VDO is online.
scrubAllUnrecoveredSlabsInZone(d, z) ==
  LET scrubbing == scrubSlabs([d EXCEPT !.zone[z].prepared = FALSE], z, "depot") IN
  [scrubbing EXCEPT !.phase = IF \E y \in LiveZones(d) \ {z} : d.zone[y].prepared
                              THEN "launching" ELSE "online"]

ScrubZone(z) ==
  /\ z \in LiveZones(depot) /\ depot.zone[z].prepared
  /\ depot.phase = "launching" \/ (depot.phase = "preparing" /\ AllPrepared(depot))
  /\ depot' = scrubAllUnrecoveredSlabsInZone(depot, z)

-----------------------------------------------------------------------------
(* I/O.                                                                    *)

Running == depot.phase \notin {"down", "readOnly"} /\ ~depot.lost

JournalFlushed(z) ==
  /\ Running /\ depot.zone[z].io = "flush"
  /\ depot' = startScrubbing(depot, z)

JournalRead(z) ==
  /\ Running /\ depot.zone[z].io = "read"
  /\ depot' = applyJournalEntries(depot, z)

\* A block of the summary was written: who waited for it goes on, and the
\* updates made meanwhile are written in turn.
finishUpdatingSlabSummaryBlock(d, z) ==
  LET zone == d.zone[z]
      written == [d EXCEPT !.disk[z] = zone.outgoing,
                    !.latest = [s \in Slabs |-> IF zoneOf(d, s) = z /\ s < d.slabCount
                                                THEN zone.outgoing[s].version ELSE @[s]]]
      notified == IF zone.current \intersect Slabs = {} THEN written ELSE slabScrubbed(written, z)
      idle == [notified EXCEPT !.zone[z].writing = FALSE, !.zone[z].current = {}]
  IN IF idle.zone[z].next = {} THEN idle ELSE launchWrite(idle, z)

SummaryWritten(z) ==
  /\ Running /\ depot.zone[z].writing
  /\ depot' = finishUpdatingSlabSummaryBlock(depot, z)

SlabDrained(s) ==
  /\ Running /\ s < depot.slabCount
  /\ LET z == zoneOf(depot, s) IN
     /\ s \in depot.zone[z].pending
     /\ depot' = [depot EXCEPT !.slab[s].state = "suspended", !.zone[z].pending = @ \ {s},
                    !.zone[z].step = IF depot.zone[z].pending = {s} THEN "summary" ELSE @]

-----------------------------------------------------------------------------
(* Requests, while the VDO is online.                                      *)

Online == depot.phase = "online" /\ ~depot.lost
MayStart == Online /\ ~depot.readOnly /\ depot.ops < scenario.ops

AllocateDataBlock(v) ==
  /\ MayStart /\ depot.vio[v].phase = "idle"
  /\ LET selector == getNextAllocationZone(depot.selector, depot.zoneCount) IN
     depot' = [depot EXCEPT !.selector = selector, !.ops = @ + 1,
                 !.vio[v] = [AllocatingVIO EXCEPT !.phase = "allocating", !.zone = selector.zone]]

AllocateBlockForWrite(v) ==
  /\ Online /\ depot.vio[v].phase = "allocating"
  /\ depot' = allocateBlockInZone(depot, v)

\* The write is done: its reference is in the slab's journal and counts.
Confirm(v) ==
  /\ Online /\ depot.vio[v].phase = "holding"
  /\ LET s == depot.vio[v].allocation IN
     depot' = [depot EXCEPT !.vio[v] = AllocatingVIO, !.used[s] = @ + 1,
                            !.slab[s].blank = FALSE, !.touched = @ \union {s}]

\* The block was not needed.
Release(v) ==
  /\ Online /\ depot.vio[v].phase = "holding" /\ scenario.releases
  /\ depot' = [adjustFreeBlockCount(depot, depot.vio[v].allocation, TRUE) EXCEPT
                 !.vio[v] = AllocatingVIO]

Fail(v) ==
  /\ Online /\ depot.vio[v].phase = "failed"
  /\ depot' = [depot EXCEPT !.vio[v] = AllocatingVIO]

\* An entry in a slab's journal; an unrecovered slab whose journal is filling
\* up is to be scrubbed soon.
addSlabJournalEntry(d, s) ==
  LET added == [d EXCEPT !.slab[s].blank = FALSE, !.touched = @ \union {s}, !.ops = @ + 1] IN
  IF isUnrecoveredSlab(d, s) /\ s \in scenario.filling
  THEN registerSlabForScrubbing(added, s, TRUE) ELSE added

MayAddEntry(s) ==
  /\ MayStart /\ s < depot.slabCount /\ depot.used[s] > 0
  /\ depot.slab[s].status # "rebuilding" /\ s \in scenario.entriesIn

Share(s) ==
  /\ MayAddEntry(s)
  /\ depot' = addSlabJournalEntry(depot, s)

\* modifySlabReferenceCount: the counts of an unrecovered slab are left alone.
Free(s) ==
  /\ MayAddEntry(s)
  /\ LET added == [addSlabJournalEntry(depot, s) EXCEPT !.used[s] = @ - 1] IN
     depot' = IF isUnrecoveredSlab(depot, s) THEN added ELSE adjustFreeBlockCount(added, s, TRUE)

\* The slab journal's tail block was written: the summary says where.
CommitTailBlock(s) ==
  /\ Online /\ ~depot.readOnly /\ s < depot.slabCount /\ s \in depot.touched
  /\ depot.slab[s].status # "rebuilding"
  /\ depot.entries[zoneOf(depot, s)][s].version < scenario.commits
  /\ depot' = updateSlabSummaryEntry(depot, s, Committer(s), FALSE, FALSE, depot.slab[s].free)

-----------------------------------------------------------------------------
(* Administration.                                                         *)

Suspend ==
  /\ Online /\ depot.suspends < scenario.suspends
  /\ \A v \in VIOs : depot.vio[v].phase = "idle"
  /\ depot' = [depot EXCEPT !.phase = "draining", !.suspends = @ + 1]

DrainZone(z) ==
  /\ depot.phase = "draining" /\ z \in LiveZones(depot)
  /\ CASE depot.zone[z].step = "none" -> depot' = stopScrubbing(depot, z)
       [] depot.zone[z].step = "drainSlabs" -> depot' = drainSlabs(depot, z)
       [] depot.zone[z].step = "summary" /\ ~depot.zone[z].writing ->
            depot' = [depot EXCEPT !.zone[z].step = "drained",
                        !.phase = IF \A y \in LiveZones(depot) \ {z} : depot.zone[y].step = "drained"
                                  THEN "suspended" ELSE @]
       [] OTHER -> FALSE

Resume ==
  /\ depot.phase = "suspended" /\ ~depot.readOnly
  /\ depot' = [depot EXCEPT !.phase = "resuming"]

ResumeZone(z) ==
  /\ depot.phase = "resuming" /\ z \in LiveZones(depot) /\ depot.zone[z].step = "drained"
  /\ depot' = [resumeBlockAllocator(depot, z) EXCEPT
                 !.phase = IF \E y \in LiveZones(depot) \ {z} : depot.zone[y].step = "drained"
                           THEN @ ELSE "online"]

inRecoveryMode == depot.loadType = "recovery" /\ ~depot.scrubbed

PrepareToGrow(n) ==
  /\ depot.phase \in {"online", "suspended"} /\ ~depot.readOnly /\ ~inRecoveryMode
  /\ n \in scenario.grow /\ n # depot.newSlabCount
  /\ depot' = prepareToGrowSlabDepot(depot, n)

AbandonGrowth ==
  /\ depot.phase \in {"online", "suspended"} /\ depot.newSlabCount > 0
  /\ depot' = abandonNewSlabs(depot)

\* The super block has the new size, then each zone gets its new slabs.
GrowPhysical ==
  /\ depot.phase = "suspended" /\ ~depot.readOnly /\ depot.newSlabCount > 0
  /\ depot' = [depot EXCEPT !.phase = "growing", !.super.slabCount = depot.newSlabCount,
                 !.zone = [z \in Zones |-> [@[z] EXCEPT !.prepared = TRUE]]]

RegisterNewSlabs(z) ==
  /\ depot.phase = "growing" /\ z \in LiveZones(depot) /\ depot.zone[z].prepared
  /\ LET registered == registerNewSlabsForAllocator(depot, z) IN
     depot' = IF \E y \in LiveZones(depot) \ {z} : depot.zone[y].prepared THEN registered
              ELSE finishRegistration(registered)

\* getDepotFreeBlocks, on a thread of its own: first what each zone has
\* allocated, then the capacity.
getDepotFreeBlocks(d) ==
  IF d.stat.zone < d.zoneCount
  THEN [d.stat EXCEPT !.zone = @ + 1, !.allocated = @ + d.zone[d.stat.zone].allocatedBlocks]
  ELSE [zone |-> 0, allocated |-> 0, free |-> d.slabCount * dataBlocks - d.stat.allocated]

ReadStatistics ==
  /\ depot.phase \in {"online", "draining", "suspended", "growing", "resuming"} /\ scenario.statistics
  /\ depot' = [depot EXCEPT !.stat = getDepotFreeBlocks(depot)]

Crash ==
  /\ depot.phase # "down" /\ ~depot.readOnly /\ ~depot.lost /\ depot.crashes < scenario.crashes
  /\ depot' = [depot EXCEPT !.phase = "down", !.crashes = @ + 1,
                 !.vio = [v \in VIOs |-> AllocatingVIO],
                 !.zone = [z \in Zones |-> makeBlockAllocator],
                 !.stat = [zone |-> 0, allocated |-> 0, free |-> 0]]

-----------------------------------------------------------------------------
ZoneStep(z) ==
  \/ PrepareZone(z) \/ ScrubZone(z) \/ JournalFlushed(z) \/ JournalRead(z)
  \/ SummaryWritten(z) \/ DrainZone(z) \/ ResumeZone(z) \/ RegisterNewSlabs(z)

SlabStep(s) == SlabDrained(s) \/ Share(s) \/ Free(s) \/ CommitTailBlock(s)

VIOStep(v) ==
  \/ AllocateDataBlock(v) \/ AllocateBlockForWrite(v) \/ Confirm(v) \/ Release(v) \/ Fail(v)

Next ==
  /\ UNCHANGED scenario
  /\ \/ Load \/ WriteSummary \/ LoadSlabs \/ MakeDirty
     \/ \E z \in Zones : ZoneStep(z)
     \/ \E s \in Slabs : SlabStep(s)
     \/ \E v \in VIOs : VIOStep(v)
     \/ Suspend \/ Resume \/ (\E n \in 1 .. MaxSlabs : PrepareToGrow(n)) \/ AbandonGrowth
     \/ GrowPhysical \/ ReadStatistics \/ Crash

-----------------------------------------------------------------------------
(* Fairness: threads run their callbacks, I/O completes, and the VDO which *)
(* is loaded, drained, resumed or grown goes on.  Each of these steps      *)
(* changes the state, so this is weak fairness with the enabling           *)
(* conditions spelled out.  Nobody need start or suspend anything.         *)

LoadStep == Load \/ WriteSummary \/ LoadSlabs \/ MakeDirty
MayLoad ==
  \/ depot.phase = "down" /\ depot.loadsDone < Len(scenario.loads)
  \/ depot.phase \in {"loading", "loaded"}

MayZone(z) ==
  LET zone == depot.zone[z] IN
  \/ Running /\ (zone.io \in {"flush", "read"} \/ zone.writing)
  \/ z < depot.zoneCount /\
     \/ depot.phase = "preparing" /\ ~zone.prepared /\ zone.completion = "none"
     \/ depot.phase = "preparing" /\ AllPrepared(depot)
     \/ depot.phase \in {"launching", "growing"} /\ zone.prepared
     \/ depot.phase = "draining" /\ zone.step \in {"none", "drainSlabs"}
     \/ depot.phase = "draining" /\ zone.step = "summary" /\ ~zone.writing
     \/ depot.phase = "resuming" /\ zone.step = "drained"

MayDrain(s) ==
  Running /\ s < depot.slabCount /\ s \in depot.zone[zoneOf(depot, s)].pending

VIOProgress(v) == AllocateBlockForWrite(v) \/ Confirm(v) \/ Release(v) \/ Fail(v)
MayVIO(v) == Online /\ depot.vio[v].phase \in {"allocating", "holding", "failed"}

Fairness ==
  /\ []<>~MayLoad \/ []<><<LoadStep>>_vars
  /\ \A z \in Zones : []<>~MayZone(z) \/ []<><<ZoneStep(z)>>_vars
  /\ \A s \in Slabs : []<>~MayDrain(s) \/ []<><<SlabDrained(s)>>_vars
  /\ \A v \in VIOs : []<>~MayVIO(v) \/ []<><<VIOProgress(v)>>_vars

Spec == Init /\ [][Next]_vars /\ Fairness

-----------------------------------------------------------------------------
Serving == depot.phase \in {"online", "draining", "suspended", "growing", "resuming"}
Registered(z) == {s \in Slabs : s <= depot.zone[z].lastSlab /\ s % depot.zoneCount = z}
Held(s) == Cardinality({v \in VIOs : depot.vio[v].phase = "holding" /\ depot.vio[v].allocation = s})
Unavailable(s) == IF isUnrecoveredSlab(depot, s) THEN dataBlocks ELSE dataBlocks - depot.slab[s].free

(* The counts can be relied on: a zone's allocated blocks are those its    *)
(* recovered slabs have in use and all of an unrecovered slab's, the       *)
(* unrecovered slabs are counted, and a reader of the depot's free blocks  *)
(* never sees a negative number, whatever is allocated, scrubbed, resumed  *)
(* or grown meanwhile (blockAllocator.c, queueSlab, adjustFreeBlockCount;  *)
(* slabDepot.c, getDepotFreeBlocks).                                       *)
AccountingIsExact ==
  /\ Serving => \A z \in LiveZones(depot) :
       /\ depot.zone[z].allocatedBlocks = MapThenSumSet(Unavailable, Registered(z))
       /\ depot.zone[z].scrubCount = Cardinality({s \in Registered(z) : isUnrecoveredSlab(depot, s)})
       /\ \A s \in Registered(z) : ~isUnrecoveredSlab(depot, s) =>
            depot.slab[s].free = dataBlocks - depot.used[s] - Held(s)
  /\ depot.stat.free >= 0

Places(z, s) ==
  LET zone == depot.zone[z]
      In(ring) == Cardinality({i \in DOMAIN ring : ring[i] = s})
  IN (IF zone.openSlab = s THEN 1 ELSE 0) + (IF zone.slab = s THEN 1 ELSE 0)
     + In(zone.highPrioritySlabs) + In(zone.slabs)
     + MapThenSumSet(LAMBDA p : In(zone.table[p]), Priorities)

(* No slab is mislaid: while the VDO serves requests each slab is in one   *)
(* place, open, in the priority table, to be scrubbed or being scrubbed;   *)
(* the table's search vector flags the buckets which have slabs; and when  *)
(* some slab has a free block, so has the open slab or the one which would *)
(* be opened next (blockAllocator.c, allocateBlock: "every slab must be    *)
(* fully allocated").                                                      *)
SlabsAreFound ==
  /\ ~depot.lost
  /\ depot.phase = "online" /\ ~depot.readOnly => \A z \in LiveZones(depot) :
       LET zone == depot.zone[z] IN
       /\ \A s \in Registered(z) : Places(z, s) = 1
       /\ zone.searchVector = {p \in Priorities : zone.table[p] # << >>}
       /\ (\E s \in Registered(z) : ~isUnrecoveredSlab(depot, s) /\ depot.slab[s].free > 0) =>
            \/ zone.openSlab # NONE /\ depot.slab[zone.openSlab].free > 0
            \/ zone.searchVector # {} /\ depot.slab[Head(zone.table[Max(zone.searchVector)])].free > 0

(* What the depot reports is true: a write is told there is no space only  *)
(* when no slab is left to be scrubbed (allocatingVIO.c, "no zone had      *)
(* slabs to scrub"), and the scrubbing is reported complete only when      *)
(* every slab is recovered, after any suspensions in between.              *)
ReportsAreTrue ==
  depot.phase # "down" /\ ~depot.readOnly =>
    /\ (\E v \in VIOs : depot.vio[v].phase = "failed") =>
         \A s \in 0 .. (depot.slabCount - 1) : ~isUnrecoveredSlab(depot, s)
    /\ depot.scrubbed => \A s \in 0 .. (depot.slabCount - 1) : ~isUnrecoveredSlab(depot, s)

(* A slab's summary entry survives: whatever the number of zones at each   *)
(* load, and wherever the load or the VDO crashed, the entry a loaded zone *)
(* goes by is the last its slab's zone had written (slabSummary.c,         *)
(* combineZones; "so each zone is correct for all slabs").                 *)
SummaryIsCurrent ==
  depot.phase \notin {"down", "loading"} =>
    \A s \in 0 .. (depot.slabCount - 1) :
      depot.entries[zoneOf(depot, s)][s].version >= depot.latest[s]

Stuck(v) == depot.vio[v].phase \in {"allocating", "waiting"}

(* Nothing is under way: no allocation, load, suspension, growth or        *)
(* resumption; and an online VDO is scrubbed, unless that is given up.     *)
AtRest ==
  \/ depot.lost
  \/ /\ \A v \in VIOs : ~Stuck(v)
     /\ depot.phase \notin {"loading", "preparing", "launching", "draining", "growing", "resuming"}
     /\ depot.phase = "online" => depot.scrubbed \/ depot.readOnly

(* Everything finishes: an allocation gets a block or an error, even if it *)
(* waits for a clean slab; loads, suspensions, growths and resumptions     *)
(* end; and scrubbing completes as long as the VDO stays online.           *)
EverythingFinishes == []<>AtRest
====
