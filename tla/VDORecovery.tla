----------------------------- MODULE VDORecovery -----------------------------
(***************************************************************************)
(* The recovery of a VDO which crashed (base/vdoRecovery.c) and the        *)
(* rebuild of one which was read-only (base/readOnlyRebuild.c), from the   *)
(* blocks of the recovery journal which are on storage (recoveryUtils.c,   *)
(* packedRecoveryJournalBlock.h).  The VDO runs, crashes, and is loaded;   *)
(* it may crash again during the recovery, and be loaded with another      *)
(* number of physical zones.                                               *)
(*                                                                         *)
(* What a crash leaves on storage (action Crash) follows from the order in *)
(* which the running VDO writes: modules RecoveryJournal, Slab and         *)
(* VDOPageCache.  A slab is what its journal says: the reference counts of *)
(* its blocks and the recovery point of its last entry.                    *)
(***************************************************************************)
EXTENDS Integers, Sequences, FiniteSets, FiniteSetsExt, SequencesExt

CONSTANTS SECTORS_PER_BLOCK, ENTRIES_PER_SECTOR, ENTRIES_PER_BLOCK,
          journalSize,          \* blocks of the recovery journal
          Slots,                \* the block map slots of the logical blocks
          TreeSlots,            \* the slots of the tree's pages
          SlabCount, dataBlocks, slabEntriesPerBlock,
          Scenarios

VARIABLES vdo, scenario

vars == <<vdo, scenario>>

ENTRIES_PER_LAST_SECTOR == ENTRIES_PER_BLOCK % ENTRIES_PER_SECTOR
Sectors == 1 .. (SECTORS_PER_BLOCK - 1)
Slabs == 0 .. (SlabCount - 1)
PBNs == 1 .. (SlabCount * dataBlocks)
ZERO_BLOCK == 0
AllSlots == Slots \cup TreeSlots

\* A DataLocation.
Location(pbn, mapped) == [pbn |-> pbn, mapped |-> mapped]
Unmapped == Location(ZERO_BLOCK, FALSE)
isMappedLocation(l) == l.mapped
isValidLocation(l) == l.pbn = ZERO_BLOCK \/ isMappedLocation(l)
isPhysicalDataBlock(pbn) == pbn = ZERO_BLOCK \/ pbn \in PBNs
getSlab(pbn) == (pbn - 1) \div dataBlocks

\* A RecoveryJournalEntry.
Entry(op, slot, l) == [operation |-> op, slot |-> slot, mapping |-> l]
isIncrementOperation(e) == e.operation # "DATA_DECREMENT"

validateRecoveryJournalEntry(e) ==
  /\ e.slot \in AllSlots
  /\ isValidLocation(e.mapping)
  /\ isPhysicalDataBlock(e.mapping.pbn)
  /\ e.operation = "BLOCK_MAP_INCREMENT" => e.mapping.pbn # ZERO_BLOCK

-----------------------------------------------------------------------------
(* The blocks of the journal on storage, and points in it.                 *)

computeRecoveryCheckByte(seq) == (seq \div journalSize) % 128

Sector(seq, count, entries) ==
  [checkByte |-> computeRecoveryCheckByte(seq), recoveryCount |-> count, entries |-> entries]

\* A block which was never written has no valid header.
Unformatted ==
  [sequenceNumber |-> 0, recoveryCount |-> 0 - 1, checkByte |-> 0, entryCount |-> 0,
   blockMapHead |-> 0, slabJournalHead |-> 0, logicalBlocksUsed |-> 0,
   blockMapDataBlocks |-> 0, sectors |-> [j \in Sectors |-> Sector(0, 0 - 1, << >>)]]

getRecoveryJournalBlockNumber(seq) == seq % journalSize
getJournalBlockHeader(data, seq) == data[getRecoveryJournalBlockNumber(seq)]

isValidRecoveryJournalBlock(count, header) == header.recoveryCount = count
isExactRecoveryJournalBlock(count, header, seq) ==
  header.sequenceNumber = seq /\ isValidRecoveryJournalBlock(count, header)
isCongruentRecoveryJournalBlock(count, header, offset) ==
  /\ getRecoveryJournalBlockNumber(header.sequenceNumber) = offset
  /\ isValidRecoveryJournalBlock(count, header)
isValidRecoveryJournalSector(header, sector) ==
  header.checkByte = sector.checkByte /\ header.recoveryCount = sector.recoveryCount

JournalPoint(seq, entry) == [sequenceNumber |-> seq, entryCount |-> entry]
beforeJournalPoint(first, second) ==
  \/ first.sequenceNumber < second.sequenceNumber
  \/ /\ first.sequenceNumber = second.sequenceNumber
     /\ first.entryCount < second.entryCount
advanceJournalPoint(point) ==
  IF point.entryCount + 1 = ENTRIES_PER_BLOCK THEN JournalPoint(point.sequenceNumber + 1, 0)
  ELSE JournalPoint(point.sequenceNumber, point.entryCount + 1)

RecoveryPoint(seq, sector, entry) ==
  [sequenceNumber |-> seq, sectorCount |-> sector, entryCount |-> entry]

incrementRecoveryPoint(point) ==
  LET next == [point EXCEPT !.entryCount = @ + 1]
      wrapped == IF /\ next.sectorCount = SECTORS_PER_BLOCK - 1
                    /\ next.entryCount = ENTRIES_PER_LAST_SECTOR
                 THEN RecoveryPoint(next.sequenceNumber + 1, 1, 0) ELSE next
  IN IF wrapped.entryCount = ENTRIES_PER_SECTOR
     THEN [wrapped EXCEPT !.sectorCount = @ + 1, !.entryCount = 0] ELSE wrapped

decrementRecoveryPoint(point) ==
  IF point.sectorCount <= 1 /\ point.entryCount = 0
  THEN RecoveryPoint(point.sequenceNumber - 1, SECTORS_PER_BLOCK - 1, ENTRIES_PER_LAST_SECTOR - 1)
  ELSE IF point.entryCount = 0
       THEN [point EXCEPT !.sectorCount = @ - 1, !.entryCount = ENTRIES_PER_SECTOR - 1]
       ELSE [point EXCEPT !.entryCount = @ - 1]

beforeRecoveryPoint(first, second) ==
  \/ first.sequenceNumber < second.sequenceNumber
  \/ /\ first.sequenceNumber = second.sequenceNumber
     /\ \/ first.sectorCount < second.sectorCount
        \/ first.sectorCount = second.sectorCount /\ first.entryCount < second.entryCount

getEntry(data, point) ==
  getJournalBlockHeader(data, point.sequenceNumber).sectors[point.sectorCount]
    .entries[point.entryCount + 1]

\* The entries from a point up to another one, in order.
RECURSIVE entriesBetween(_, _, _)
entriesBetween(data, point, end) ==
  IF ~beforeRecoveryPoint(point, end) THEN << >>
  ELSE <<getEntry(data, point)>> \o entriesBetween(data, incrementRecoveryPoint(point), end)

-----------------------------------------------------------------------------
(* What is found in the journal.                                           *)

findHeadAndTail(data, count, tail) ==
  LET valid == {data[i] : i \in {n \in DOMAIN data :
                                   isCongruentRecoveryJournalBlock(count, data[n], n)}}
      found == {h \in valid : h.sequenceNumber >= tail}
  IN [foundEntries |-> found # {},
      highestTail |-> Max({tail} \cup {h.sequenceNumber : h \in found}),
      blockMapHead |-> IF found = {} THEN 0 ELSE Max({0} \cup {h.blockMapHead : h \in valid}),
      slabJournalHead |-> IF found = {} THEN 0 ELSE Max({0} \cup {h.slabJournalHead : h \in valid})]

\* The sectors of a block from j on: f is what was found, blockEntries how
\* many of the header's entries are still to be seen.
RECURSIVE scanSectors(_, _, _, _)
scanSectors(header, j, blockEntries, f) ==
  IF j = SECTORS_PER_BLOCK \/ ~isValidRecoveryJournalSector(header, header.sectors[j])
  THEN [f EXCEPT !.missing = blockEntries]
  ELSE LET sectorEntries == Min({Len(header.sectors[j].entries), blockEntries})
           seen == IF sectorEntries = 0 THEN f
                   ELSE [f EXCEPT !.foundEntries = TRUE,
                                  !.point.sectorCount = @ + 1, !.point.entryCount = sectorEntries]
           left == blockEntries - sectorEntries
       IN IF sectorEntries < ENTRIES_PER_SECTOR \/ left = 0
          THEN [seen EXCEPT !.missing = left]
          ELSE scanSectors(header, j + 1, left, seen)

RECURSIVE scanBlocks(_, _, _, _, _)
scanBlocks(data, count, seq, highestTail, f) ==
  IF seq > highestTail THEN f
  ELSE LET header == getJournalBlockHeader(data, seq)
           here == [f EXCEPT !.tail = seq, !.point = RecoveryPoint(seq, 0, 0)]
       IN IF \/ ~isExactRecoveryJournalBlock(count, header, seq)
             \/ header.entryCount > ENTRIES_PER_BLOCK
          THEN here
          ELSE LET seen == scanSectors(header, 1, header.entryCount, here)
               IN IF header.entryCount # ENTRIES_PER_BLOCK \/ seen.missing > 0 THEN seen
                  ELSE scanBlocks(data, count, seq + 1, highestTail, seen)

\* Mutant: the tail is moved back even if nothing was found before it.
findContiguousRange_empty(data, count, head, highestTail) ==
  LET f == scanBlocks(data, count, head, highestTail,
                      [foundEntries |-> FALSE, tail |-> 0,
                       point |-> RecoveryPoint(0, 0, 0), missing |-> 0])
  IN IF f.point.sectorCount = 0 THEN [f EXCEPT !.tail = @ - 1] ELSE f

findContiguousRange(data, count, head, highestTail) ==
  LET f == scanBlocks(data, count, head, highestTail,
                      [foundEntries |-> FALSE, tail |-> 0,
                       point |-> RecoveryPoint(0, 0, 0), missing |-> 0])
  IN IF f.foundEntries /\ f.point.sectorCount = 0 THEN [f EXCEPT !.tail = @ - 1] ELSE f

\* The blocks used by the end of the journal, counted from the header of
\* its last block.
computeUsages(r) ==
  LET header == getJournalBlockHeader(r.journalData, r.tail)
      entries == entriesBetween(r.journalData, RecoveryPoint(r.tail, 1, 0), r.tailRecoveryPoint)
      of(op) == Cardinality({i \in DOMAIN entries : /\ entries[i].operation = op
                                                    /\ isMappedLocation(entries[i].mapping)})
  IN [r EXCEPT !.logicalBlocksUsed =
                 header.logicalBlocksUsed + of("DATA_INCREMENT") - of("DATA_DECREMENT"),
               !.blockMapDataBlocks = header.blockMapDataBlocks + of("BLOCK_MAP_INCREMENT")]

-----------------------------------------------------------------------------
(* The synthesis of the decrements which were not made.                    *)

NONE == 0 - 1
foundDecref == 0

MissingDecref(slot, point) ==
  [slot |-> slot, complete |-> FALSE, penultimateMapping |-> Unmapped, journalPoint |-> point]

RecoveryCompletion ==
  [journalData |-> << >>, result |-> "VDO_SUCCESS", increfCount |-> 0, entries |-> << >>,
   blockMapHead |-> 0, slabJournalHead |-> 0, tail |-> 0, highestTail |-> 0,
   tailRecoveryPoint |-> RecoveryPoint(0, 0, 0), nextRecoveryPoint |-> RecoveryPoint(0, 0, 0),
   nextJournalPoint |-> JournalPoint(0, 0), logicalBlocksUsed |-> 0, blockMapDataBlocks |-> 0,
   decrefs |-> << >>, incompleteDecrefCount |-> 0, allocator |-> 0, missingDecrefs |-> << >>,
   nextSynthesizedJournalPoint |-> JournalPoint(0, 0),
   \* for every slot foundDecref, the missing decref's number, or NONE
   slotEntryMap |-> [s \in AllSlots |-> NONE]]

\* Mutant: the points of decrefs which need no fetch are given out again.
makeMissingDecref_again(r, e) ==
  [r EXCEPT !.decrefs = Append(@, MissingDecref(e.slot, r.nextSynthesizedJournalPoint)),
            !.incompleteDecrefCount = @ + 1,
            !.slotEntryMap[e.slot] = Len(r.decrefs) + 1]

makeMissingDecref(r, e) ==
  [r EXCEPT !.decrefs = Append(@, MissingDecref(e.slot, r.nextSynthesizedJournalPoint)),
            !.nextSynthesizedJournalPoint.entryCount = @ + 1,
            !.incompleteDecrefCount = @ + 1,
            !.slotEntryMap[e.slot] = Len(r.decrefs) + 1]

recordMissingDecref(r, n, l, errorCode) ==
  LET counted == [r EXCEPT !.incompleteDecrefCount = @ - 1]
  IN IF isValidLocation(l) /\ isPhysicalDataBlock(l.pbn)
     THEN [counted EXCEPT !.decrefs[n].penultimateMapping = l, !.decrefs[n].complete = TRUE]
     ELSE [counted EXCEPT !.result = errorCode]

\* One entry, going backwards.
seeEntry(r, e) ==
  IF ~isIncrementOperation(e)
  THEN IF r.slotEntryMap[e.slot] = NONE THEN [r EXCEPT !.slotEntryMap[e.slot] = foundDecref] ELSE r
  ELSE LET decref == r.slotEntryMap[e.slot]
           seen == [r EXCEPT !.increfCount = @ + 1, !.slotEntryMap[e.slot] = NONE]
       IN CASE e.operation = "BLOCK_MAP_INCREMENT" ->
                 IF decref = NONE THEN seen ELSE [seen EXCEPT !.result = "VDO_CORRUPT_JOURNAL"]
            [] e.operation # "BLOCK_MAP_INCREMENT" /\ decref = foundDecref -> seen
            [] e.operation # "BLOCK_MAP_INCREMENT" /\ decref = NONE -> makeMissingDecref(seen, e)
            [] OTHER -> recordMissingDecref(seen, decref, e.mapping, "VDO_CORRUPT_JOURNAL")

RECURSIVE seeEntriesBackwards(_, _, _)
seeEntriesBackwards(r, headPoint, point) ==
  IF r.result # "VDO_SUCCESS" \/ ~beforeRecoveryPoint(headPoint, point) THEN r
  ELSE LET previous == decrementRecoveryPoint(point)
       IN seeEntriesBackwards(seeEntry(r, getEntry(r.journalData, previous)), headPoint, previous)

earliestHead(r) == Min({r.blockMapHead, r.slabJournalHead})

findMissingDecrefs(r) ==
  seeEntriesBackwards(
    [r EXCEPT !.nextSynthesizedJournalPoint = JournalPoint(r.tail, ENTRIES_PER_BLOCK)],
    RecoveryPoint(earliestHead(r), 1, 0), r.tailRecoveryPoint)

\* Each decref waits in the zone of its slab, in the order of their points.
queueOnPhysicalZones(r, zones) ==
  [r EXCEPT !.logicalBlocksUsed = @ - Cardinality({n \in DOMAIN r.decrefs :
                 isMappedLocation(r.decrefs[n].penultimateMapping)}),
            !.missingDecrefs = [z \in 0 .. (zones - 1) |->
       SelectSeq(r.decrefs, LAMBDA d : /\ d.penultimateMapping.pbn # ZERO_BLOCK
                                       /\ getSlab(d.penultimateMapping.pbn) % zones = z)]]

-----------------------------------------------------------------------------
(* The slab journals during the recovery.  An allocator has one VIO to     *)
(* write tail blocks: v.writes[z] is the block being written in zone z,    *)
(* followed by those which wait for the VIO.                               *)

SlabJournal(refs, point) == [refs |-> refs, recoveryPoint |-> point]
zoneOf(v, s) == s % v.zones
waitingToCommit(v, s) ==
  \E i \in DOMAIN v.writes[zoneOf(v, s)] : i > 1 /\ v.writes[zoneOf(v, s)][i].slab = s

commitSlabJournalTail(v, s) ==
  [v EXCEPT !.entryCount[s] = 0,
            !.writes[zoneOf(v, s)] = Append(@, [slab |-> s, tail |-> v.slab[s]])]

addEntry(v, pbn, increment, point) ==
  LET s == getSlab(pbn)
      added == [v EXCEPT !.slab[s].refs[pbn] = @ + IF increment THEN 1 ELSE 0 - 1,
                         !.slab[s].recoveryPoint = point,
                         !.entryCount[s] = @ + 1]
  IN IF added.entryCount[s] = slabEntriesPerBlock THEN commitSlabJournalTail(added, s) ELSE added

\* attemptReplayIntoSlabJournal, when the journal is not waiting to commit.
replayEntry(v, pbn, increment, point) ==
  IF beforeJournalPoint(v.slab[getSlab(pbn)].recoveryPoint, point)
  THEN addEntry(v, pbn, increment, point) ELSE v

\* Whether a replay has to wait for the slab's tail block to be written.
mustWait(v, pbn, point) ==
  /\ beforeJournalPoint(v.slab[getSlab(pbn)].recoveryPoint, point)
  /\ waitingToCommit(v, getSlab(pbn))

prepareReplay(v, z) ==
  [v EXCEPT !.r.allocator = z,
            !.r.nextRecoveryPoint = RecoveryPoint(v.r.slabJournalHead, 1, 0),
            !.r.nextJournalPoint = JournalPoint(v.r.slabJournalHead, 0)]

\* drainSlabDepot: the tail blocks with entries are written.
RECURSIVE drainSlabJournals(_, _)
drainSlabJournals(v, slabs) ==
  IF slabs = {} THEN v
  ELSE LET s == Min(slabs)
       IN drainSlabJournals(IF v.entryCount[s] > 0 THEN commitSlabJournalTail(v, s) ELSE v,
                            slabs \ {s})

finishRecoveringDepot(v) ==
  drainSlabJournals([v EXCEPT !.phase = "draining",
                              !.logicalBlocksUsed = v.r.logicalBlocksUsed,
                              !.blockMapDataBlocks = v.r.blockMapDataBlocks], Slabs)

\* The zones are recovered one after the other; in each the journal's
\* entries are replayed and then the synthesized ones, until one must wait.
RECURSIVE addSlabJournalEntries(_)
addSlabJournalEntries(v) ==
  LET z == v.r.allocator
      queue == v.r.missingDecrefs[z]
  IN IF beforeRecoveryPoint(v.r.nextRecoveryPoint, v.r.tailRecoveryPoint)
     THEN LET e == getEntry(v.r.journalData, v.r.nextRecoveryPoint)
              pbn == e.mapping.pbn
              advancePoints(w) ==
                [w EXCEPT !.r.nextRecoveryPoint = incrementRecoveryPoint(@),
                          !.r.nextJournalPoint = advanceJournalPoint(@)]
          IN IF ~validateRecoveryJournalEntry(e)
             THEN [v EXCEPT !.phase = "aborted"]
             ELSE IF pbn = ZERO_BLOCK THEN addSlabJournalEntries(advancePoints(v))
             ELSE IF zoneOf(v, getSlab(pbn)) # z THEN addSlabJournalEntries(advancePoints(v))
             ELSE IF mustWait(v, pbn, v.r.nextJournalPoint) THEN v
             ELSE addSlabJournalEntries(advancePoints(
                    replayEntry(v, pbn, isIncrementOperation(e), v.r.nextJournalPoint)))
     ELSE IF queue # << >>
     THEN LET d == Head(queue)
          IN IF mustWait(v, d.penultimateMapping.pbn, d.journalPoint) THEN v
             ELSE addSlabJournalEntries(
                    [replayEntry(v, d.penultimateMapping.pbn, FALSE, d.journalPoint)
                       EXCEPT !.r.missingDecrefs[z] = Tail(@)])
     ELSE IF z + 1 < v.zones THEN addSlabJournalEntries(prepareReplay(v, z + 1))
     ELSE finishRecoveringDepot(v)

-----------------------------------------------------------------------------
(* The steps of the recovery.                                              *)

computeRecoveryCountByte(n) == n % 256

\* Everything which is lost in a crash.
lose(v) ==
  [v EXCEPT !.phase = "down", !.zones = 1, !.slab = v.disk, !.entryCount = [s \in Slabs |-> 0],
            !.writes = [z \in {0} |-> << >>], !.r = RecoveryCompletion, !.fetching = {},
            !.pages = v.map, !.pending = {},
            !.tail = v.super.journalStart, !.completeRecoveries = v.super.completeRecoveries,
            !.logicalBlocksUsed = v.super.logicalBlocksUsed,
            !.blockMapDataBlocks = v.super.blockMapDataBlocks]

\* What decodeVDO and the start of a load put into memory.
load(v, zones) ==
  [lose(v) EXCEPT !.zones = zones, !.writes = [z \in 0 .. (zones - 1) |-> << >>], !.r = [RecoveryCompletion EXCEPT !.journalData = v.journal]]

abortRecovery(v) == [lose(v) EXCEPT !.phase = "aborted"]

finishRecovery(v) ==
  [v EXCEPT !.phase = "recovered", !.completeRecoveries = @ + 1, !.tail = v.r.highestTail + 1]

\* The last entry for a slot is the one which stays.
recoverBlockMap(v, entries) ==
  LET of(s) == {i \in DOMAIN entries : entries[i].slot = s}
  IN [v EXCEPT !.pages = [s \in AllSlots |-> IF of(s) = {} THEN v.map[s]
                                             ELSE entries[Max(of(s))].mapping],
               !.pending = {s \in AllSlots : of(s) # {}}]

extractJournalEntries(v) ==
  entriesBetween(v.r.journalData, RecoveryPoint(v.r.blockMapHead, 1, 0), v.r.tailRecoveryPoint)

launchBlockMapRecovery(v) ==
  LET all == extractJournalEntries(v)
      entries == SelectSeq(all, isIncrementOperation)
      mapping == recoverBlockMap([v EXCEPT !.phase = "mapping", !.r.entries = entries], entries)
  IN IF ~\A i \in DOMAIN all : validateRecoveryJournalEntry(all[i]) THEN abortRecovery(v)
     ELSE IF mapping.pending = {} THEN finishRecovery(mapping) ELSE mapping

isReplaying(v) == v.super.state = "replaying"

prepareToApplyJournalEntries(v) ==
  LET count == computeRecoveryCountByte(v.completeRecoveries)
      found == findHeadAndTail(v.r.journalData, count, v.tail)
      head == Min({found.blockMapHead, found.slabJournalHead})
      range == findContiguousRange(v.r.journalData, count, head, found.highestTail)
      foundEntries == found.foundEntries /\ range.foundEntries
      tail == IF found.foundEntries THEN range.tail ELSE 0
      r == [v.r EXCEPT !.highestTail = found.highestTail, !.blockMapHead = found.blockMapHead,
                       !.slabJournalHead = found.slabJournalHead, !.tail = tail,
                       !.tailRecoveryPoint = IF found.foundEntries THEN range.point ELSE @]
  IN CASE r.blockMapHead > tail \/ r.slabJournalHead > tail -> abortRecovery(v)
       [] r.blockMapHead <= tail /\ r.slabJournalHead <= tail /\ ~foundEntries ->
            finishRecovery([v EXCEPT !.r = r])
       [] r.blockMapHead <= tail /\ r.slabJournalHead <= tail /\ foundEntries /\ isReplaying(v) ->
            launchBlockMapRecovery([v EXCEPT !.r = r])
       [] OTHER -> [v EXCEPT !.phase = "finding", !.r = computeUsages(r)]

LaunchRecovery ==
  /\ vdo.phase = "down" /\ vdo.super.state \in {"dirty", "replaying"}
  /\ \E zones \in scenario.zones :
       vdo' = prepareToApplyJournalEntries(load(vdo, zones))
  /\ UNCHANGED scenario

FindSlabJournalEntries ==
  /\ vdo.phase = "finding"
  /\ LET r == findMissingDecrefs(vdo.r)
     IN vdo' = IF r.result # "VDO_SUCCESS" THEN abortRecovery(vdo)
               ELSE [vdo EXCEPT !.phase = "fetching", !.r = r,
                                !.fetching = {n \in DOMAIN r.decrefs : ~r.decrefs[n].complete}]
  /\ UNCHANGED scenario

\* The page of a decref's slot has been read from the block map.
ProcessFetchedPage(n) ==
  /\ vdo.phase = "fetching" /\ n \in vdo.fetching
  /\ vdo' = [vdo EXCEPT !.fetching = @ \ {n},
                        !.r = recordMissingDecref(@, n, vdo.map[vdo.r.decrefs[n].slot],
                                                  "VDO_BAD_MAPPING")]
  /\ UNCHANGED scenario

HandleFetchError(n) ==
  /\ vdo.phase = "fetching" /\ n \in vdo.fetching /\ scenario.fetchErrors
  /\ vdo' = [vdo EXCEPT !.fetching = @ \ {n}, !.r.incompleteDecrefCount = @ - 1,
                        !.r.result = "VDO_CORRUPT_JOURNAL"]
  /\ UNCHANGED scenario

depotIsDrained(v) == \A z \in DOMAIN v.writes : v.writes[z] = << >>
whenDrained(v) == IF v.phase = "draining" /\ depotIsDrained(v) THEN [v EXCEPT !.phase = "saving"] ELSE v

ApplyToDepot ==
  /\ vdo.phase = "fetching" /\ vdo.r.incompleteDecrefCount = 0
  /\ LET r == queueOnPhysicalZones(vdo.r, vdo.zones)
     IN vdo' = IF r.result # "VDO_SUCCESS" THEN abortRecovery(vdo)
               ELSE whenDrained(addSlabJournalEntries(
                      prepareReplay([vdo EXCEPT !.phase = "applying", !.r = r], 0)))
  /\ UNCHANGED scenario

\* A tail block has been written; the next one gets the VIO, and a replay
\* which waited for it goes on.
SlabJournalWritten(z) ==
  /\ vdo.phase \in {"applying", "draining"} /\ z \in DOMAIN vdo.writes /\ vdo.writes[z] # << >>
  /\ LET w == Head(vdo.writes[z])
         v == [vdo EXCEPT !.disk[w.slab] = w.tail, !.writes[z] = Tail(@)]
     IN vdo' = whenDrained(IF v.phase = "applying" THEN addSlabJournalEntries(v) ELSE v)
  /\ UNCHANGED scenario

SaveSuperBlock ==
  /\ vdo.phase = "saving"
  /\ vdo' = launchBlockMapRecovery(
              [vdo EXCEPT !.super = [@ EXCEPT !.state = "replaying",
                                      !.logicalBlocksUsed = vdo.logicalBlocksUsed,
                                      !.blockMapDataBlocks = vdo.blockMapDataBlocks]])
  /\ UNCHANGED scenario

\* The VDO is marked dirty and comes online.
MakeDirty ==
  /\ vdo.phase = "recovered"
  /\ LET super == [state |-> "dirty", journalStart |-> vdo.tail,
                   logicalBlocksUsed |-> vdo.logicalBlocksUsed,
                   blockMapDataBlocks |-> vdo.blockMapDataBlocks,
                   completeRecoveries |-> vdo.completeRecoveries]
     IN vdo' = [lose([vdo EXCEPT !.super = super]) EXCEPT !.phase = "online"]
  /\ UNCHANGED scenario

-----------------------------------------------------------------------------
(* The rebuild of a VDO which was read-only.                               *)

\* The entries which a rebuild takes from the sectors of a block: those
\* which are damaged are left out.
RECURSIVE sectorsOf(_, _, _)
sectorsOf(header, j, blockEntries) ==
  IF j = SECTORS_PER_BLOCK \/ blockEntries = 0 THEN << >>
  ELSE LET sector == header.sectors[j]
           n == Min({Len(sector.entries), ENTRIES_PER_SECTOR, blockEntries})
           usable(e) == validateRecoveryJournalEntry(e) /\ isIncrementOperation(e)
           here == IF isValidRecoveryJournalSector(header, sector)
                   THEN SelectSeq(SubSeq(sector.entries, 1, n), usable) ELSE << >>
       IN here \o sectorsOf(header, j + 1, blockEntries - Min({blockEntries, ENTRIES_PER_SECTOR}))

RECURSIVE rebuildEntries(_, _, _, _)
rebuildEntries(data, count, first, last) ==
  IF first > last THEN << >>
  ELSE LET header == getJournalBlockHeader(data, first)
       IN (IF isExactRecoveryJournalBlock(count, header, first)
           THEN sectorsOf(header, 1, Min({ENTRIES_PER_BLOCK, header.entryCount})) ELSE << >>)
          \o rebuildEntries(data, count, first + 1, last)

isGoodMapping(l) == isValidLocation(l) /\ (isMappedLocation(l) => isPhysicalDataBlock(l.pbn))

\* The reference counts according to the block map; what it should not
\* contain is removed from it.
rebuildReferenceCounts(v) ==
  LET good == [s \in AllSlots |-> IF isGoodMapping(v.map[s]) THEN v.map[s] ELSE Unmapped]
  IN [v EXCEPT !.phase = "counting", !.pages = good,
               !.pending = {s \in AllSlots : good[s] # v.map[s]},
               !.logicalBlocksUsed = Cardinality({s \in Slots : isMappedLocation(v.map[s])}),
               !.blockMapDataBlocks = Cardinality({s \in TreeSlots : isMappedLocation(v.map[s])}),
               !.slab = [b \in Slabs |-> SlabJournal(
                   [p \in PBNs |-> Cardinality({s \in AllSlots : good[s].pbn = p /\ getSlab(p) = b})],
                   JournalPoint(0, 0))]]

finishReferenceCountRebuild(v) ==
  [v EXCEPT !.phase = "drainingRebuild",
            !.completeRecoveries = @ + IF v.super.state = "upgrade" THEN 0 ELSE 1,
            !.writes = [z \in DOMAIN v.writes |->
                          [i \in 1 .. Cardinality({s \in Slabs : zoneOf(v, s) = z}) |->
                             [slab |-> z + (i - 1) * v.zones, tail |-> v.slab[z + (i - 1) * v.zones]]]]]

launchReferenceCountRebuild(v) ==
  LET counted == rebuildReferenceCounts(v)
  IN IF counted.pending = {} THEN finishReferenceCountRebuild(counted) ELSE counted

LaunchRebuild ==
  /\ vdo.phase = "down" /\ vdo.super.state \in {"forceRebuild", "upgrade"}
  /\ \E zones \in scenario.zones :
       LET v == load(vdo, zones)
           count == computeRecoveryCountByte(v.completeRecoveries)
           found == findHeadAndTail(v.journal, count, v.tail)
           entries == IF found.foundEntries
                      THEN rebuildEntries(v.journal, count, found.blockMapHead, found.highestTail)
                      ELSE << >>
           mapping == recoverBlockMap([v EXCEPT !.phase = "rebuilding",
                                                !.r.highestTail = found.highestTail], entries)
       IN vdo' = IF mapping.pending = {} THEN launchReferenceCountRebuild(mapping) ELSE mapping
  /\ UNCHANGED scenario

FinishRebuild ==
  /\ vdo.phase = "drainingRebuild" /\ depotIsDrained(vdo)
  /\ vdo' = [vdo EXCEPT !.phase = "recovered", !.tail = vdo.r.highestTail + 1]
  /\ UNCHANGED scenario

\* A slab's rebuilt reference counts are on storage.
RebuiltSlabWritten(z) ==
  /\ vdo.phase = "drainingRebuild" /\ z \in DOMAIN vdo.writes /\ vdo.writes[z] # << >>
  /\ LET w == Head(vdo.writes[z])
     IN vdo' = [vdo EXCEPT !.disk[w.slab] = w.tail, !.writes[z] = Tail(@)]
  /\ UNCHANGED scenario

\* A page of the block map has been written.
PageWritten(s) ==
  /\ vdo.phase \in {"mapping", "rebuilding", "counting"} /\ s \in vdo.pending
  /\ LET v == [vdo EXCEPT !.map[s] = vdo.pages[s], !.pending = @ \ {s}]
     IN vdo' = IF v.pending # {} THEN v
               ELSE CASE v.phase = "mapping" -> finishRecovery(v)
                      [] v.phase = "rebuilding" -> launchReferenceCountRebuild(v)
                      [] v.phase = "counting" -> finishReferenceCountRebuild(v)
  /\ UNCHANGED scenario

-----------------------------------------------------------------------------
(* The VDO runs, and crashes.  A round is a script of journal entries in   *)
(* the order of the journal: a write of a logical block makes an increment *)
(* for the new mapping and later a decrement for the old one, and does not *)
(* release the logical block before that; the decrement is not made before *)
(* the increment is committed, and the block map is changed when both are. *)

Script == scenario.rounds[vdo.round].script
incrementOf(script, k) ==
  Max({i \in 1 .. (k - 1) : script[i].slot = script[k].slot /\ script[i].operation # "DATA_DECREMENT"})

oldMapping(base, script, k) ==
  LET j == incrementOf(script, k)
      earlier == {i \in 1 .. (j - 1) : /\ script[i].slot = script[k].slot
                                       /\ script[i].operation # "DATA_DECREMENT"}
  IN IF earlier = {} THEN base[script[k].slot] ELSE script[Max(earlier)].mapping

entriesOf(base, script) ==
  [k \in DOMAIN script |->
     IF script[k].operation = "DATA_DECREMENT"
     THEN Entry("DATA_DECREMENT", script[k].slot, oldMapping(base, script, k)) ELSE script[k]]

\* Entry k (from 1) of a round whose first block is seq.
blockOf(seq, k) == seq + (k - 1) \div ENTRIES_PER_BLOCK
pointOf(seq, k) == JournalPoint(blockOf(seq, k), (k - 1) % ENTRIES_PER_BLOCK)

usedAfter(v, entries, k) ==
  LET of(op) == Cardinality({i \in 1 .. k : entries[i].operation = op /\ isMappedLocation(entries[i].mapping)})
  IN v.super.logicalBlocksUsed + of("DATA_INCREMENT") - of("DATA_DECREMENT")
treesAfter(v, entries, k) ==
  v.super.blockMapDataBlocks
    + Cardinality({i \in 1 .. k : entries[i].operation = "BLOCK_MAP_INCREMENT"})

\* The block seq of the journal with the first n of its entries.
journalBlock(v, entries, seq, n, bm, sj) ==
  LET first == (seq - v.tail) * ENTRIES_PER_BLOCK
      count == computeRecoveryCountByte(v.completeRecoveries)
      of(j) == {i \in 1 .. n : (i - 1) \div ENTRIES_PER_SECTOR = j - 1}
  IN [sequenceNumber |-> seq, recoveryCount |-> count,
      checkByte |-> computeRecoveryCheckByte(seq), entryCount |-> n,
      blockMapHead |-> bm, slabJournalHead |-> sj,
      logicalBlocksUsed |-> usedAfter(v, entries, first),
      blockMapDataBlocks |-> treesAfter(v, entries, first),
      sectors |-> [j \in Sectors |->
                     IF of(j) = {} THEN Sector(0, 0 - 1, << >>)
                     ELSE Sector(seq, count, SubSeq(entries, first + Min(of(j)), first + Max(of(j))))]]

\* How many of the first k entries are in block seq.
inBlock(v, seq, k) ==
  Max({0, Min({ENTRIES_PER_BLOCK, k - (seq - v.tail) * ENTRIES_PER_BLOCK})})

\* A block which is not full is only written when no other write is
\* pending, a full one at once.
mayBeInFlight(v, seq, n, issued, committed) ==
  /\ n > inBlock(v, seq, committed) /\ n <= inBlock(v, seq, issued)
  /\ n < ENTRIES_PER_BLOCK => committed >= (seq - v.tail) * ENTRIES_PER_BLOCK

\* What a write leaves on storage: each sector may be the old or the new.
torn(old, new, header, sectors) ==
  [(IF header THEN new ELSE old) EXCEPT
     !.sectors = [j \in Sectors |-> IF j \in sectors THEN new.sectors[j] ELSE old.sectors[j]]]

\* The entries which a slab journal has once it has its first n.
slabEntries(entries, s) ==
  {k \in DOMAIN entries : entries[k].mapping.pbn # ZERO_BLOCK /\ getSlab(entries[k].mapping.pbn) = s}
firstOf(set, n) == {k \in set : Cardinality({i \in set : i <= k}) <= n}

slabAfter(v, entries, s, in) ==
  IF in = {} THEN v.disk[s]
  ELSE SlabJournal([p \in PBNs |-> v.disk[s].refs[p]
                      + Cardinality({k \in in : entries[k].mapping.pbn = p /\ isIncrementOperation(entries[k])})
                      - Cardinality({k \in in : entries[k].mapping.pbn = p /\ ~isIncrementOperation(entries[k])})],
                   pointOf(v.tail, Max(in)))

\* The increments whose block map update has been made.
updates(entries, committed) ==
  {k \in 1 .. committed : /\ isIncrementOperation(entries[k])
                          /\ \/ entries[k].operation = "BLOCK_MAP_INCREMENT"
                             \/ \E d \in k .. committed : /\ entries[d].slot = entries[k].slot
                                                          /\ ~isIncrementOperation(entries[d])}

mapAfter(base, entries, set) ==
  [s \in AllSlots |-> LET of == {k \in set : entries[k].slot = s /\ isIncrementOperation(entries[k])}
                      IN IF of = {} THEN base[s] ELSE entries[Max(of)].mapping]

lastWriteAcknowledged(v, committed) == IF committed = 0 THEN v.tail ELSE blockOf(v.tail, committed)

\* How far a head may advance when the entries in held still need theirs.
reapLimit(v, issued, committed, held) ==
  Min({lastWriteAcknowledged(v, committed)} \cup {blockOf(v.tail, k) : k \in held})

BAD == 99
damaged(v, kinds) ==
  LET b == getRecoveryJournalBlockNumber(v.tail)
  IN [v EXCEPT !.journal[b] = CASE "header" \in kinds -> Unformatted
                                [] "entry" \in kinds /\ @.sectors[1].entries # << >> ->
                                     [@ EXCEPT !.sectors[1].entries[1].mapping.pbn = BAD]
                                [] OTHER -> @,
               !.map = IF "mapping" \in kinds
                       THEN [@ EXCEPT ![CHOOSE s \in Slots : TRUE] = Location(BAD, TRUE)] ELSE @]

Crash ==
  /\ vdo.phase = "online" /\ vdo.round <= Len(scenario.rounds)
  /\ scenario.rounds[vdo.round].end # "save"
  /\ LET v == vdo
         all == entriesOf(v.map, Script)
         round == scenario.rounds[v.round]
     IN \E issued \in round.issued, committed \in 0 .. Len(all) :
        /\ committed <= issued
        /\ \A i, k \in (committed + 1) .. issued : i # k => all[i].slot # all[k].slot
        /\ LET entries == SubSeq(all, 1, issued)
               made == updates(entries, committed)
               Blocks == {blockOf(v.tail, k) : k \in 1 .. issued}
           IN \E slabs \in [Slabs -> 0 .. committed],
                 written \in SUBSET made,
                 versions \in [Blocks -> 0 .. ENTRIES_PER_BLOCK] :
              /\ \A s \in Slabs :
                   slabs[s] <= Cardinality({k \in slabEntries(entries, s) : k <= committed})
              /\ \A k, i \in made : i < k /\ entries[i].slot = entries[k].slot /\ k \in written => i \in written
              /\ \A b \in Blocks : \/ versions[b] = inBlock(v, b, committed)
                                   \/ mayBeInFlight(v, b, versions[b], issued, committed)
              /\ LET in(s) == firstOf(slabEntries(entries, s), slabs[s])
                     unsaved == {k \in 1 .. issued :
                                   \E s \in Slabs : k \in slabEntries(entries, s) \ in(s)}
                     increments == {k \in 1 .. issued : isIncrementOperation(entries[k])}
                     bmLimit == reapLimit(v, issued, committed, increments \ written)
                     sjLimit == reapLimit(v, issued, committed, unsaved \cup (increments \ made))
                     Versioned == {b \in Blocks : versions[b] > 0}
                     Flying == {b \in Blocks : versions[b] > inBlock(v, b, committed)}
                     Tears == IF round.tears THEN [header : BOOLEAN, sectors : SUBSET Sectors]
                              ELSE {[header |-> FALSE, sectors |-> {}], [header |-> TRUE, sectors |-> Sectors]}
                 IN \E bm \in {v.tail, bmLimit}, sj \in {v.tail, sjLimit}, tears \in [Flying -> Tears] :
                    /\ Versioned = {} => bm = v.tail /\ sj = v.tail
                    /\ LET heads(b) == IF b = Max(Versioned) THEN <<bm, sj>> ELSE <<v.tail, v.tail>>
                           image(b, n) == IF n = 0 THEN getJournalBlockHeader(v.journal, b)
                                          ELSE journalBlock(v, entries, b, n, heads(b)[1], heads(b)[2])
                           block(b) == IF b \in Flying
                                       THEN torn(image(b, inBlock(v, b, committed)), image(b, versions[b]),
                                                 tears[b].header, tears[b].sectors)
                                       ELSE image(b, versions[b])
                           journal == [i \in DOMAIN v.journal |->
                                         IF \E b \in Blocks : getRecoveryJournalBlockNumber(b) = i
                                         THEN block(CHOOSE b \in Blocks : getRecoveryJournalBlockNumber(b) = i)
                                         ELSE v.journal[i]]
                           onStorage ==
                             [v EXCEPT !.journal = journal,
                                       !.disk = [s \in Slabs |-> slabAfter(v, entries, s, in(s))],
                                       !.map = mapAfter(v.map, entries, written),
                                       !.super.state = IF round.end = "crash" THEN "dirty" ELSE round.end,
                                       !.base = v.map, !.history = entries, !.committed = committed,
                                       !.round = @ + 1]
                       IN vdo' = lose(damaged(onStorage, round.damage))
  /\ UNCHANGED scenario

\* The VDO is saved and started again.
SaveAndLoad ==
  /\ vdo.phase = "online" /\ vdo.round <= Len(scenario.rounds)
  /\ scenario.rounds[vdo.round].end = "save"
  /\ LET v == vdo
         entries == entriesOf(v.map, Script)
         n == Len(entries)
         seqs == {blockOf(v.tail, k) : k \in 1 .. n}
         journal == [i \in DOMAIN v.journal |->
                       IF \E b \in seqs : getRecoveryJournalBlockNumber(b) = i
                       THEN LET b == CHOOSE b \in seqs : getRecoveryJournalBlockNumber(b) = i
                            IN journalBlock(v, entries, b, inBlock(v, b, n), v.tail, v.tail)
                       ELSE v.journal[i]]
         tail == Max(seqs) + 1
         saved == [v EXCEPT
            !.journal = journal,
            !.disk = [s \in Slabs |-> slabAfter(v, entries, s, slabEntries(entries, s))],
            !.map = mapAfter(v.map, entries, 1 .. n),
            !.super = [@ EXCEPT !.journalStart = Max(seqs) + 1,
                                !.logicalBlocksUsed = usedAfter(v, entries, n),
                                !.blockMapDataBlocks = treesAfter(v, entries, n)],
            !.base = v.map, !.history = entries, !.committed = n, !.round = @ + 1]
     IN vdo' = [lose(saved) EXCEPT !.phase = "online"]
  /\ UNCHANGED scenario

\* A crash during the recovery or the rebuild.
CrashAgain ==
  /\ vdo.phase \notin {"online", "down", "aborted"} /\ vdo.crashes < scenario.crashes
  /\ vdo' = [lose(vdo) EXCEPT !.crashes = @ + 1]
  /\ UNCHANGED scenario

\* There is nothing left to do.
Finished ==
  /\ \/ vdo.phase = "aborted"
     \/ vdo.phase = "online" /\ vdo.round > Len(scenario.rounds)
  /\ UNCHANGED vars

\* A formatted VDO.
Init ==
  /\ scenario \in Scenarios
  /\ vdo = [phase |-> "online", zones |-> 1,
            journal |-> [i \in 0 .. (journalSize - 1) |-> Unformatted],
            super |-> [state |-> "dirty", journalStart |-> 1, logicalBlocksUsed |-> 0,
                       blockMapDataBlocks |-> 0, completeRecoveries |-> 0],
            disk |-> [s \in Slabs |-> SlabJournal([p \in PBNs |-> 0], JournalPoint(0, 0))],
            slab |-> [s \in Slabs |-> SlabJournal([p \in PBNs |-> 0], JournalPoint(0, 0))],
            entryCount |-> [s \in Slabs |-> 0], writes |-> [z \in {0} |-> << >>],
            map |-> [s \in AllSlots |-> Unmapped], pages |-> [s \in AllSlots |-> Unmapped],
            pending |-> {}, fetching |-> {}, r |-> RecoveryCompletion,
            tail |-> 1, completeRecoveries |-> 0, logicalBlocksUsed |-> 0, blockMapDataBlocks |-> 0,
            round |-> 1, crashes |-> 0,
            base |-> [s \in AllSlots |-> Unmapped], history |-> << >>, committed |-> 0]

MaxDecrefs == Cardinality(Slots)
MaxZones == SlabCount

RecoveryStep ==
  \/ LaunchRecovery
  \/ FindSlabJournalEntries
  \/ \E n \in 1 .. MaxDecrefs : ProcessFetchedPage(n) \/ HandleFetchError(n)
  \/ ApplyToDepot
  \/ \E z \in 0 .. (MaxZones - 1) : SlabJournalWritten(z) \/ RebuiltSlabWritten(z)
  \/ SaveSuperBlock
  \/ \E s \in AllSlots : PageWritten(s)
  \/ LaunchRebuild
  \/ FinishRebuild
  \/ MakeDirty

Next == RecoveryStep \/ Crash \/ SaveAndLoad \/ CrashAgain \/ Finished

\* The layer runs every callback and finishes every I/O: every step of a
\* recovery changes the state, so this is weak fairness of RecoveryStep.
Fairness == []<>(vdo.phase \in {"online", "aborted"}) \/ []<><<RecoveryStep>>_vars

Spec == Init /\ [][Next]_vars /\ Fairness

-----------------------------------------------------------------------------
(* Properties.                                                             *)

\* A recovery trusts a page it does not read; a rebuild reads them all.
isTrusted == \A i \in DOMAIN scenario.rounds :
               scenario.rounds[i].end = "crash" => scenario.rounds[i].damage = {}
isDamaged == \E i \in DOMAIN scenario.rounds : scenario.rounds[i].damage # {}

\* Once the VDO is online after a crash, however often the recovery itself
\* was interrupted and with whatever zones it was retried, the reference
\* count of every block (slab journals, addSlabJournalEntries,
\* addSynthesizedEntries) is the number of block map slots which map to it;
\* after a rebuild (rebuildReferenceCounts) whatever was damaged.
ReferencesAreExact ==
  (vdo.phase = "online" /\ isTrusted) =>
    \A p \in PBNs : vdo.disk[getSlab(p)].refs[p] = Cardinality({s \in AllSlots : vdo.map[s].pbn = p})

\* The block map which a recovery leaves (findContiguousRange,
\* extractJournalEntries) is the one after some prefix of the journal which
\* has at least the entries the journal had committed: no acknowledged
\* write is lost, and nothing comes back from before or beyond a hole.
WritesSurvive ==
  (vdo.phase = "online" /\ ~isDamaged) =>
    \E p \in vdo.committed .. Len(vdo.history) :
      vdo.map = mapAfter(vdo.base, vdo.history, 1 .. p)

\* The counts of used blocks which the journal continues with
\* (computeUsages, queueOnPhysicalZone, rebuildReferenceCounts) are those of
\* the block map, unless the map itself held nonsense.
UsageIsExact ==
  (/\ vdo.phase = "online" /\ isTrusted
   /\ \A i \in DOMAIN scenario.rounds : "mapping" \notin scenario.rounds[i].damage) =>
    /\ vdo.logicalBlocksUsed = Cardinality({s \in Slots : isMappedLocation(vdo.map[s])})
    /\ vdo.blockMapDataBlocks = Cardinality({s \in TreeSlots : isMappedLocation(vdo.map[s])})

\* A VDO which went down came online again, or its recovery gave up
\* (abortRecovery), which it does only if the journal or the block map is
\* damaged or cannot be read.
Recovered ==
  \/ vdo.phase = "online"
  \/ vdo.phase = "aborted" /\ (isDamaged \/ scenario.fetchErrors)
====
