------------------------------ MODULE UdsIndex ------------------------------
(***************************************************************************)
(* The UDS index as a whole (uds/index.c, uds/indexZone.c,                 *)
(* uds/chapterWriter.c, uds/indexCheckpoint.c, uds/indexState.c,           *)
(* uds/indexComponent.c, uds/singleFileLayout.c): zone threads record      *)
(* names in the open chapter, the chapter writer writes closed chapters to *)
(* the volume, checkpoints and saves copy the index state into save slots, *)
(* and an index that starts loads the latest slot and replays the volume.  *)
(* A zone's part of the master index is a function from names to chapters  *)
(* here: the module MasterIndex shows that it is one, up to collisions.    *)
(***************************************************************************)
EXTENDS UdsVolume, Sequences

CONSTANTS
    Zones,       \* the zones, 0 .. zoneCount - 1
    Names,       \* the chunk names
    zoneOf,      \* getMasterIndexZone: the zone of each name
    capacity,    \* the records of one zone in an open chapter
    Slots,       \* the save slots, from 0
    Scenarios    \* what happens in a behaviour, and its bounds: no request is
                 \* taken at a later open chapter than maxChapter, no save
                 \* before the open chapter saveFrom, and there are at most
                 \* maxSaves saves and checkpoints

VARIABLES
    scenario,    \* one of Scenarios, fixed
    phase,       \* what the index as a whole is doing
    zones,       \* the index zones
    mi,          \* the master index: the chapter of each name
    index,       \* the fields of the Index itself
    writer,      \* the chapter writer
    checkpoint,  \* the checkpoint in progress
    layout,      \* the save slots as the layout has them in memory
    disk,        \* the save slots on storage
    volume,      \* the chapters on storage
    unsynced,    \* the writes a crash may undo, oldest first
    time         \* the clock that stamps saves

vars == <<scenario, phase, zones, mi, index, writer, checkpoint, layout, disk,
          volume, unsynced, time>>

None == -1  \* no chapter, and NO_LAST_CHECKPOINT

zoneCount == Cardinality(Zones)

NamesOf(z) == {n \in Names : zoneOf[n] = z}

-----------------------------------------------------------------------------
(***************************************************************************)
(* Open chapters (uds/openChapterZone.c): the records in the order they    *)
(* came, each marked once it is deleted.                                   *)
(***************************************************************************)
Live(chapter) == {chapter[i].name : i \in {i \in DOMAIN chapter :
                                             ~ chapter[i].deleted}}

searchOpenChapter(chapter, n) == n \in Live(chapter)

putOpenChapter(chapter, n) ==
    IF searchOpenChapter(chapter, n) THEN chapter
    ELSE Append(chapter, [name |-> n, deleted |-> FALSE])

removeFromOpenChapter(chapter, n) ==
    [i \in DOMAIN chapter |->
       IF chapter[i].name = n THEN [chapter[i] EXCEPT !.deleted = TRUE]
       ELSE chapter[i]]

(***************************************************************************)
(* The records of a saved open chapter, read back: a zone that is about to *)
(* run out of space takes no more, since no chapter can be closed here.    *)
(***************************************************************************)
RECURSIVE loadVersion20(_, _)
loadVersion20(saved, chapter) ==
    IF saved = <<>> \/ capacity - Len(chapter) <= 1 THEN chapter
    ELSE loadVersion20(Tail(saved), putOpenChapter(chapter, saved[1].name))

saveOpenChapters(chapter) == SelectSeq(chapter, LAMBDA r : ~ r.deleted)

-----------------------------------------------------------------------------
(***************************************************************************)
(* The master index: moving the window drops the new open chapter, later   *)
(* ones, and those that the volume has no room for.                        *)
(***************************************************************************)
setMasterIndexZoneOpenChapter_keepOldest(records, owned, open) ==
    [n \in Names |->
       IF n \in owned /\ records[n] >= open THEN None ELSE records[n]]

setMasterIndexZoneOpenChapter(records, owned, open) ==
    [n \in Names |->
       IF n \in owned /\ ~ (/\ records[n] < open
                           /\ records[n] > open - chaptersPerVolume(volume))
       THEN None ELSE records[n]]

EmptyIndex == [n \in Names |-> None]

(***************************************************************************)
(* Looking a name up where the master index says it is.                    *)
(***************************************************************************)
getRecordFromZone(z, n, virtualChapter) ==
    IF virtualChapter = zones[z].newest
    THEN searchOpenChapter(zones[z].open, n)
    ELSE IF virtualChapter = zones[z].newest - 1 /\ zones[z].writing # <<>>
    THEN searchOpenChapter(zones[z].writing, n)
    ELSE n \in volume[mapToPhysicalChapter(volume, virtualChapter)].names

Found(z, n) == mi[n] # None /\ getRecordFromZone(z, n, mi[n])

-----------------------------------------------------------------------------
(***************************************************************************)
(* Save slots (uds/singleFileLayout.c).  The layout keeps their headers in *)
(* memory.  A save or checkpoint takes the oldest slot, or one that holds  *)
(* nothing, and wipes its header on storage before anything is written.    *)
(***************************************************************************)
NoSave == [type |-> "none", time |-> 0]

WithTime(slots, t) ==
    CHOOSE s \in Slots : /\ slots[s].time = t
                         /\ \A r \in Slots : slots[r].time = t => s <= r

selectOldestIndexSaveLayout(slots) ==
    WithTime(slots, CHOOSE t \in {slots[s].time : s \in Slots} :
                      \A s \in Slots : t <= slots[s].time)

selectLatestIndexSaveLayout(slots) ==
    WithTime(slots, CHOOSE t \in {slots[s].time : s \in Slots} :
                      \A s \in Slots : t >= slots[s].time)

Unsaved == [type |-> "none", time |-> 0,
            state |-> [newest |-> 0, oldest |-> 0, last |-> None],
            mi |-> EmptyIndex, whole |-> FALSE,
            open |-> [z \in Zones |-> <<>>], cleared |-> FALSE]

setupSingleFileIndexSaveSlot(slot, type) ==
    /\ time' = time + 1
    /\ layout' = [layout EXCEPT ![slot] = [type |-> type, time |-> time + 1]]
    /\ disk' = [disk EXCEPT ![slot] = Unsaved]

-----------------------------------------------------------------------------
(***************************************************************************)
(* Checkpoints.  A checkpoint starts when the first zone opens a chapter   *)
(* whose number is a multiple of the frequency, and every zone finishes    *)
(* its part when it opens the chapter before the next multiple.            *)
(***************************************************************************)
NoCheckpoint ==
    [state |-> "NOT_CHECKPOINTING", zonesBusy |-> 0, saving |-> FALSE,
     slot |-> 0, statePhase |-> "IDLE",
     phase |-> [z \in Zones |-> "IDLE"],
     mi |-> EmptyIndex, whole |-> TRUE,
     data |-> [newest |-> 0, oldest |-> 0, last |-> None]]

getCheckpointAction(virtualChapter) ==
    IF scenario.frequency = 0 THEN "IDLE"
    ELSE IF checkpoint.state = "CHECKPOINT_IN_PROGRESS"
    THEN IF virtualChapter % scenario.frequency = scenario.frequency - 1
         THEN "FINISH" ELSE "CONTINUE"
    ELSE IF virtualChapter % scenario.frequency = 0 THEN "START" ELSE "IDLE"

beginSave(openChapterNumber) ==
    [index EXCEPT !.prevCheckpoint = index.lastCheckpoint,
                  !.lastCheckpoint = openChapterNumber - 1]

startIndexStateCheckpoint(slot) ==
    [NoCheckpoint EXCEPT !.state = "CHECKPOINT_IN_PROGRESS",
                         !.zonesBusy = zoneCount, !.saving = TRUE,
                         !.slot = slot, !.statePhase = "START",
                         !.phase = [z \in Zones |-> "START"]]

IndexData == [newest |-> index.newest, oldest |-> index.oldest,
              last |-> index.lastCheckpoint]

(***************************************************************************)
(* The copy of one zone's part of the master index.  Each of its delta     *)
(* lists is written before it changes, so the copy is the part as it was   *)
(* when the zone started; it is finished without its closing guard list if *)
(* all lists happened to be written before the zone was told to finish,    *)
(* and without its beginning if the zone was told so before it started.    *)
(***************************************************************************)
CopyZone(ck, z) ==
    [ck EXCEPT !.mi = [n \in Names |-> IF n \in NamesOf(z) THEN mi[n] ELSE @[n]]]

performIndexComponentZoneSave(ck, z, allWritten) ==
    CASE ck.phase[z] = "START" ->
           [CopyZone(ck, z) EXCEPT !.phase[z] = "CONTINUE"]
      [] ck.phase[z] = "CONTINUE" /\ allWritten ->
           [ck EXCEPT !.phase[z] = "IDLE", !.whole = FALSE]
      [] OTHER -> ck

finishIndexComponentZoneSave(ck, z) ==
    IF ck.phase[z] = "IDLE" THEN ck
    ELSE [ck EXCEPT !.phase[z] = "IDLE",
                    !.whole = @ /\ ck.phase[z] = "CONTINUE"]

(***************************************************************************)
(* The index state itself is written by the chapter writer; zone 0 then    *)
(* takes note of it.                                                       *)
(***************************************************************************)
performIndexComponentChapterWriterSave(ck) ==
    IF ck.statePhase = "START"
    THEN [ck EXCEPT !.statePhase = "DONE", !.data = IndexData]
    ELSE ck

NoteIndexState(ck, z, finishing) ==
    IF z = 0 /\ ck.statePhase = "DONE" /\ ~ finishing
    THEN [ck EXCEPT !.statePhase = "IDLE"]
    ELSE IF z = 0 /\ ck.statePhase = "START" /\ finishing
    THEN [ck EXCEPT !.statePhase = "IDLE", !.data = IndexData]
    ELSE ck

(***************************************************************************)
(* A zone's turn, and whether the zone completed its part in it: then no   *)
(* component of it is unfinished and at least one was before the turn.     *)
(***************************************************************************)
doIndexStateCheckpointInZone(ck, z, action, allWritten) ==
    IF action = "FINISH"
    THEN finishIndexComponentZoneSave(NoteIndexState(ck, z, TRUE), z)
    ELSE performIndexComponentZoneSave(NoteIndexState(ck, z, FALSE), z,
                                       allWritten)

JustCompleted(ck, turn, z, action) ==
    /\ turn.phase[z] = "IDLE"
    /\ z = 0 => turn.statePhase # "START"
    /\ \/ ck.phase[z] # "IDLE"
       \/ z = 0 /\ ck.statePhase = "DONE"
       \/ z = 0 /\ ck.statePhase = "START" /\ action = "FINISH"

(***************************************************************************)
(* The last zone to complete commits the checkpoint: the header of its     *)
(* slot goes to storage.                                                   *)
(***************************************************************************)
CheckpointSlot(ck) ==
    [Unsaved EXCEPT !.type = "checkpoint", !.time = layout[ck.slot].time,
                    !.state = ck.data, !.mi = ck.mi, !.whole = ck.whole]

finishIndexStateCheckpoint(ck) ==
    /\ checkpoint' = NoCheckpoint
    /\ disk' = [disk EXCEPT ![ck.slot] = CheckpointSlot(ck)]

doCheckpointProcess(turn, z, action) ==
    IF JustCompleted(checkpoint, turn, z, action)
    THEN IF turn.zonesBusy = 1
         THEN finishIndexStateCheckpoint(turn)
         ELSE /\ checkpoint' = [turn EXCEPT !.zonesBusy = @ - 1]
              /\ UNCHANGED disk
    ELSE checkpoint' = turn /\ UNCHANGED disk

-----------------------------------------------------------------------------
(***************************************************************************)
(* Requests.  A search that records its name (a new name, an update, or a  *)
(* name that moves to the open chapter because it was used) puts it into   *)
(* the open chapter, and closes the chapter if that was its last place. A  *)
(* search that records nothing changes nothing.                            *)
(***************************************************************************)
Working(z) == phase = "up" /\ zones[z].pc = "idle"

searchIndexZone(z, n) ==
    /\ Working(z)
    /\ zones[z].newest <= scenario.maxChapter
    /\ ~ (Found(z, n) /\ mi[n] = zones[z].newest)
    /\ mi' = [mi EXCEPT ![n] = zones[z].newest]
    /\ \E chapter \in {putOpenChapter(zones[z].open, n)} :
         zones' = [zones EXCEPT ![z].open = chapter,
                                ![z].pc = IF Len(chapter) = capacity
                                          THEN "swap" ELSE "idle"]
    /\ UNCHANGED <<scenario, phase, index, writer, checkpoint, layout, disk,
                   volume, unsynced, time>>

removeFromIndexZone(z, n) ==
    /\ Working(z) /\ scenario.remove
    /\ Found(z, n)
    /\ mi' = [mi EXCEPT ![n] = None]
    /\ zones' = IF mi[n] = zones[z].newest
                THEN [zones EXCEPT ![z].open = removeFromOpenChapter(@, n)]
                ELSE zones
    /\ UNCHANGED <<scenario, phase, index, writer, checkpoint, layout, disk,
                   volume, unsynced, time>>

(***************************************************************************)
(* A zone hears that another zone has closed a chapter.                    *)
(***************************************************************************)
handleChapterClosed(z) ==
    /\ Working(z)
    /\ zones[z].queue # <<>>
    /\ zones' = [zones EXCEPT ![z].queue = Tail(@),
                              ![z].pc = IF zones[z].newest = zones[z].queue[1]
                                        THEN "swap" ELSE "idle"]
    /\ UNCHANGED <<scenario, phase, mi, index, writer, checkpoint, layout,
                   disk, volume, unsynced, time>>

(***************************************************************************)
(* openNextChapter, up to the first mutex of processCheckpointing: once    *)
(* the chapter before has been written, the open chapter becomes the       *)
(* writing chapter, the master index forgets the chapter that the new one  *)
(* will overwrite, and the checkpoint action is decided.                   *)
(***************************************************************************)
finishPreviousChapter(currentChapterNumber) ==
    index.newest >= currentChapterNumber

openNextChapter(z) ==
    /\ phase = "up" /\ zones[z].pc = "swap"
    /\ finishPreviousChapter(zones[z].newest)
    /\ \E newest \in {zones[z].newest + 1} :
       \E action \in {getCheckpointAction(newest)} :
         /\ zones' = [zones EXCEPT ![z].newest = newest, ![z].open = <<>>,
                                   ![z].writing = zones[z].open,
                                   ![z].pc = "checkpoint",
                                   ![z].action = action]
         /\ mi' = setMasterIndexZoneOpenChapter(mi, NamesOf(z), newest)
         /\ IF action = "START" /\ time < scenario.maxSaves
            THEN /\ index' = beginSave(newest)
                 /\ \E slot \in {selectOldestIndexSaveLayout(layout)} :
                      /\ setupSingleFileIndexSaveSlot(slot, "checkpoint")
                      /\ checkpoint' = startIndexStateCheckpoint(slot)
            ELSE UNCHANGED <<index, layout, disk, time, checkpoint>>
    /\ UNCHANGED <<scenario, phase, writer, volume, unsynced>>

(***************************************************************************)
(* The rest of openNextChapter: the zone's turn in the checkpoint, then    *)
(* its chapter goes to the writer; the first zone to close a chapter tells *)
(* the others, and the oldest chapter goes if the new one shadows it.      *)
(***************************************************************************)
startClosingChapter(z) ==
    writer' = [writer EXCEPT !.zonesToWrite = @ + 1,
                             !.chapters[z] = zones[z].writing]

announceChapterClosed(z, queue, closedChapter, zone) ==
    IF zone # z /\ writer.zonesToWrite = 0 THEN Append(queue, closedChapter)
    ELSE queue

Shadowed(newest, oldest) ==
    IF areSamePhysicalChapter(volume, newest, oldest) THEN oldest + 1 ELSE oldest

closeChapter(z) ==
    /\ phase = "up" /\ zones[z].pc = "checkpoint"
    /\ IF zones[z].action = "IDLE" \/ checkpoint.state = "NOT_CHECKPOINTING"
       THEN UNCHANGED <<checkpoint, disk>>
       ELSE \E allWritten \in BOOLEAN :
              doCheckpointProcess(
                doIndexStateCheckpointInZone(checkpoint, z, zones[z].action,
                                             allWritten), z, zones[z].action)
    /\ startClosingChapter(z)
    /\ zones' = [y \in Zones |->
         [zones[y] EXCEPT
            !.queue = announceChapterClosed(z, @, zones[z].newest - 1, y),
            !.oldest = IF y = z THEN Shadowed(zones[z].newest, @) ELSE @,
            !.pc = IF y = z THEN "idle" ELSE @,
            !.action = IF y = z THEN "IDLE" ELSE @]]
    /\ UNCHANGED <<scenario, phase, mi, index, layout, volume, unsynced, time>>

-----------------------------------------------------------------------------
(***************************************************************************)
(* The chapter writer thread.  Once every zone has closed its chapter, it  *)
(* discards the saved open chapter, if there is one, from the latest slot  *)
(* the layout knows of (a slot of a checkpoint has no open chapter, and    *)
(* then nothing is discarded), writes the chapter, lets the checkpoint     *)
(* save the index state, and moves the index on.                           *)
(***************************************************************************)
ClearSlot(s) == [clear |-> TRUE, at |-> s, was |-> Blank]

WriteSlot(p) == [clear |-> FALSE, at |-> p, was |-> volume[p]]

discardIndexComponent_none(s) == UNCHANGED <<disk, unsynced>>

discardIndexComponent(s) ==
    IF layout[s].type = "save"
    THEN /\ disk' = [disk EXCEPT ![s].cleared = TRUE]
         /\ unsynced' = Append(unsynced, ClearSlot(s))
    ELSE UNCHANGED <<disk, unsynced>>

closeChapters ==
    /\ phase = "up" /\ writer.zonesToWrite = zoneCount /\ writer.pc = "wait"
    /\ writer' = [writer EXCEPT !.pc = "write"]
    /\ IF index.hasSavedOpenChapter
       THEN /\ index' = [index EXCEPT !.hasSavedOpenChapter = FALSE]
            /\ discardIndexComponent(selectLatestIndexSaveLayout(layout))
       ELSE UNCHANGED <<index, disk, unsynced>>
    /\ UNCHANGED <<scenario, phase, zones, mi, checkpoint, layout, volume, time>>

(***************************************************************************)
(* The record that fills the rest of the chapter is the last one of a zone *)
(* that is full; the chapter then holds the live records of all zones.     *)
(***************************************************************************)
FillZones == {z \in Zones : Len(writer.chapters[z]) = capacity}

fillDeltaChapterIndex == UNION {Live(writer.chapters[z]) : z \in Zones}

closeOpenChapter ==
    /\ phase = "up" /\ writer.pc = "write"
    /\ writer' = [writer EXCEPT !.pc = "advance"]
    /\ \E p \in {mapToPhysicalChapter(volume, index.newest)} :
         /\ volume' = [volume EXCEPT ![p] = [vcn |-> index.newest,
                                             names |-> fillDeltaChapterIndex]]
         /\ unsynced' = Append(unsynced, WriteSlot(p))
    /\ UNCHANGED <<scenario, phase, zones, mi, index, checkpoint, layout, disk,
                   time>>

advanceActiveChapters ==
    /\ phase = "up" /\ writer.pc = "advance"
    /\ checkpoint' = IF checkpoint.state = "CHECKPOINT_IN_PROGRESS"
                     THEN performIndexComponentChapterWriterSave(checkpoint)
                     ELSE checkpoint
    /\ index' = [index EXCEPT !.newest = @ + 1,
                              !.oldest = Shadowed(index.newest + 1, @)]
    /\ writer' = [writer EXCEPT !.pc = "wait", !.zonesToWrite = 0]
    /\ UNCHANGED <<scenario, phase, zones, mi, layout, disk, volume, unsynced,
                   time>>

-----------------------------------------------------------------------------
(***************************************************************************)
(* Saving.  The queues are empty and the chapter writer is idle; the       *)
(* volume is made durable, a checkpoint in progress is finished, and then  *)
(* all of the index goes into a slot.                                      *)
(***************************************************************************)
waitForIdle ==
    /\ \A z \in Zones : zones[z].pc = "idle" /\ zones[z].queue = <<>>
    /\ writer.zonesToWrite = 0

saveIndex ==
    /\ phase = "up" /\ scenario.save /\ time < scenario.maxSaves
    /\ index.newest >= scenario.saveFrom
    /\ waitForIdle
    /\ phase' = "saving"
    /\ unsynced' = <<>>
    /\ UNCHANGED <<scenario, zones, mi, index, writer, checkpoint, layout,
                   disk, volume, time>>

RECURSIVE FinishZones(_, _)
FinishZones(ck, z) ==
    IF z = zoneCount THEN ck
    ELSE FinishZones(doIndexStateCheckpointInZone(ck, z, "FINISH", FALSE), z + 1)

finishCheckpointing ==
    /\ phase = "saving"
    /\ checkpoint.state = "CHECKPOINT_IN_PROGRESS"
    /\ finishIndexStateCheckpoint(
         FinishZones(performIndexComponentChapterWriterSave(checkpoint), 0))
    /\ UNCHANGED <<scenario, phase, zones, mi, index, writer, layout, volume,
                   unsynced, time>>

saveIndexState ==
    /\ phase = "saving"
    /\ checkpoint.state = "NOT_CHECKPOINTING"
    /\ phase' = "writing"
    /\ index' = beginSave(index.newest)
    /\ setupSingleFileIndexSaveSlot(selectOldestIndexSaveLayout(layout), "save")
    /\ UNCHANGED <<scenario, zones, mi, writer, checkpoint, volume, unsynced>>

SavedSlot(t) ==
    [type |-> "save", time |-> t, state |-> IndexData, mi |-> mi,
     whole |-> TRUE, cleared |-> FALSE,
     open |-> [z \in Zones |-> saveOpenChapters(zones[z].open)]]

commitSingleFileIndexSave ==
    /\ phase = "writing"
    /\ phase' = "up"
    /\ disk' = [disk EXCEPT ![selectLatestIndexSaveLayout(layout)]
                              = SavedSlot(time)]
    /\ index' = [index EXCEPT !.hasSavedOpenChapter = TRUE]
    /\ UNCHANGED <<scenario, zones, mi, writer, checkpoint, layout, volume,
                   unsynced, time>>

-----------------------------------------------------------------------------
(***************************************************************************)
(* A crash.  Of the writes not yet synced the first ones are on storage;   *)
(* of the chapters after them some are torn and the rest still hold what   *)
(* was there before, as findVolumeChapterBoundariesImpl assumes: "at most  *)
(* one run of contiguous bad chapters caused by unflushed writes".         *)
(***************************************************************************)
Lost(kept) == SubSeq(unsynced, kept + 1, Len(unsynced))

LostChapters(kept) == SelectSeq(Lost(kept), LAMBDA w : ~ w.clear)

RECURSIVE Undo(_, _, _)
Undo(vol, lost, torn) ==
    IF lost = <<>> THEN vol
    ELSE [Undo(vol, Tail(lost), torn - 1) EXCEPT
            ![lost[1].at] = IF torn > 0 THEN Blank
                            ELSE lost[1].was]

Uncleared(kept) ==
    {w.at : w \in {Lost(kept)[i] : i \in {i \in DOMAIN Lost(kept) :
                                             Lost(kept)[i].clear}}}

Header(slot) == [type |-> slot.type, time |-> slot.time]

NewZone(newest, oldest, open) ==
    [newest |-> newest, oldest |-> oldest, open |-> open, writing |-> <<>>,
     pc |-> "idle", action |-> "IDLE", queue |-> <<>>]

NewWriter == [pc |-> "wait", zonesToWrite |-> 0,
              chapters |-> [z \in Zones |-> <<>>]]

NewIndex(newest, oldest, lastCheckpoint, hasSavedOpenChapter) ==
    [newest |-> newest, oldest |-> oldest, lastCheckpoint |-> lastCheckpoint,
     prevCheckpoint |-> 0, hasSavedOpenChapter |-> hasSavedOpenChapter]

Crash ==
    /\ phase \in {"up", "saving", "writing"}
    /\ phase' = "down"
    /\ \E kept \in 0 .. Len(unsynced) :
         /\ Len(LostChapters(kept)) <= scenario.lost
         /\ \E torn \in 0 .. Len(LostChapters(kept)) :
              volume' = Undo(volume, LostChapters(kept), torn)
         /\ disk' = [s \in Slots |-> IF s \in Uncleared(kept)
                                     THEN [disk[s] EXCEPT !.cleared = FALSE]
                                     ELSE disk[s]]
    /\ unsynced' = <<>>
    /\ zones' = [z \in Zones |-> NewZone(0, 0, <<>>)]
    /\ mi' = EmptyIndex
    /\ index' = NewIndex(0, 0, 0, FALSE)
    /\ writer' = NewWriter
    /\ checkpoint' = NoCheckpoint
    /\ layout' = [s \in Slots |-> NoSave]
    /\ UNCHANGED <<scenario, time>>

-----------------------------------------------------------------------------
(***************************************************************************)
(* Loading.  Replaying the volume moves the master index to each chapter   *)
(* in turn and records the names the chapter holds.                        *)
(***************************************************************************)
setMasterIndexOpenChapter(records, open) ==
    setMasterIndexZoneOpenChapter(records, Names, open)

replayRecords_onlyNew(records, vcn) ==
    [n \in Names |-> IF /\ records[n] = EmptyIndex[n]
                        /\ n \in volume[mapToPhysicalChapter(volume, vcn)].names
                     THEN vcn ELSE records[n]]

replayRecords(records, vcn) ==
    [n \in Names |-> IF n \in volume[mapToPhysicalChapter(volume, vcn)].names THEN vcn
                     ELSE records[n]]

RECURSIVE ReplayFrom(_, _, _)
ReplayFrom(records, vcn, uptoVCN) ==
    IF vcn >= uptoVCN THEN setMasterIndexOpenChapter(records, uptoVCN)
    ELSE ReplayFrom(replayRecords(setMasterIndexOpenChapter(records, vcn), vcn),
                    vcn + 1, uptoVCN)

replayVolume(records, fromVCN, uptoVCN) ==
    ReplayFrom(setMasterIndexOpenChapter(
                 setMasterIndexOpenChapter(records, uptoVCN), fromVCN),
               fromVCN, uptoVCN)

(***************************************************************************)
(* The index starts with these chapters, master index and open chapters.   *)
(***************************************************************************)
Start(newest, oldest, last, records, open, loadedType) ==
    /\ phase' = "up"
    /\ index' = NewIndex(newest, oldest, last, loadedType = "LOAD_LOAD")
    /\ mi' = records
    /\ zones' = [z \in Zones |-> NewZone(newest, oldest, open[z])]

Fail == phase' = "failed" /\ UNCHANGED <<index, mi, zones>>

NoOpenChapters == [z \in Zones |-> <<>>]

(***************************************************************************)
(* Skip the chapter shadowed by the open chapter.                          *)
(***************************************************************************)
OldestOf(b) == IF b.highest + 1 = b.lowest + chaptersPerVolume(volume)
               THEN b.lowest + 1 ELSE b.lowest

Latest(a, b) == IF a >= b THEN a ELSE b

rebuildIndex(b) ==
    IF ~ b.ok \/ b.lowest > b.highest THEN Fail
    ELSE IF b.isEmpty
    THEN Start(0, 0, 0, EmptyIndex, NoOpenChapters, "LOAD_EMPTY")
    ELSE Start(b.highest + 1, OldestOf(b), 0,
               replayVolume(EmptyIndex, OldestOf(b), b.highest + 1),
               NoOpenChapters, "LOAD_REBUILD")

replayIndexFromCheckpoint(b, slot) ==
    IF ~ b.ok \/ b.lowest > b.highest \/ (b.isEmpty /\ slot.state.newest # 0)
    THEN rebuildIndex(b)
    ELSE IF b.isEmpty
    THEN Start(slot.state.newest, slot.state.oldest, slot.state.last, slot.mi,
               NoOpenChapters, "LOAD_REPLAY")
    ELSE Start(b.highest + 1, OldestOf(b), slot.state.last,
               replayVolume(slot.mi, Latest(Latest(slot.state.last, 0),
                                            OldestOf(b)), b.highest + 1),
               NoOpenChapters, "LOAD_REPLAY")

loadIndex(slot) ==
    IF slot.type = "none" \/ ~ slot.whole
    THEN rebuildIndex(findVolumeChapterBoundaries(volume))
    ELSE IF slot.type = "checkpoint" \/ slot.cleared
    THEN replayIndexFromCheckpoint(findVolumeChapterBoundaries(volume), slot)
    ELSE Start(slot.state.newest, slot.state.oldest, slot.state.last, slot.mi,
               [z \in Zones |-> loadVersion20(slot.open[z], <<>>)], "LOAD_LOAD")

makeIndex ==
    /\ phase = "down"
    /\ loadIndex(disk[selectLatestIndexSaveLayout(disk)])
    /\ layout' = [s \in Slots |-> Header(disk[s])]
    /\ UNCHANGED <<scenario, writer, checkpoint, disk, volume, unsynced, time>>

-----------------------------------------------------------------------------
Init ==
    /\ scenario \in Scenarios
    /\ phase = scenario.start
    /\ volume \in scenario.volumes
    /\ zones = [z \in Zones |-> NewZone(0, 0, <<>>)]
    /\ mi = EmptyIndex
    /\ index = NewIndex(0, 0, 0, FALSE)
    /\ writer = NewWriter
    /\ checkpoint = NoCheckpoint
    /\ layout = [s \in Slots |-> NoSave]
    /\ disk = [s \in Slots |-> Unsaved]
    /\ unsynced = <<>>
    /\ time = 0

ZoneStep(z) == handleChapterClosed(z) \/ openNextChapter(z) \/ closeChapter(z)

WriterStep == closeChapters \/ closeOpenChapter \/ advanceActiveChapters

SaveStep == finishCheckpointing \/ saveIndexState \/ commitSingleFileIndexSave

Next ==
    \/ \E n \in Names : searchIndexZone(zoneOf[n], n)
    \/ \E n \in Names : removeFromIndexZone(zoneOf[n], n)
    \/ \E z \in Zones : ZoneStep(z)
    \/ WriterStep
    \/ saveIndex
    \/ SaveStep
    \/ Crash
    \/ makeIndex

(***************************************************************************)
(* The zone threads and the chapter writer run whenever they have work.    *)
(* Requests, saves and crashes need not come.                              *)
(***************************************************************************)
Fairness == /\ \A z \in Zones : WF_vars(ZoneStep(z))
            /\ WF_vars(WriterStep)

Spec == Init /\ [][Next]_vars /\ Fairness

-----------------------------------------------------------------------------
(***************************************************************************)
(* Properties.                                                             *)
(***************************************************************************)

TypeOK ==
    /\ phase \in {"up", "saving", "writing", "down", "failed"}
    /\ \A n \in Names : mi[n] \in None .. zones[zoneOf[n]].newest
    /\ \A z \in Zones :
         /\ Len(zones[z].open) <= capacity
         /\ zones[z].oldest <= zones[z].newest
    /\ writer.zonesToWrite \in 0 .. zoneCount

(***************************************************************************)
(* The chapter writer always has a record to fill the chapter with: some   *)
(* zone closed it because it was full, and its last record was not deleted *)
(* (the assertions of fillDeltaChapterIndex).                              *)
(***************************************************************************)
FillRecordExists ==
    writer.pc = "write" =>
      \E z \in FillZones : ~ writer.chapters[z][capacity].deleted

(***************************************************************************)
(* The master index never points at a chapter that is gone, and what a     *)
(* zone finds at the place it points to is the record itself: across the   *)
(* swap of open and writing chapter, the chapter writer overwriting the    *)
(* oldest chapter, checkpoints, saves, and starting after a crash.  The    *)
(* state is well formed throughout, and a chapter that is written has a    *)
(* record to fill it with.                                                 *)
(***************************************************************************)
InChapter(z, n, c) ==
    c >= zones[z].newest - 1 \/ volume[mapToPhysicalChapter(volume, c)].vcn = c

AdviceIsSound ==
    /\ TypeOK
    /\ FillRecordExists
    /\ phase \in {"up", "saving", "writing"} =>
         \A n \in Names : mi[n] # None =>
           Found(zoneOf[n], n) /\ InChapter(zoneOf[n], n, mi[n])

(***************************************************************************)
(* An index without removals forgets nothing that is in its chapters: the  *)
(* newest chapter that holds a name is the one the master index has, also  *)
(* after a crash between any two steps of a checkpoint, as long as the     *)
(* crash loses no chapter.  (After a save this fails: the master index of  *)
(* a save has the open chapter of a name in place of its older chapter,    *)
(* and the saved open chapter is discarded before it is written.)          *)
(***************************************************************************)
ChaptersWith(n) ==
    {c \in zones[zoneOf[n]].oldest .. index.newest - 1 :
       /\ c > zones[zoneOf[n]].newest - chaptersPerVolume(volume)
       /\ volume[mapToPhysicalChapter(volume, c)].vcn = c
       /\ n \in volume[mapToPhysicalChapter(volume, c)].names}

NothingForgotten ==
    phase = "up" /\ ~ scenario.remove /\ ~ scenario.save /\ scenario.lost = 0 =>
      \A n \in Names : \A c \in ChaptersWith(n) : mi[n] >= c

(***************************************************************************)
(* A save that the next start would load as it is, open chapter and all,   *)
(* is up to date: neither its open chapter nor a later one has been        *)
(* written to the volume (closeChapters: "Remove the saved open chapter as *)
(* that chapter is about to be written to the volume").                    *)
(***************************************************************************)
SavedOpenChapterIsUnwritten ==
    phase = "down" =>
      \A s \in {selectLatestIndexSaveLayout(disk)} :
        disk[s].type = "save" /\ ~ disk[s].cleared =>
          \A c \in GoodChapters(volume) : c < disk[s].state.newest

(***************************************************************************)
(* The search for the boundaries of the volume finds the oldest and newest *)
(* chapter of any volume a crash leaves behind (findRealEndOfVolume and    *)
(* findVolumeChapterBoundariesImpl against looking at every slot).         *)
(***************************************************************************)
BoundariesAreFound ==
    phase = "down" =>
      findVolumeChapterBoundaries(volume) = ReferenceBoundaries(volume)

=============================================================================
