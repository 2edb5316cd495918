-------------------------- MODULE SingleFileLayout --------------------------
(***************************************************************************)
(* The storage layout of a UDS index in one file or device: formatting,    *)
(* loading, the configuration and seal blocks, and the save slots with the *)
(* region index state that saves, checkpoints, loads and discards through  *)
(* them.  src/utils/uds/singleFileLayout.c, regionIndexState.c,            *)
(* regionIndexComponent.c, indexState.c, indexComponent.c.                 *)
(*                                                                         *)
(* Storage is an array of blocks behind a volatile cache: a write reaches  *)
(* the cache, a sync makes everything in the cache durable, and a crash    *)
(* keeps any subset of what was not synced.  What a region holds is        *)
(* abstracted to who wrote it: a block of component data carries the save, *)
(* the component, the zone and its place in the region.  Nonces are        *)
(* modelled as one-to-one in what they hash.                               *)
(***************************************************************************)
EXTENDS Integers, Sequences, FiniteSets, TLC

CONSTANTS Scenarios,           \* the geometries and faults explored
          DEFAULT_BLOCK_SIZE,  \* bytes in a block, when the device's are smaller
          MAX_SAVES            \* most save slots a layout can be given

VARIABLES
  scenario,  \* rigid: geometry, arguments and faults of this behaviour
  disk,      \* durable blocks
  cache,     \* blocks written and not yet synced
  sfl,       \* the SingleFileLayout in memory, or NoLayout
  ris,       \* the RegionIndexState and its components' write zones
  job,       \* the operation in progress
  clock,     \* the time of day, in milliseconds
  crashes,   \* crashes and failed writes so far
  saves,     \* ghost: which saves must, and which may, be found on storage
  loaded     \* ghost: what the last loadIndexState() gave

vars == <<scenario, disk, cache, sfl, ris, job, clock, crashes, saves, loaded>>
-----------------------------------------------------------------------------
(* Sizes.                                                                  *)

UDS_SUCCESS == "UDS_SUCCESS"

\* F(z), with z evaluated first.
Then(z, F(_)) == CHOOSE result \in {F(w) : w \in {z}} : TRUE

blockCount(bytes, blockSize) ==
  bytes \div blockSize + (IF bytes % blockSize > 0 THEN 1 ELSE 0)

(* The sizes of the regions for a configuration: two saves and one more    *)
(* for each checkpoint asked for.                                          *)
computeSizes(config, blockSize, numCheckpoints) ==
  LET mi == blockCount(config.masterIndexBytes, blockSize)
      pm == blockCount(config.pageMapBytes, blockSize)
      oc == blockCount(config.openChapterBytes, blockSize)
      vol == config.bytesPerVolume \div blockSize
      save == 1 + (mi + pm + oc)
      n == 2 + numCheckpoints
  IN  IF config.bytesPerPage % blockSize # 0
      THEN [result |-> "UDS_INCORRECT_ALIGNMENT"]
      ELSE [result |-> UDS_SUCCESS, numSaves |-> n, blockSize |-> blockSize,
            volumeBlocks |-> vol, pageMapBlocks |-> pm,
            openChapterBlocks |-> oc, saveBlocks |-> save,
            subIndexBlocks |-> vol + n * save,
            totalBlocks |-> 3 + vol + n * save]

(* More saves when there is room.  The loop never consumes the extra       *)
(* blocks, and the sub-index grows by the number of saves, not by their    *)
(* blocks: as the code has it.                                             *)
recomputeSizes(sls, newSize) ==
  LET n == IF newSize - sls.totalBlocks < sls.saveBlocks \/ MAX_SAVES < sls.numSaves
           THEN 0 ELSE MAX_SAVES - sls.numSaves
  IN  [sls EXCEPT !.numSaves = @ + n, !.subIndexBlocks = @ + n,
                  !.totalBlocks = @ + n * sls.saveBlocks]

(* The block size to use over a device, or 0 when it cannot be.            *)
validateOffsetAndBlockSize(deviceBlockSize, offset) ==
  LET blockSize == IF deviceBlockSize < DEFAULT_BLOCK_SIZE
                   THEN DEFAULT_BLOCK_SIZE ELSE deviceBlockSize
  IN  IF \/ DEFAULT_BLOCK_SIZE % deviceBlockSize # 0
            /\ deviceBlockSize < DEFAULT_BLOCK_SIZE
         \/ blockSize % DEFAULT_BLOCK_SIZE # 0
         \/ offset % blockSize # 0
      THEN 0 ELSE blockSize
-----------------------------------------------------------------------------
(* Regions.                                                                *)

RL_SOLE_INSTANCE == -1

NoRegion == [startBlock |-> 0, numBlocks |-> 0, kind |-> "none", instance |-> 0]

(* setupLayout() for a row of regions, each <<blocks, kind, instance>>.    *)
RECURSIVE setupLayout(_, _)
setupLayout(nextBlock, row) ==
  IF row = <<>> THEN <<>>
  ELSE <<[startBlock |-> nextBlock, numBlocks |-> Head(row)[1],
          kind |-> Head(row)[2], instance |-> Head(row)[3]]>>
       \o setupLayout(nextBlock + Head(row)[1], Tail(row))

End(region) == region.startBlock + region.numBlocks

NoNonce == [seed |-> 0, timestamp |-> 0, offset |-> 0]

NoSaveData == [timestamp |-> 0, nonce |-> NoNonce, version |-> 0]

NoBuffer == -1   \* no index state buffer
Empty    == 0    \* an index state buffer nothing was put in

(* A save slot with nothing in it.                                         *)
resetIndexSaveLayout(startBlock, saveBlocks, pageMapBlocks, instance) ==
  LET r == setupLayout(startBlock,
                       << <<1, "header", RL_SOLE_INSTANCE>>,
                          <<pageMapBlocks, "page map", RL_SOLE_INSTANCE>>,
                          <<saveBlocks - 1 - pageMapBlocks, "scratch",
                            RL_SOLE_INSTANCE>> >>)
  IN  [indexSave |-> [startBlock |-> startBlock, numBlocks |-> saveBlocks,
                      kind |-> "save", instance |-> instance],
       header |-> r[1], indexPageMap |-> r[2], freeSpace |-> r[3],
       numZones |-> 0, masterIndexZones |-> <<>>, openChapter |-> NoRegion,
       saveType |-> "none", saveData |-> NoSaveData,
       indexStateBuffer |-> NoBuffer]

(* Blocks of a slot the master index zones share: what the header, the     *)
(* page map and the open chapter leave.                                    *)
blocksAvail(isl, super) ==
  isl.indexSave.numBlocks - (1 + super.pageMapBlocks) - super.openChapterBlocks

(* Lay a slot out for a save over numZones zones; a checkpoint leaves the  *)
(* open chapter's room free.                                               *)
populateIndexSaveLayout(isl, super, numZones, saveType) ==
  LET zone == blocksAvail(isl, super) \div numZones
      withChapter == saveType = "save" /\ isl.openChapter # NoRegion
      row == << <<1, "header", RL_SOLE_INSTANCE>>,
                <<super.pageMapBlocks, "page map", RL_SOLE_INSTANCE>> >>
             \o [z \in 1 .. numZones |-> <<zone, "master index", z - 1>>]
             \o (IF withChapter
                 THEN << <<super.openChapterBlocks, "open chapter", RL_SOLE_INSTANCE>> >>
                 ELSE <<>>)
      r == setupLayout(isl.indexSave.startBlock, row)
      last == End(r[Len(r)])
  IN  [isl EXCEPT !.header = r[1], !.indexPageMap = r[2],
                  !.masterIndexZones = [z \in 1 .. numZones |-> r[2 + z]],
                  !.openChapter = IF withChapter THEN r[Len(r)] ELSE @,
                  !.freeSpace = [startBlock |-> last,
                                 numBlocks |-> End(isl.indexSave) - last,
                                 kind |-> "scratch", instance |-> RL_SOLE_INSTANCE]]

generateSecondaryNonce(seed, timestamp, offset) ==
  [seed |-> seed, timestamp |-> timestamp, offset |-> offset]

generateIndexSaveNonce(volumeNonce, isl) ==
  generateSecondaryNonce(volumeNonce, isl.saveData.timestamp, isl.indexSave.startBlock)

(* The time of the save in a slot, 0 when the slot holds none that is      *)
(* valid.                                                                  *)
validateIndexSaveLayout(isl, volumeNonce) ==
  IF \/ isl.saveType = "none" \/ isl.numZones = 0 \/ isl.saveData.timestamp = 0
     \/ isl.saveData.nonce # generateIndexSaveNonce(volumeNonce, isl)
  THEN 0 ELSE isl.saveData.timestamp

Slots(layout) == 1 .. layout.super.maxSaves

TimeOf(layout, slot) == validateIndexSaveLayout(layout.saves[slot], layout.nonce)

(* The first slot with the least time: the first invalid one or the oldest *)
selectOldestIndexSaveLayout(layout) ==
  CHOOSE i \in Slots(layout) : \A j \in Slots(layout) :
    \/ TimeOf(layout, i) < TimeOf(layout, j)
    \/ TimeOf(layout, i) = TimeOf(layout, j) /\ i <= j

(* The slot with the latest valid save, 0 when there is none.              *)
selectLatestIndexSaveLayout(layout) ==
  LET valid == {i \in Slots(layout) : TimeOf(layout, i) > 0}
  IN  IF valid = {} THEN 0
      ELSE CHOOSE i \in valid : \A j \in valid :
             \/ TimeOf(layout, i) > TimeOf(layout, j)
             \/ TimeOf(layout, i) = TimeOf(layout, j) /\ i <= j

(* Prepare an invalidated slot for a save taken now.                       *)
instantiateIndexSaveLayout(isl, super, volumeNonce, numZones, saveType, now) ==
  LET withChapter ==
        [isl EXCEPT !.openChapter =
           IF saveType = "checkpoint" THEN NoRegion
           ELSE IF @ = NoRegion THEN [NoRegion EXCEPT !.kind = "open chapter"] ELSE @,
                    !.numZones = numZones]
      laidOut == [populateIndexSaveLayout(withChapter, super, numZones, saveType)
                  EXCEPT !.indexStateBuffer = Empty, !.saveType = saveType,
                         !.saveData = [timestamp |-> now, nonce |-> NoNonce,
                                       version |-> 1]]
  IN  [laidOut EXCEPT !.saveData.nonce = generateIndexSaveNonce(volumeNonce, laidOut)]

(* cancelSingleFileIndexSave(): only the memory of the slot is spoilt; its *)
(* header on storage was invalidated before the save began.                *)
mutilateIndexSaveInfo(isl) ==
  [isl EXCEPT !.saveData = NoSaveData, !.saveType = "none", !.numZones = 0,
              !.indexStateBuffer = NoBuffer]
-----------------------------------------------------------------------------
(* Blocks on storage.                                                      *)

Garbage == [type |-> "garbage"]

(* The header block of a slot: the region table, the save's data and the   *)
(* index state.                                                            *)
makeIndexSaveRegionTable(isl) ==
  <<isl.header, isl.indexPageMap>> \o SubSeq(isl.masterIndexZones, 1, isl.numZones)
  \o (IF isl.openChapter # NoRegion THEN <<isl.openChapter>> ELSE <<>>)
  \o (IF isl.freeSpace.numBlocks > 0 THEN <<isl.freeSpace>> ELSE <<>>)

regionTypeForSaveType(saveType) == IF saveType = "none" THEN "unsaved" ELSE saveType

writeIndexSaveHeader(isl) ==
  [type |-> regionTypeForSaveType(isl.saveType),
   regionBlocks |-> isl.indexSave.numBlocks,
   regions |-> makeIndexSaveRegionTable(isl),
   saveData |-> isl.saveData, indexState |-> isl.indexStateBuffer]

makeSingleFileRegionTable(layout) ==
  <<layout.header, layout.config, layout.subIndex, layout.volume>>
  \o [i \in Slots(layout) |-> layout.saves[i].indexSave] \o <<layout.seal>>

writeSingleFileHeader(layout) ==
  [type |-> "super", regionBlocks |-> layout.totalBlocks,
   regions |-> makeSingleFileRegionTable(layout), super |-> layout.super]

(* A region table being read: the regions left, where the next must start, *)
(* the regions taken so far and the result.                                *)
RegionIterator(table, nextBlock) ==
  [rest |-> table, nextBlock |-> nextBlock, taken |-> <<>>, result |-> UDS_SUCCESS]

iterError(iter) == [iter EXCEPT !.result = "UDS_UNEXPECTED_RESULT"]

(* Take the next region if it is the one expected; when it is another kind *)
(* and was not required, leave it.                                         *)
expectLayout(expect, iter, numBlocks, kind, instance) ==
  IF iter.result # UDS_SUCCESS THEN iter
  ELSE IF iter.rest = <<>> THEN (IF expect THEN iterError(iter) ELSE iter)
  ELSE LET r == Head(iter.rest)
       IN  IF r.startBlock # iter.nextBlock THEN iterError(iter)
           ELSE IF r.kind # kind THEN (IF expect THEN iterError(iter) ELSE iter)
           ELSE IF r.instance # instance \/ (numBlocks > 0 /\ r.numBlocks # numBlocks)
           THEN iterError(iter)
           ELSE [iter EXCEPT !.rest = Tail(@), !.nextBlock = @ + r.numBlocks,
                             !.taken = Append(@, r)]

(* Take the zones of the master index, however many there are.             *)
RECURSIVE expectZones(_, _)
expectZones(iter, n) ==
  LET Rest(next) == IF next.result # UDS_SUCCESS \/ next.rest = iter.rest THEN iter
                    ELSE expectZones(next, n + 1)
  IN  Then(expectLayout(FALSE, iter, 0, "master index", n), Rest)

(* The regions of a save, in the order the table must have them.           *)
expectSaveRegions(content, startBlock, saveType) ==
  LET Header(iter) == expectLayout(TRUE, iter, 1, "header", RL_SOLE_INSTANCE)
      PageMap(iter) == expectLayout(TRUE, iter, 0, "page map", RL_SOLE_INSTANCE)
      MasterIndex(iter) == expectZones(iter, 0)
      OpenChapter(iter) ==
        IF saveType = "save"
        THEN expectLayout(TRUE, iter, 0, "open chapter", RL_SOLE_INSTANCE) ELSE iter
      Scratch(iter) == expectLayout(FALSE, iter, 0, "scratch", RL_SOLE_INSTANCE)
  IN  Then(Then(Then(Then(Header(RegionIterator(content.regions, startBlock)),
                          PageMap), MasterIndex), OpenChapter), Scratch)

(* What loading makes of a slot's header block.                            *)
reconstructIndexSave(isl, super, content) ==
  LET saveType == IF content.type = "unsaved" THEN "none" ELSE content.type
      base == [isl EXCEPT !.saveData = content.saveData, !.saveType = saveType,
                 !.indexStateBuffer = IF content.saveData.version = 0 THEN NoBuffer
                                      ELSE content.indexState]
      Made(n, r, spare) ==
        IF End(spare) # End(isl.indexSave)
        THEN [result |-> "UDS_UNEXPECTED_RESULT", isl |-> base]
        ELSE [result |-> UDS_SUCCESS,
              isl |-> [base EXCEPT
                         !.numZones = n, !.header = r[1], !.indexPageMap = r[2],
                         !.masterIndexZones = SubSeq(r, 3, 2 + n),
                         !.openChapter = IF saveType = "save" THEN r[3 + n] ELSE NoRegion,
                         !.freeSpace = spare]]
      Rest(iter) ==
        IF iter.result # UDS_SUCCESS \/ iter.rest # <<>>
        THEN [result |-> "UDS_UNEXPECTED_RESULT", isl |-> base]
        ELSE Made(Cardinality({k \in DOMAIN iter.taken :
                                 iter.taken[k].kind = "master index"}),
                  iter.taken,
                  IF iter.taken[Len(iter.taken)].kind = "scratch"
                  THEN iter.taken[Len(iter.taken)]
                  ELSE [startBlock |-> iter.nextBlock,
                        numBlocks |-> End(isl.indexSave) - iter.nextBlock,
                        kind |-> "scratch", instance |-> RL_SOLE_INSTANCE])
  IN  IF \/ content.regions = <<>>
         \/ Len(content.regions) = 1 /\ content.regions[1].kind = "scratch"
      THEN [result |-> UDS_SUCCESS, isl |-> populateIndexSaveLayout(base, super, 0, "none")]
      ELSE Then(expectSaveRegions(content, isl.indexSave.startBlock, saveType), Rest)

RegionTypes == {"super", "save", "checkpoint", "unsaved"}

(* A region table has its magic number; anything else is no index.         *)
loadRegionTable(content) ==
  IF content.type \in RegionTypes THEN UDS_SUCCESS ELSE "UDS_NO_INDEX"

loadIndexSave(isl, super, content) ==
  IF loadRegionTable(content) # UDS_SUCCESS
  THEN [result |-> loadRegionTable(content), isl |-> isl]
  ELSE IF content.regionBlocks # isl.indexSave.numBlocks \/ content.type = "super"
  THEN [result |-> "UDS_CORRUPT_COMPONENT", isl |-> isl]
  ELSE reconstructIndexSave(isl, super, content)

RECURSIVE expectSaves(_, _, _)
expectSaves(iter, i, maxSaves) ==
  IF i = maxSaves THEN iter
  ELSE expectSaves(expectLayout(TRUE, iter, 0, "save", i), i + 1, maxSaves)

defineSubIndexNonce(subIndex, masterNonce) ==
  generateSecondaryNonce(masterNonce, 0, subIndex.startBlock)

(* The sub-index, whose regions must exactly fill it.                      *)
expectSubIndex(iter, maxSaves) ==
  LET Inside(index) ==
        Then(expectSaves(expectLayout(TRUE, [index EXCEPT !.nextBlock = iter.nextBlock],
                                      0, "volume", RL_SOLE_INSTANCE), 0, maxSaves),
             LAMBDA inner : IF inner.nextBlock = index.nextBlock THEN inner
                            ELSE iterError(inner))
  IN  Then(expectLayout(TRUE, iter, 0, "index", 0), Inside)

(* The layout a super block describes: its own regions, the sub-index and  *)
(* the seal.                                                               *)
reconstituteSingleFileLayout(content, firstBlock) ==
  LET Config(iter) == expectLayout(TRUE, iter, 1, "config", RL_SOLE_INSTANCE)
      SubIndex(iter) == expectSubIndex(iter, content.super.maxSaves)
      Seal(iter) == expectLayout(TRUE, iter, 1, "seal", RL_SOLE_INSTANCE)
      Slot(region, i) == [resetIndexSaveLayout(region.startBlock, region.numBlocks,
                                               content.super.pageMapBlocks, i - 1)
                          EXCEPT !.indexSave = region]
      Layout(r) == [super |-> content.super, totalBlocks |-> content.regionBlocks,
                    header |-> r[1], config |-> r[2], subIndex |-> r[3],
                    volume |-> r[4], seal |-> r[Len(r)],
                    saves |-> [i \in 1 .. content.super.maxSaves |-> Slot(r[4 + i], i)],
                    nonce |-> defineSubIndexNonce(r[3], content.super.nonce)]
      Rest(iter) == IF \/ iter.result # UDS_SUCCESS
                       \/ iter.nextBlock # firstBlock + content.regionBlocks
                    THEN [result |-> "UDS_UNEXPECTED_RESULT"]
                    ELSE [result |-> UDS_SUCCESS, layout |-> Layout(iter.taken)]
  IN  Then(Then(Then(Then(expectLayout(TRUE, RegionIterator(content.regions, firstBlock),
                                       1, "header", RL_SOLE_INSTANCE),
                          Config), SubIndex), Seal), Rest)

(* The super block, read and checked.                                      *)
loadSuperBlock(content, blockSize, firstBlock) ==
  IF loadRegionTable(content) # UDS_SUCCESS THEN [result |-> loadRegionTable(content)]
  ELSE IF content.type # "super" THEN [result |-> "UDS_CORRUPT_COMPONENT"]
  ELSE IF content.super.blockSize # blockSize THEN [result |-> "UDS_WRONG_INDEX_CONFIG"]
  ELSE reconstituteSingleFileLayout(content, firstBlock)

(* Every slot's header must load, or the layout does not.                  *)
loadSubIndexRegions(layout, view) ==
  LET Rest(got) ==
        LET bad == {i \in Slots(layout) : got[i].result # UDS_SUCCESS}
        IN  IF bad # {}
            THEN [result |-> got[CHOOSE i \in bad : \A j \in bad : i <= j].result]
            ELSE [result |-> UDS_SUCCESS,
                  layout |-> [layout EXCEPT !.saves = [i \in Slots(layout) |-> got[i].isl]]]
  IN  Then([i \in Slots(layout) |->
              loadIndexSave(layout.saves[i], layout.super,
                            view[layout.saves[i].indexSave.startBlock])], Rest)

loadSingleFileLayout(s, view) ==
  LET blockSize == validateOffsetAndBlockSize(s.deviceBlockSize, s.offset)
      Rest(super) == IF super.result # UDS_SUCCESS THEN super
                     ELSE loadSubIndexRegions(super.layout, view)
  IN  IF blockSize = 0 THEN [result |-> "UDS_INCORRECT_ALIGNMENT"]
      ELSE Then(loadSuperBlock(view[s.offset \div blockSize], blockSize,
                               s.offset \div blockSize), Rest)

(* The sub-index: the volume and the slots, which must fill it.            *)
setupSubIndex(nextBlock, sls, masterNonce) ==
  LET subIndex == [startBlock |-> nextBlock, numBlocks |-> sls.subIndexBlocks,
                   kind |-> "index", instance |-> 0]
      first == nextBlock + sls.volumeBlocks
  IN  [result |-> IF End(subIndex) # first + sls.numSaves * sls.saveBlocks
                  THEN "UDS_UNEXPECTED_RESULT" ELSE UDS_SUCCESS,
       subIndex |-> subIndex,
       volume |-> [startBlock |-> nextBlock, numBlocks |-> sls.volumeBlocks,
                   kind |-> "volume", instance |-> RL_SOLE_INSTANCE],
       saves |-> [i \in 1 .. sls.numSaves |->
                    resetIndexSaveLayout(first + (i - 1) * sls.saveBlocks, sls.saveBlocks,
                                         sls.pageMapBlocks, i - 1)],
       nonce |-> defineSubIndexNonce(subIndex, masterNonce)]

generateSuperBlockData(sls, nonce) ==
  [nonce |-> nonce, blockSize |-> sls.blockSize, maxSaves |-> sls.numSaves,
   openChapterBlocks |-> sls.openChapterBlocks, pageMapBlocks |-> sls.pageMapBlocks]

initSingleFileLayout(s, sls, nonce) ==
  LET front == setupLayout(s.offset \div sls.blockSize,
                           << <<1, "header", RL_SOLE_INSTANCE>>,
                              <<1, "config", RL_SOLE_INSTANCE>> >>)
      index == setupSubIndex(End(front[2]), sls, nonce)
      seal == [startBlock |-> End(index.subIndex), numBlocks |-> 1, kind |-> "seal",
               instance |-> RL_SOLE_INSTANCE]
  IN  IF s.size < sls.totalBlocks * sls.blockSize \/ s.limit < s.size
      THEN [result |-> "UDS_INSUFFICIENT_INDEX_SPACE"]
      ELSE IF \/ index.result # UDS_SUCCESS
              \/ End(seal) * sls.blockSize > s.offset + s.size
      THEN [result |-> "UDS_UNEXPECTED_RESULT"]
      ELSE [result |-> UDS_SUCCESS,
            layout |-> [super |-> generateSuperBlockData(sls, nonce),
                        totalBlocks |-> sls.totalBlocks,
                        header |-> front[1], config |-> front[2],
                        subIndex |-> index.subIndex, volume |-> index.volume,
                        seal |-> seal, saves |-> index.saves, nonce |-> index.nonce]]

(* The checks and the layout of createSingleFileLayout(); the blocks it    *)
(* writes are the steps of Format below.                                   *)
createSingleFileLayout(s, nonce) ==
  LET blockSize == validateOffsetAndBlockSize(s.deviceBlockSize, s.offset)
      sls == computeSizes(s.config, blockSize, 0)
      blocks == s.size \div blockSize
  IN  IF blockSize = 0 THEN [result |-> "UDS_INCORRECT_ALIGNMENT"]
      ELSE IF sls.result # UDS_SUCCESS THEN [result |-> sls.result]
      ELSE IF s.size < sls.totalBlocks * blockSize
      THEN [result |-> "UDS_INSUFFICIENT_INDEX_SPACE"]
      ELSE IF s.size % blockSize # 0 THEN [result |-> "UDS_INCORRECT_ALIGNMENT"]
      ELSE initSingleFileLayout(s, IF blocks > sls.totalBlocks
                                   THEN recomputeSizes(sls, blocks) ELSE sls, nonce)
-----------------------------------------------------------------------------
(* Memory, storage and the operation in progress.                          *)

NoLayout == [none |-> TRUE]

Blocks == DOMAIN disk

View == [b \in Blocks |-> IF b \in DOMAIN cache THEN cache[b] ELSE disk[b]]

Nothing == [b \in {} |-> Garbage]

(* A buffered write reaches the operating system.                          *)
Put(written) == cache' = written @@ cache /\ disk' = disk

(* syncAndCloseRegion(): everything written so far is durable.             *)
syncRegion == disk' = View /\ cache' = Nothing

(* A block written and synced before anything else happens.                *)
PutAndSync(b, content) == disk' = [View EXCEPT ![b] = content] /\ cache' = Nothing

NoState == [zoneCount |-> 0, saving |-> FALSE, saveSlot |-> 0, regions |-> {}]

Idle == [op |-> "none", phase |-> "", slot |-> 0, queue |-> <<>>, zone |-> 0, left |-> {}]

Step(op, phase, slot) == [Idle EXCEPT !.op = op, !.phase = phase, !.slot = slot]

Loaded(save, expected, complete, replay) ==
  [save |-> save, expected |-> expected, complete |-> complete, replay |-> replay]

Init ==
  /\ scenario \in Scenarios
  /\ disk = [b \in 0 .. scenario.deviceBlocks - 1 |-> Garbage]
  /\ cache = Nothing
  /\ sfl = NoLayout
  /\ ris = NoState
  /\ job = Idle
  /\ clock = 1
  /\ crashes = 0
  /\ saves = [sure |-> {}, may |-> {}, result |-> UDS_SUCCESS]
  /\ loaded = Loaded(0, {0}, TRUE, FALSE)

Answer(result) == saves' = [saves EXCEPT !.result = result]

SaveIs(slot, isl) == sfl' = [sfl EXCEPT !.saves[slot] = isl]

HeaderOf(isl) == isl.header.startBlock :> writeIndexSaveHeader(isl)
-----------------------------------------------------------------------------
(* Creating and opening an index.                                          *)

(* makeIndexLayout() for a new index.  Whatever was saved in the space     *)
(* before is no longer promised.                                           *)
CreateLayout ==
  /\ job = Idle /\ sfl = NoLayout /\ clock < scenario.times
  /\ LET made == createSingleFileLayout(scenario, clock)
     IN  IF made.result # UDS_SUCCESS
         THEN /\ saves.result # made.result
              /\ Answer(made.result)
              /\ UNCHANGED <<sfl, job, clock>>
         ELSE /\ sfl' = made.layout
              /\ clock' = clock + 1
              /\ job' = Step("format", "write", 1)
              /\ saves' = [saves EXCEPT !.sure = {}]
  /\ UNCHANGED <<scenario, disk, cache, ris, crashes, loaded>>

(* saveSingleFileConfiguration(): the header of every slot, then the super *)
(* block, each synced when its writer is freed.                            *)
FormatWrite ==
  /\ job.op = "format" /\ job.phase = "write"
  /\ IF job.slot \in Slots(sfl) THEN Put(HeaderOf(sfl.saves[job.slot]))
     ELSE Put(sfl.header.startBlock :> writeSingleFileHeader(sfl))
  /\ job' = [job EXCEPT !.phase = "sync"]
  /\ UNCHANGED <<scenario, sfl, ris, clock, crashes, saves, loaded>>

FormatSync ==
  /\ job.op = "format" /\ job.phase = "sync"
  /\ syncRegion
  /\ IF job.slot \in Slots(sfl)
     THEN job' = Step("format", "write", job.slot + 1) /\ saves' = saves
     ELSE job' = Step("create", "config", 0) /\ saves' = [saves EXCEPT !.may = {}]
  /\ UNCHANGED <<scenario, sfl, ris, clock, crashes, loaded>>

(* makeIndexLayout() for an index that should be there.  It settles which  *)
(* saves there are where a crash or an error had left that in doubt.       *)
LoadLayout ==
  /\ job = Idle /\ sfl = NoLayout
  /\ LET got == loadSingleFileLayout(scenario, View)
     IN  IF got.result # UDS_SUCCESS
         THEN saves.result # got.result /\ Answer(got.result) /\ UNCHANGED <<sfl, job>>
         ELSE /\ sfl' = got.layout
              /\ job' = Step("load", "config", 0)
              /\ saves' = [saves EXCEPT !.sure =
                             {TimeOf(got.layout, i) : i \in Slots(got.layout)} \ {0}]
  /\ UNCHANGED <<scenario, disk, cache, ris, clock, crashes, loaded>>

ConfigBlock == [type |-> "config"]

configIsRead == View[sfl.config.startBlock] = ConfigBlock

(* makeLocalGrid(): a new index has its configuration written, an old one  *)
(* has it read; without it the layout is freed.                            *)
OpenConfig ==
  /\ job.phase = "config"
  /\ IF job.op = "create"
     THEN /\ PutAndSync(sfl.config.startBlock, ConfigBlock)
          /\ job' = [job EXCEPT !.phase = "state"]
          /\ UNCHANGED <<sfl, saves>>
     ELSE IF configIsRead
     THEN job' = [job EXCEPT !.phase = "state"] /\ UNCHANGED <<disk, cache, sfl, saves>>
     ELSE /\ Answer("UDS_CORRUPT_COMPONENT")
          /\ sfl' = NoLayout /\ job' = Idle
          /\ UNCHANGED <<disk, cache>>
  /\ UNCHANGED <<scenario, ris, clock, crashes, loaded>>

(* makeRegionIndexState(), then what makeIndex() does first: a new index   *)
(* discards every save, an old one loads the latest.                       *)
OpenState(zones) ==
  /\ job.phase = "state"
  /\ ris' = [NoState EXCEPT !.zoneCount = zones]
  /\ job' = IF job.op = "create" THEN Step("open", "discard", 1)
            ELSE Step("open", "load", 0)
  /\ UNCHANGED <<scenario, disk, cache, sfl, clock, crashes, saves, loaded>>

(* initializeIndexSession() ends by removing the safety seal.              *)
RemoveSeal ==
  /\ job.phase = "seal"
  /\ PutAndSync(sfl.seal.startBlock, [type |-> "stars"])
  /\ job' = Idle
  /\ UNCHANGED <<scenario, sfl, ris, clock, crashes, saves, loaded>>

(* sfl_writeSeal(): the buffer is emptied before the nonce is put in it,   *)
(* so the block starts with the nonce and not with the magic number.       *)
WriteSeal ==
  /\ job = Idle /\ sfl # NoLayout /\ View[sfl.seal.startBlock].type # "nonce"
  /\ PutAndSync(sfl.seal.startBlock, [type |-> "nonce"])
  /\ UNCHANGED <<scenario, sfl, ris, job, clock, crashes, saves, loaded>>

(* sfl_freeMe() and ris_freeMe(), when the index is closed.                *)
FreeLayout ==
  /\ job = Idle /\ sfl # NoLayout /\ ~ris.saving
  /\ sfl' = NoLayout /\ ris' = NoState
  /\ UNCHANGED <<scenario, disk, cache, job, clock, crashes, saves, loaded>>
-----------------------------------------------------------------------------
(* The components of an index, in the order they are added.                *)

Components == <<"index state", "open chapter", "master index", "page map">>

skipIndexComponentOnCheckpoint(c) == c = "open chapter"

ZonesOf(c, zoneCount) == IF c = "master index" THEN 0 .. zoneCount - 1 ELSE {0}

(* The region a component's zone is saved to or loaded from; NoRegion is   *)
(* an error.                                                               *)
openRegionStateRegion(isl, c, zone) ==
  CASE c = "page map" -> isl.indexPageMap
    [] c = "open chapter" -> isl.openChapter
    [] c = "index state" -> IF isl.indexStateBuffer = NoBuffer THEN NoRegion ELSE isl.header
    [] OTHER -> IF zone >= isl.numZones THEN NoRegion
                ELSE isl.masterIndexZones[zone + 1]

Data(save, c, zone, i) ==
  [type |-> "data", save |-> save, component |-> c, zone |-> zone, index |-> i]

(* What a component's zone writes in a save: all of its region.            *)
WrittenBy(isl, c, zone) ==
  LET r == openRegionStateRegion(isl, c, zone)
  IN  [b \in r.startBlock .. End(r) - 1 |->
         Data(isl.saveData.timestamp, c, zone, b - r.startBlock)]

(* Reading a component's zone back: the loader takes any block with the    *)
(* component's mark on it.                                                 *)
Loads(isl, c, zone) ==
  LET r == openRegionStateRegion(isl, c, zone)
  IN  /\ r # NoRegion
      /\ c = "index state" => isl.indexStateBuffer # Empty
      /\ c # "index state" => \A b \in r.startBlock .. End(r) - 1 :
                                View[b].type = "data" /\ View[b].component = c

(* What it reads is what the zone wrote in that save.                      *)
IsComplete(isl, c, zone) ==
  LET r == openRegionStateRegion(isl, c, zone)
  IN  IF c = "index state" THEN isl.indexStateBuffer = isl.saveData.timestamp
      ELSE \A b \in DOMAIN WrittenBy(isl, c, zone) :
             View[b] = WrittenBy(isl, c, zone)[b]

Sure == IF saves.sure = {} THEN 0 ELSE CHOOSE t \in saves.sure : \A u \in saves.sure : t >= u

(* Saves that may be the latest: the one promised, or a later one whose    *)
(* commit was not reported.                                                *)
Expected == {Sure} \cup {t \in saves.may : t > Sure}

findLatestIndexSaveSlot(layout) == selectLatestIndexSaveLayout(layout)

(* A component is read with one reader for each zone of the save.          *)
createReadPortal(isl, c) == ZonesOf(c, isl.numZones)

(* ris_loadState(): every component is read from the latest save, one      *)
(* reader for each zone of that save; a missing open chapter only asks for *)
(* a replay.                                                               *)
loadIndexState ==
  /\ job.op = "open" /\ job.phase = "load"
  /\ LET slot == findLatestIndexSaveSlot(sfl)
         isl == sfl.saves[slot]
         zones(c) == createReadPortal(isl, c)
         bad == {i \in DOMAIN Components :
                   \E z \in zones(Components[i]) : ~Loads(isl, Components[i], z)}
         replay == \E i \in bad : skipIndexComponentOnCheckpoint(Components[i])
         read == DOMAIN Components \ bad
     IN  IF slot = 0
         THEN /\ Answer("UDS_INDEX_NOT_SAVED_CLEANLY")
              /\ loaded' = Loaded(0, Expected, TRUE, FALSE)
         ELSE IF \E i \in bad : ~skipIndexComponentOnCheckpoint(Components[i])
         THEN /\ Answer("UDS_CORRUPT_COMPONENT")
              /\ loaded' = Loaded(isl.saveData.timestamp, Expected, FALSE, FALSE)
         ELSE /\ Answer(UDS_SUCCESS)
              /\ loaded' = Loaded(isl.saveData.timestamp, Expected,
                                  /\ \A i \in read : \A z \in zones(Components[i]) :
                                       IsComplete(isl, Components[i], z)
                                  /\ replay = (isl.saveType = "checkpoint"), replay)
  /\ job' = Step("open", "seal", 0)
  /\ UNCHANGED <<scenario, disk, cache, sfl, ris, clock, crashes>>
-----------------------------------------------------------------------------
(* Saving.                                                                 *)

(* A slot reset in memory, as resetIndexSaveLayout() leaves it.            *)
ResetSlot(slot) ==
  resetIndexSaveLayout(sfl.saves[slot].indexSave.startBlock,
                       sfl.saves[slot].indexSave.numBlocks, sfl.super.pageMapBlocks,
                       sfl.saves[slot].indexSave.instance)

(* invalidateOldSave(): the slot is reset and its header written.          *)
invalidateOldSave(slot) ==
  /\ SaveIs(slot, ResetSlot(slot))
  /\ Put(HeaderOf(ResetSlot(slot)))

(* saveIndexState(), writeIndexStateCheckpoint() and, for an incremental   *)
(* checkpoint, startIndexStateCheckpoint(): prepareToSave() refuses while  *)
(* saving, and setupSingleFileIndexSaveSlot() takes the oldest slot.       *)
prepareToSave(op) ==
  /\ job = Idle /\ sfl # NoLayout /\ ~ris.saving /\ clock < scenario.times
  /\ LET slot == selectOldestIndexSaveLayout(sfl)
     IN  /\ invalidateOldSave(slot)
         /\ job' = Step(op, "invalidate", slot)
         /\ saves' = [saves EXCEPT !.sure = @ \ ({TimeOf(sfl, slot)} \ {Sure})]
  /\ UNCHANGED <<scenario, ris, clock, crashes, loaded>>

SaveTypeOf(op) == IF op = "save" THEN "save" ELSE "checkpoint"

SavedComponents(op) ==
  SelectSeq(Components, LAMBDA c : op = "save" \/ ~skipIndexComponentOnCheckpoint(c))

ZonesOfAll(op) ==
  UNION {{c} \X ZonesOf(c, ris.zoneCount) :
           c \in {SavedComponents(op)[i] : i \in DOMAIN SavedComponents(op)}}

(* openBufferedWriters(): a region left open by an earlier save is an      *)
(* error.                                                                  *)
MayOpen(isl, zones) ==
  \A cz \in zones : cz \notin ris.regions /\ openRegionStateRegion(isl, cz[1], cz[2]) # NoRegion

SaveOps == {"save", "checkpoint", "incremental"}

(* The old header is gone: the slot is given its new layout and time.  An  *)
(* incremental checkpoint opens every component's writers now.             *)
InvalidateDone ==
  /\ job.op \in SaveOps /\ job.phase = "invalidate"
  /\ syncRegion
  /\ LET isl == instantiateIndexSaveLayout(sfl.saves[job.slot], sfl.super, sfl.nonce,
                                           ris.zoneCount, SaveTypeOf(job.op), clock)
         zones == ZonesOfAll(job.op)
         old == {t \in saves.may : \E s \in Slots(sfl) : s # job.slot /\ TimeOf(sfl, s) = t}
     IN  /\ clock' = clock + 1
         /\ IF job.op # "incremental"
            THEN /\ SaveIs(job.slot, isl)
                 /\ job' = [job EXCEPT !.phase = "components",
                                       !.queue = SavedComponents(job.op)]
                 /\ ris' = [ris EXCEPT !.saveSlot = job.slot]
                 /\ saves' = [saves EXCEPT !.may = old]
            ELSE IF MayOpen(isl, zones)
            THEN /\ SaveIs(job.slot, isl)
                 /\ job' = [job EXCEPT !.phase = "zones", !.left = zones]
                 /\ ris' = [ris EXCEPT !.saveSlot = job.slot, !.saving = TRUE,
                                       !.regions = @ \cup zones]
                 /\ saves' = [saves EXCEPT !.may = old]
            ELSE /\ SaveIs(job.slot, mutilateIndexSaveInfo(isl))
                 /\ job' = Idle
                 /\ UNCHANGED ris
                 /\ saves' = [saves EXCEPT !.may = old, !.result = "UDS_ASSERTION_FAILED"]
  /\ UNCHANGED <<scenario, crashes, loaded>>

MayFail == crashes < scenario.faults

(* Some of what was being written reached the operating system.            *)
PutSome(written) ==
  \E part \in {{}, DOMAIN written} : Put([b \in part |-> written[b]])

(* The header could not be written: the save is refused.  The old header   *)
(* may still be there, though the memory of the slot is empty.             *)
InvalidateFails ==
  /\ job.op \in SaveOps /\ job.phase = "invalidate" /\ MayFail
  /\ Answer("EIO")
  /\ job' = Idle
  /\ crashes' = crashes + 1
  /\ UNCHANGED <<scenario, disk, cache, sfl, ris, clock, loaded>>

(* cleanupSave(): the slot's memory is spoilt and the save is over.        *)
cleanupSave(result) ==
  /\ SaveIs(job.slot, mutilateIndexSaveInfo(sfl.saves[job.slot]))
  /\ Answer(result)
  /\ job' = Idle

(* writeIndexComponent(): open every zone's writer of the next component.  *)
openBufferedWriters ==
  /\ job.op \in SaveOps /\ job.phase = "components" /\ job.queue # <<>>
  /\ LET zones == {Head(job.queue)} \X ZonesOf(Head(job.queue), ris.zoneCount)
     IN  IF MayOpen(sfl.saves[job.slot], zones)
         THEN /\ ris' = [ris EXCEPT !.regions = @ \cup zones]
              /\ job' = [job EXCEPT !.phase = "saver", !.zone = 0]
              /\ UNCHANGED <<sfl, saves>>
         ELSE /\ cleanupSave("UDS_ASSERTION_FAILED")
              /\ ris' = [ris EXCEPT !.saveSlot = 0]
  /\ UNCHANGED <<scenario, disk, cache, clock, crashes, loaded>>

(* A component's saver writes a zone; the index state goes to the buffer   *)
(* that the header will carry.                                             *)
WriteZone(c, zone) ==
  IF c = "index state"
  THEN /\ SaveIs(job.slot, [sfl.saves[job.slot] EXCEPT
                              !.indexStateBuffer = sfl.saves[job.slot].saveData.timestamp])
       /\ UNCHANGED <<disk, cache>>
  ELSE /\ Put(WrittenBy(sfl.saves[job.slot], c, zone))
       /\ UNCHANGED sfl

SaveZone ==
  /\ job.op \in SaveOps /\ job.phase = "saver"
  /\ WriteZone(Head(job.queue), job.zone)
  /\ job' = [job EXCEPT !.phase = "done"]
  /\ UNCHANGED <<scenario, ris, clock, crashes, saves, loaded>>

doneWithZone_unsynced ==
  /\ job.op \in SaveOps /\ job.phase = "done"
  /\ LET c == Head(job.queue)
     IN  /\ ris' = [ris EXCEPT !.regions = @ \ {<<c, job.zone>>}]
         /\ job' = IF job.zone + 1 \in ZonesOf(c, ris.zoneCount)
                   THEN [job EXCEPT !.phase = "saver", !.zone = @ + 1]
                   ELSE [job EXCEPT !.phase = "components", !.queue = Tail(@)]
  /\ UNCHANGED <<scenario, disk, cache, sfl, clock, crashes, saves, loaded>>

(* The zone's writer is flushed and its region synced and closed; then the *)
(* next zone, or the next component.                                       *)
doneWithZone ==
  /\ job.op \in SaveOps /\ job.phase = "done"
  /\ syncRegion
  /\ LET c == Head(job.queue)
     IN  /\ ris' = [ris EXCEPT !.regions = @ \ {<<c, job.zone>>}]
         /\ job' = IF job.zone + 1 \in ZonesOf(c, ris.zoneCount)
                   THEN [job EXCEPT !.phase = "saver", !.zone = @ + 1]
                   ELSE [job EXCEPT !.phase = "components", !.queue = Tail(@)]
  /\ UNCHANGED <<scenario, sfl, clock, crashes, saves, loaded>>

(* A zone cannot be written or synced: the component's zones are freed and *)
(* the save cleaned up.                                                    *)
SaveZoneFails ==
  /\ job.op \in SaveOps /\ job.phase \in {"saver", "done"} /\ MayFail
  /\ PutSome(IF job.phase = "saver" /\ Head(job.queue) # "index state"
             THEN WrittenBy(sfl.saves[job.slot], Head(job.queue), job.zone) ELSE Nothing)
  /\ cleanupSave("EIO")
  /\ ris' = [ris EXCEPT !.saveSlot = 0,
                        !.regions = {cz \in @ : cz[1] # Head(job.queue)}]
  /\ crashes' = crashes + 1
  /\ UNCHANGED <<scenario, clock, loaded>>

(* Zones of an incremental checkpoint are written in any order.            *)
performIndexStateCheckpointInZone ==
  /\ job.op = "incremental" /\ job.phase = "zones"
  /\ \E cz \in job.left :
       /\ WriteZone(cz[1], cz[2])
       /\ job' = [job EXCEPT !.left = @ \ {cz}]
  /\ UNCHANGED <<scenario, ris, clock, crashes, saves, loaded>>

(* The regions still open when the zones' writers are closed or freed.     *)
closeZones(op) == ris.regions \ ZonesOfAll(op)

(* Every component is closed, which syncs it, before the commit.           *)
finishIndexStateCheckpoint ==
  /\ job.op = "incremental" /\ job.phase = "zones" /\ job.left = {}
  /\ syncRegion
  /\ ris' = [ris EXCEPT !.regions = closeZones(job.op)]
  /\ job' = [job EXCEPT !.phase = "components"]
  /\ UNCHANGED <<scenario, sfl, clock, crashes, saves, loaded>>

(* A writer that cannot be flushed is freed with its region left open, and *)
(* the checkpoint is aborted.                                              *)
finishCheckpointFails ==
  /\ job.op = "incremental" /\ job.phase = "zones" /\ job.left = {} /\ MayFail
  /\ \E cz \in ZonesOfAll(job.op) :
       ris' = [ris EXCEPT !.saveSlot = 0, !.saving = FALSE,
                          !.regions = closeZones(job.op) \cup {cz}]
  /\ cleanupSave("EIO")
  /\ crashes' = crashes + 1
  /\ UNCHANGED <<scenario, disk, cache, clock, loaded>>

(* abortIndexStateCheckpoint(): close every writer, which syncs, and clean *)
(* up.                                                                     *)
abortIndexStateCheckpoint ==
  /\ job.op = "incremental" /\ job.phase = "zones" /\ job.left # {}
  /\ syncRegion
  /\ cleanupSave("aborted")
  /\ ris' = [ris EXCEPT !.saveSlot = 0, !.saving = FALSE,
                        !.regions = closeZones(job.op)]
  /\ UNCHANGED <<scenario, clock, crashes, loaded>>

(* commitSingleFileIndexSave(): the header is written, and the save is     *)
(* then on storage or not.                                                 *)
CommitWrite ==
  /\ job.op \in SaveOps /\ job.phase = "components" /\ job.queue = <<>>
  /\ LET isl == sfl.saves[job.slot]
     IN  IF isl.indexStateBuffer = Empty
         THEN /\ Answer("UDS_UNEXPECTED_RESULT")
              /\ job' = Idle
              /\ UNCHANGED <<disk, cache>>
         ELSE /\ Put(HeaderOf(isl))
              /\ job' = [job EXCEPT !.phase = "commit"]
              /\ saves' = [saves EXCEPT !.may = @ \cup {isl.saveData.timestamp}]
  /\ ris' = [ris EXCEPT !.saving = FALSE]
  /\ UNCHANGED <<scenario, sfl, clock, crashes, loaded>>

CommitDone ==
  /\ job.op \in SaveOps /\ job.phase = "commit"
  /\ syncRegion
  /\ job' = Idle
  /\ ris' = [ris EXCEPT !.saveSlot = 0]
  /\ saves' = [saves EXCEPT !.sure = @ \cup {sfl.saves[job.slot].saveData.timestamp},
                            !.result = UDS_SUCCESS]
  /\ UNCHANGED <<scenario, sfl, clock, crashes, loaded>>

(* The header cannot be written: completeIndexSaving() only reports it.    *)
(* The memory of the slot still says that it holds the latest save.        *)
CommitFails ==
  /\ job.op \in SaveOps /\ job.phase = "commit" /\ MayFail /\ scenario.commitFails
  /\ \E kept \in BOOLEAN :
       IF kept THEN syncRegion
       ELSE /\ cache' = [b \in DOMAIN cache \ {sfl.saves[job.slot].header.startBlock} |->
                           cache[b]]
            /\ UNCHANGED disk
  /\ Answer("EIO")
  /\ job' = Idle
  /\ crashes' = crashes + 1
  /\ UNCHANGED <<scenario, sfl, ris, clock, loaded>>
-----------------------------------------------------------------------------
(* Discarding, crashes.                                                    *)

(* discardIndexStateData() and discardLastIndexStateSave() on an idle      *)
(* index.                                                                  *)
DiscardSaves(all) ==
  /\ job = Idle /\ sfl # NoLayout /\ ris.zoneCount > 0 /\ ~ris.saving
  /\ saves.sure # {}
  /\ LET latest == selectLatestIndexSaveLayout(sfl)
     IN  /\ all \/ latest # 0
         /\ job' = IF all THEN Step("discardAll", "discard", 1)
                   ELSE Step("discard", "discard", latest)
         /\ saves' = [saves EXCEPT !.sure = IF all THEN {} ELSE @ \ {TimeOf(sfl, latest)}]
  /\ ris' = [ris EXCEPT !.saveSlot = 0]
  /\ UNCHANGED <<scenario, disk, cache, sfl, clock, crashes, loaded>>

DiscardWrite ==
  /\ job.phase = "discard"
  /\ invalidateOldSave(job.slot)
  /\ job' = [job EXCEPT !.phase = "discarded"]
  /\ UNCHANGED <<scenario, ris, clock, crashes, saves, loaded>>

(* Every slot in turn when all are discarded, even past one that failed.   *)
AfterDiscard ==
  job' = IF job.op # "discard" /\ job.slot + 1 \in Slots(sfl)
         THEN [job EXCEPT !.phase = "discard", !.slot = @ + 1]
         ELSE IF job.op = "open" THEN Step("open", "seal", 0) ELSE Idle

DiscardDone ==
  /\ job.phase = "discarded"
  /\ syncRegion
  /\ AfterDiscard
  /\ saves' = [saves EXCEPT !.may = {t \in @ :
       \E i \in Slots(sfl) : i # job.slot /\ View[sfl.saves[i].header.startBlock].type # "garbage"
          /\ View[sfl.saves[i].header.startBlock].saveData.timestamp = t}]
  /\ UNCHANGED <<scenario, sfl, ris, clock, crashes, loaded>>

DiscardFails ==
  /\ job.phase = "discarded" /\ MayFail
  /\ Answer("EIO")
  /\ AfterDiscard
  /\ crashes' = crashes + 1
  /\ UNCHANGED <<scenario, disk, cache, sfl, ris, clock, loaded>>

(* A crash keeps any part of what was not synced.                          *)
Crash ==
  /\ crashes < scenario.faults
  /\ sfl # NoLayout
  /\ \E kept \in SUBSET DOMAIN cache :
       disk' = [b \in Blocks |-> IF b \in kept THEN cache[b] ELSE disk[b]]
  /\ cache' = Nothing
  /\ sfl' = NoLayout /\ ris' = NoState /\ job' = Idle
  /\ crashes' = crashes + 1
  /\ UNCHANGED <<scenario, clock, saves, loaded>>

Next ==
  \/ CreateLayout \/ FormatWrite \/ FormatSync \/ LoadLayout
  \/ OpenConfig \/ (\E zones \in scenario.zones : OpenState(zones))
  \/ loadIndexState \/ RemoveSeal \/ WriteSeal \/ FreeLayout
  \/ (\E op \in scenario.ops : prepareToSave(op))
  \/ InvalidateDone \/ InvalidateFails \/ openBufferedWriters
  \/ SaveZone \/ doneWithZone \/ SaveZoneFails
  \/ performIndexStateCheckpointInZone \/ finishIndexStateCheckpoint
  \/ finishCheckpointFails \/ abortIndexStateCheckpoint
  \/ CommitWrite \/ CommitDone \/ CommitFails
  \/ (\E all \in BOOLEAN : DiscardSaves(all))
  \/ DiscardWrite \/ DiscardDone \/ DiscardFails
  \/ Crash

Spec == Init /\ [][Next]_vars
-----------------------------------------------------------------------------
(* Correctness.                                                            *)

(* The saves that the durable blocks describe.                             *)
DurableSaves ==
  LET Valid(d) == IF d.result # UDS_SUCCESS THEN {}
                  ELSE {d.layout.saves[i] : i \in {j \in Slots(d.layout) :
                                                     TimeOf(d.layout, j) > 0}}
  IN  Then(loadSingleFileLayout(scenario, disk), Valid)

(* A save that storage claims to hold is all there: for every slot whose   *)
(* header would be taken for a save after a crash now, every zone of every *)
(* component of that save type is durable, as that save wrote it.          *)
SavedDataIsIntact ==
  \A isl \in DurableSaves :
    \A k \in DOMAIN SavedComponents(isl.saveType) :
      LET c == SavedComponents(isl.saveType)[k]
      IN  IF c = "index state" THEN isl.indexStateBuffer = isl.saveData.timestamp
          ELSE \A z \in ZonesOf(c, isl.numZones) :
                 \A written \in {WrittenBy(isl, c, z)} :
                   \A b \in DOMAIN written : disk[b] = written[b]

(* "There are at least two save regions per sub-index to preserve the old  *)
(* state should the saving of a state be incomplete": the latest save that *)
(* was reported committed and was not discarded is found on storage at any *)
(* moment, unless a later one is; and nothing discarded comes back.        *)
LatestSaveIsKept ==
  \A times \in {{isl.saveData.timestamp : isl \in DurableSaves}} :
    /\ Sure # 0 => \E t \in times : t >= Sure
    /\ times \subseteq saves.sure \cup saves.may

(* What loadIndexState() returned is one whole save: the latest committed  *)
(* one, or a later one whose commit a crash or an error left in doubt, and *)
(* a replay is asked for exactly when it was a checkpoint.                 *)
LoadedStateIsTheLatest == loaded.save \in loaded.expected /\ loaded.complete

Tiles(regions, first, last) ==
  /\ regions[1].startBlock = first
  /\ End(regions[Len(regions)]) = last
  /\ \A k \in 1 .. Len(regions) - 1 : End(regions[k]) = regions[k + 1].startBlock
  /\ \A k \in DOMAIN regions : regions[k].numBlocks > 0

(* No layout meets an inconsistency of its own making: the regions of the  *)
(* layout in memory tile the space it was given, the regions of a slot     *)
(* tile the slot, and no operation answers UDS_UNEXPECTED_RESULT, the      *)
(* answer of every cross-check in the layout code.                         *)
LayoutIsConsistent ==
  /\ saves.result # "UDS_UNEXPECTED_RESULT"
  /\ sfl # NoLayout =>
       /\ Tiles(<<sfl.header, sfl.config, sfl.volume>>
                \o [i \in Slots(sfl) |-> sfl.saves[i].indexSave] \o <<sfl.seal>>,
                scenario.offset \div sfl.super.blockSize,
                scenario.offset \div sfl.super.blockSize + sfl.totalBlocks)
       /\ End(sfl.seal) * sfl.super.blockSize <= scenario.limit
       /\ \A i \in Slots(sfl) :
            sfl.saves[i].saveType # "none" =>
              Tiles(makeIndexSaveRegionTable(sfl.saves[i]),
                    sfl.saves[i].indexSave.startBlock, End(sfl.saves[i].indexSave))
=============================================================================
