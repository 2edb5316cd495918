------------------------------ MODULE VDOLayout ------------------------------
(***************************************************************************)
(* Where a VDO keeps its metadata: the geometry block, the super block     *)
(* with its component data, and the partitions of the fixed layout; the    *)
(* tools that format a device and that change the state of an idle VDO;    *)
(* the load; and the physical growth, which moves two partitions.          *)
(* base/volumeGeometry.c, header.c, superBlock.c, vdo.c, fixedLayout.c,    *)
(* vdoLayout.c, partitionCopy.c, vdoLoad.c, vdoResize.c, upgrade.c, the    *)
(* codecs of slabDepot.c, recoveryJournal.c and blockMap.c,                *)
(* user/vdoConfig.c, vdoformat.c, fileLayer.c                              *)
(*                                                                         *)
(* An encoded block is the sequence of the fields put into its buffer,     *)
(* each with its width in bytes.  The device keeps what was written since  *)
(* the last flush apart: a crash may lose any of it.                       *)
(***************************************************************************)
EXTENDS Integers, Sequences, SequencesExt, FiniteSets, FiniteSetsExt

CONSTANT Scenarios \* configurations, operations and faults explored

VARIABLES
  scenario, \* rigid
  durable,  \* the blocks of the device that survive a crash
  cache,    \* the writes since the last flush, oldest first: [pbn, block]
  program,  \* the tool or the kernel that has the device, and where it is
  vdo,      \* the VDO in the kernel's memory
  answer,   \* the result of the last operation
  version,  \* ghost: how often the VDO with each nonce wrote its metadata
  saves,    \* ghost: super blocks since the last that is known to be durable
  size,     \* blocks the device has
  used      \* operations used up: [formats, states, writes, grows, crashes, errors]

vars == <<scenario, durable, cache, program, vdo, answer, version, saves, size, used>>

VDO_SUCCESS == "VDO_SUCCESS"
\* F(z), with z evaluated first.
Then(z, F(_)) == CHOOSE result \in {F(w) : w \in {z}} : TRUE
-----------------------------------------------------------------------------
(* Buffers and headers.                                                    *)

Put(widths, values) == [i \in DOMAIN widths |-> [width |-> widths[i], value |-> values[i]]]
Values(fields) == [i \in DOMAIN fields |-> fields[i].value]
contentLength(fields) ==
  LET Of(width) == width * Cardinality({i \in DOMAIN fields : fields[i].width = width})
  IN Of(1) + Of(4) + Of(8) + Of(16)

\* The fields a get of the given widths finds, or nothing.
Get(fields, widths) ==
  IF /\ Len(fields) >= Len(widths)
     /\ \A i \in DOMAIN widths : fields[i].width = widths[i]
  THEN Values(SubSeq(fields, 1, Len(widths)))
  ELSE <<>>

Skip(fields, widths) == SubSeq(fields, Len(widths) + 1, Len(fields))

VERSION == <<4, 4>>
HEADER == <<4, 4, 4, 8>>
U64(n) == [i \in 1 .. n |-> 8]

Header(id, major, minor, bytes) == <<id, major, minor, bytes>>

encodeHeader(header) == Put(HEADER, header)

validateVersion(expected, actual) ==
  IF expected = actual THEN VDO_SUCCESS ELSE "VDO_UNSUPPORTED_VERSION"

validateHeader(expected, actual, exactSize) ==
  IF expected[1] # actual[1] THEN "VDO_INCORRECT_COMPONENT"
  ELSE IF \/ <<expected[2], expected[3]>> # <<actual[2], actual[3]>>
          \/ expected[4] > actual[4]
          \/ exactSize /\ expected[4] < actual[4]
  THEN "VDO_UNSUPPORTED_VERSION" ELSE VDO_SUCCESS

\* The payload behind a header that decodes and is valid.
decodeHeader(fields, expected, exactSize) ==
  LET header == Get(fields, HEADER)
  IN IF header = <<>> THEN [result |-> "UDS_BUFFER_ERROR", rest |-> <<>>]
     ELSE [result |-> validateHeader(expected, header, exactSize),
           rest |-> Skip(fields, HEADER)]

\* One-to-one, where the code has a CRC.
updateCRC32(fields) == Values(fields)
-----------------------------------------------------------------------------
(* Blocks of the device.                                                   *)

Block(kind, fields, nonce, n) == [kind |-> kind, fields |-> fields, nonce |-> nonce, n |-> n]
ZERO == Block("zero", <<>>, 0, 0)
Encoded(fields) == Block("fields", fields, 0, 0)
Stamped(kind, nonce, n) == Block(kind, <<>>, nonce, n)

View(pbn) ==
  LET written == {i \in DOMAIN cache : cache[i].pbn = pbn}
  IN IF written = {} THEN durable[pbn] ELSE cache[Max(written)].block

\* A write by a tool, or by the kernel.
Write(pbn, block) == [pbn |-> pbn, block |-> block, tool |-> TRUE]
KernelWrite(pbn, block) == [pbn |-> pbn, block |-> block, tool |-> FALSE]
Applied(device, writes) ==
  [pbn \in DOMAIN device |->
     LET mine == {i \in DOMAIN writes : writes[i].pbn = pbn}
     IN IF mine = {} THEN device[pbn] ELSE writes[Max(mine)].block]
-----------------------------------------------------------------------------
(* The geometry block.                                                     *)

CURRENT_RELEASE_VERSION_NUMBER == 133524
MAGNESIUM_RELEASE_VERSION_NUMBER == 131337
GEOMETRY_BLOCK_LOCATION == 0
MAGIC == <<8>>
GEOMETRY == <<4, 8, 16, 4, 8, 4, 8, 4, 4, 1>>
GEOMETRY_BLOCK_HEADER_4_0 == Header(5, 4, 0, 93)

initializeVolumeGeometry(nonce) ==
  [releaseVersion |-> CURRENT_RELEASE_VERSION_NUMBER, nonce |-> nonce, uuid |-> nonce,
   index |-> 1, data |-> 1 + scenario.indexBlocks]

encodeGeometryBlock(g) ==
  Put(MAGIC, <<"dmvdo001">>) \o encodeHeader(GEOMETRY_BLOCK_HEADER_4_0)
  \o Put(GEOMETRY, <<g.releaseVersion, g.nonce, g.uuid, 0, g.index, 1, g.data, 0, 0, 0>>)

writeVolumeGeometry(g) ==
  Then(encodeGeometryBlock(g),
       LAMBDA fields : Write(GEOMETRY_BLOCK_LOCATION,
                             Encoded(fields \o Put(<<4>>, <<updateCRC32(fields)>>))))

decodeGeometryBlock(fields) ==
  IF Get(fields, MAGIC) # <<"dmvdo001">> THEN [result |-> "VDO_BAD_MAGIC", rest |-> <<>>]
  ELSE decodeHeader(Skip(fields, MAGIC), GEOMETRY_BLOCK_HEADER_4_0, TRUE)

isLoadableReleaseVersion(v) ==
  v \in {CURRENT_RELEASE_VERSION_NUMBER, MAGNESIUM_RELEASE_VERSION_NUMBER}

NO_GEOMETRY == [releaseVersion |-> 0, nonce |-> 0, data |-> 0]

loadVolumeGeometry(block) ==
  Then(decodeGeometryBlock(block.fields),
       LAMBDA found :
         IF found.result # VDO_SUCCESS THEN [result |-> found.result, geometry |-> NO_GEOMETRY]
         ELSE LET g == Get(found.rest, GEOMETRY)
                  sum == Skip(found.rest, GEOMETRY)[1].value
              IN [result |->
                    IF ~isLoadableReleaseVersion(g[1]) THEN "VDO_UNSUPPORTED_VERSION"
                    ELSE IF sum # updateCRC32(SubSeq(block.fields, 1, Len(block.fields) - 1))
                    THEN "VDO_CHECKSUM_MISMATCH" ELSE VDO_SUCCESS,
                  geometry |-> [releaseVersion |-> g[1], nonce |-> g[2], data |-> g[7]]])
-----------------------------------------------------------------------------
(* The fixed layout: a list of partitions between firstFree and lastFree.  *)

BLOCK_MAP_PARTITION == 0
BLOCK_ALLOCATOR_PARTITION == 1
RECOVERY_JOURNAL_PARTITION == 2
SLAB_SUMMARY_PARTITION == 3
REQUIRED_PARTITIONS == 0 .. 3
ALL_FREE_BLOCKS == 0

NO_LAYOUT == [result |-> "none", firstFree |-> 0, lastFree |-> 0, head |-> <<>>]

makeFixedLayout(totalBlocks, startOffset) ==
  [result |-> VDO_SUCCESS, firstFree |-> startOffset,
   lastFree |-> startOffset + totalBlocks, head |-> <<>>]

hasPartition(layout, id) == \E i \in DOMAIN layout.head : layout.head[i].id = id

getPartition(layout, id) ==
  layout.head[CHOOSE i \in DOMAIN layout.head : layout.head[i].id = id]

allocatePartition(layout, id, offset, base, count) ==
  [layout EXCEPT !.head = <<[id |-> id, offset |-> offset, base |-> base, count |-> count]>> \o @]

makeFixedLayoutPartition(layout, id, blockCount, fromEnd, base) ==
  LET freeBlocks == layout.lastFree - layout.firstFree
      count == IF blockCount = ALL_FREE_BLOCKS THEN freeBlocks ELSE blockCount
  IN IF layout.result # VDO_SUCCESS THEN layout
     ELSE IF count = 0 \/ count > freeBlocks THEN [layout EXCEPT !.result = "VDO_NO_SPACE"]
     ELSE IF hasPartition(layout, id) THEN [layout EXCEPT !.result = "VDO_PARTITION_EXISTS"]
     ELSE [allocatePartition(layout, id, IF fromEnd THEN layout.lastFree - count
                                         ELSE layout.firstFree, base, count)
           EXCEPT !.lastFree = IF fromEnd THEN @ - count ELSE @,
                  !.firstFree = IF fromEnd THEN @ ELSE @ + count]

makeVDOFixedLayout(physicalBlocks, start, blockMapBlocks, journalBlocks, summaryBlocks) ==
  IF start + blockMapBlocks + journalBlocks + summaryBlocks > physicalBlocks
  THEN [NO_LAYOUT EXCEPT !.result = "VDO_NO_SPACE"]
  ELSE Then(Then(Then(Then(makeFixedLayout(physicalBlocks - start, start),
         LAMBDA l : makeFixedLayoutPartition(l, BLOCK_MAP_PARTITION, blockMapBlocks, FALSE, 0)),
         LAMBDA l : makeFixedLayoutPartition(l, SLAB_SUMMARY_PARTITION, summaryBlocks, TRUE, 0)),
         LAMBDA l : makeFixedLayoutPartition(l, RECOVERY_JOURNAL_PARTITION, journalBlocks, TRUE, 0)),
         LAMBDA l : makeFixedLayoutPartition(l, BLOCK_ALLOCATOR_PARTITION, ALL_FREE_BLOCKS,
                                             FALSE, blockMapBlocks))

getTotalFixedLayoutSize(layout) == FoldLeft(LAMBDA sum, p : sum + p.count, 0, layout.head)
getVDOSize(layout, startingOffset) == getTotalFixedLayoutSize(layout) + startingOffset

OUT_OF_RANGE == 0 - 1

translateToPBN(partition, n) ==
  IF n < partition.base \/ n - partition.base >= partition.count THEN OUT_OF_RANGE
  ELSE partition.offset + (n - partition.base)

translateFromPBN(partition, pbn) ==
  IF pbn < partition.offset \/ pbn - partition.offset >= partition.count THEN OUT_OF_RANGE
  ELSE (pbn - partition.offset) + partition.base

PARTITION == <<1, 8, 8, 8>>
LAYOUT == <<8, 8, 1>>
LAYOUT_HEADER_3_0 == Header(1, 3, 0, 17)

encodePartitions_3_0(layout) ==
  LET Fields(p) == Put(PARTITION, <<p.id, p.offset, p.base, p.count>>)
  IN [i \in 1 .. 4 * Len(layout.head) |->
        Fields(layout.head[((i - 1) \div 4) + 1])[((i - 1) % 4) + 1]]

encodeFixedLayout(layout) ==
  encodeHeader([LAYOUT_HEADER_3_0 EXCEPT ![4] = 17 + 25 * Len(layout.head)])
  \o Put(LAYOUT, <<layout.firstFree, layout.lastFree, Len(layout.head)>>)
  \o encodePartitions_3_0(layout)

\* allocatePartition() puts each partition before the ones already read.
decodePartitions_3_0(fields, count) ==
  Reverse([i \in 1 .. count |->
    LET f == Values(SubSeq(fields, 4 * (i - 1) + 1, 4 * i))
    IN [id |-> f[1], offset |-> f[2], base |-> f[3], count |-> f[4]]])

decodeFixedLayout(fields) ==
  Then(decodeHeader(fields, LAYOUT_HEADER_3_0, FALSE),
       LAMBDA found :
         IF found.result # VDO_SUCCESS
         THEN [layout |-> [NO_LAYOUT EXCEPT !.result = found.result], rest |-> <<>>]
         ELSE LET l == Get(found.rest, LAYOUT)
                  body == Skip(found.rest, LAYOUT)
              IN IF contentLength(body) < 25 * l[3]
                 THEN [layout |-> [NO_LAYOUT EXCEPT !.result = "VDO_UNSUPPORTED_VERSION"],
                       rest |-> <<>>]
                 ELSE [layout |-> [result |-> VDO_SUCCESS, firstFree |-> l[1], lastFree |-> l[2],
                                   head |-> decodePartitions_3_0(body, l[3])],
                       rest |-> SubSeq(body, 4 * l[3] + 1, Len(body))])

decodeVDOLayout(fields) ==
  Then(decodeFixedLayout(fields),
       LAMBDA found :
         IF \/ found.layout.result # VDO_SUCCESS
            \/ \A id \in REQUIRED_PARTITIONS : hasPartition(found.layout, id)
         THEN found
         ELSE [found EXCEPT !.layout.result = "VDO_UNKNOWN_PARTITION"])
-----------------------------------------------------------------------------
(* The configuration of a VDO, its slabs and its depot.                    *)

COUNTS_PER_BLOCK == 4032
MINIMUM_SLAB_JOURNAL_BLOCKS == 2
MAX_SLAB_BITS == 23
MAX_SLABS == 8192
minimalExtraSpace == 2

getSavedReferenceCountSize(n) == (n + COUNTS_PER_BLOCK - 1) \div COUNTS_PER_BLOCK
isPowerOfTwo(n) == \E k \in 0 .. 20 : n = 2 ^ k
binaryFloor(n) == 2 ^ Max({k \in 0 .. 20 : 2 ^ k <= n})

BAD_SLAB == [result |-> "VDO_BAD_CONFIGURATION", fields |-> <<>>]

\* slabBlocks, slabDataBlocks, referenceCountBlocks, slabJournalBlocks, flushing,
\* blocking and scrubbing threshold
configureSlab(slabSize, slabJournalBlocks) ==
  LET refBlocks == getSavedReferenceCountSize(slabSize - slabJournalBlocks)
      room == slabSize - (refBlocks + slabJournalBlocks)
      slabDataBlocks == IF slabSize < 1024 THEN binaryFloor(room) ELSE room
      flushing == (slabJournalBlocks * 3 + 3) \div 4
      wanted == flushing + ((slabJournalBlocks - flushing) * 5) \div 7
      scrubbing == IF slabJournalBlocks > minimalExtraSpace
                   THEN slabJournalBlocks - minimalExtraSpace ELSE wanted
      blocking == IF wanted > scrubbing THEN scrubbing ELSE wanted
  IN IF slabJournalBlocks >= slabSize \/ room <= 0 THEN BAD_SLAB
     ELSE [result |-> VDO_SUCCESS,
           fields |-> <<slabSize, slabDataBlocks, refBlocks, slabJournalBlocks,
                        flushing, blocking, scrubbing>>]

validateVDOConfig(config, blockCount, requireLogical) ==
  IF \/ ~isPowerOfTwo(config.slabSize)
     \/ config.slabSize > 2 ^ MAX_SLAB_BITS
     \/ config.slabJournalBlocks < MINIMUM_SLAB_JOURNAL_BLOCKS
     \/ config.slabJournalBlocks > config.slabSize
  THEN "UDS_ASSERTION_FAILED"
  ELSE IF configureSlab(config.slabSize, config.slabJournalBlocks).result # VDO_SUCCESS
  THEN "VDO_BAD_CONFIGURATION"
  ELSE IF config.physicalBlocks = 0 THEN "UDS_ASSERTION_FAILED"
  ELSE IF blockCount < config.physicalBlocks THEN "VDO_PARAMETER_MISMATCH"
  ELSE IF (requireLogical /\ config.logicalBlocks = 0) \/ ~isPowerOfTwo(config.recoveryJournalSize)
  THEN "UDS_ASSERTION_FAILED" ELSE VDO_SUCCESS

computeSlabCount(first, last, slabSize) == (last - first) \div slabSize

NO_DEPOT == [result |-> "none", config |-> <<0, 0, 0, 0, 0, 0, 0>>, first |-> 0, last |-> 0,
             zones |-> 0, oldZones |-> 0, slabs |-> 0, newSize |-> 0, newLast |-> 0, newSlabs |-> 0]

configureState(blockCount, firstBlock, slabConfig, zoneCount) ==
  LET slabCount == blockCount \div slabConfig[1]
  IN IF slabCount = 0 \/ slabCount > MAX_SLABS
     THEN [NO_DEPOT EXCEPT !.result = IF slabCount = 0 THEN "VDO_NO_SPACE" ELSE "VDO_TOO_MANY_SLABS"]
     ELSE [NO_DEPOT EXCEPT !.result = VDO_SUCCESS, !.config = slabConfig, !.first = firstBlock,
                           !.last = firstBlock + slabCount * slabConfig[1], !.zones = zoneCount]

\* state.zones is the count in the saved state
allocateDepot(state, physicalZoneCount) ==
  IF state.result # VDO_SUCCESS THEN state
  ELSE IF ~isPowerOfTwo(state.config[1]) THEN [NO_DEPOT EXCEPT !.result = "UDS_INVALID_ARGUMENT"]
  ELSE [state EXCEPT !.oldZones = state.zones, !.zones = physicalZoneCount,
                     !.slabs = computeSlabCount(state.first, state.last, state.config[1])]

makeSlabDepot(blockCount, firstBlock, slabConfig) ==
  allocateDepot(configureState(blockCount, firstBlock, slabConfig, 0), 0)

DEPOT == U64(9) \o <<1>>
SLAB_DEPOT_HEADER_2_0 == Header(3, 2, 0, 73)

encodeSlabDepot(depot) ==
  encodeHeader(SLAB_DEPOT_HEADER_2_0)
  \o Put(DEPOT, depot.config \o <<depot.first, depot.last,
                                  IF depot.zones = 0 THEN depot.oldZones ELSE depot.zones>>)

decodeSlabDepot(fields, physicalZoneCount) ==
  Then(decodeHeader(fields, SLAB_DEPOT_HEADER_2_0, TRUE),
       LAMBDA found :
         IF found.result # VDO_SUCCESS
         THEN [depot |-> [NO_DEPOT EXCEPT !.result = found.result], rest |-> <<>>]
         ELSE LET d == Get(found.rest, DEPOT)
              IN [depot |-> allocateDepot([NO_DEPOT EXCEPT !.result = VDO_SUCCESS,
                                             !.config = SubSeq(d, 1, 7), !.first = d[8],
                                             !.last = d[9], !.zones = d[10]], physicalZoneCount),
                  rest |-> Skip(found.rest, DEPOT)])

JOURNAL == U64(3)
RECOVERY_JOURNAL_HEADER_7_0 == Header(2, 7, 0, 24)

\* saved: the journal was drained by a save, and starts anew at its tail
encodeRecoveryJournal(journal, saved) ==
  encodeHeader(RECOVERY_JOURNAL_HEADER_7_0)
  \o Put(JOURNAL, <<IF saved THEN journal.tail ELSE journal.head, journal.logical, journal.map>>)

decodeRecoveryJournal(fields) ==
  Then(decodeHeader(fields, RECOVERY_JOURNAL_HEADER_7_0, TRUE),
       LAMBDA found :
         LET j == Get(found.rest, JOURNAL)
         IN [result |-> found.result,
             journal |-> IF found.result # VDO_SUCCESS
                         THEN [head |-> 0, tail |-> 0, logical |-> 0, map |-> 0]
                         ELSE [head |-> j[1], tail |-> j[1], logical |-> j[2], map |-> j[3]],
             rest |-> Skip(found.rest, JOURNAL)])

BLOCK_MAP_FLAT_PAGE_ORIGIN == 1
BLOCK_MAP_STATE == U64(4)
BLOCK_MAP_HEADER_2_0 == Header(4, 2, 0, 32)

encodeBlockMap(map) ==
  encodeHeader(BLOCK_MAP_HEADER_2_0)
  \o Put(BLOCK_MAP_STATE, <<BLOCK_MAP_FLAT_PAGE_ORIGIN, 0, map.rootOrigin, map.rootCount>>)

decodeBlockMap(fields) ==
  Then(decodeHeader(fields, BLOCK_MAP_HEADER_2_0, TRUE),
       LAMBDA found :
         LET m == Get(found.rest, BLOCK_MAP_STATE)
         IN [result |-> IF found.result # VDO_SUCCESS THEN found.result
                        ELSE IF m[1] # BLOCK_MAP_FLAT_PAGE_ORIGIN THEN "UDS_ASSERTION_FAILED"
                        ELSE VDO_SUCCESS,
             map |-> IF found.result # VDO_SUCCESS THEN [rootOrigin |-> 0, rootCount |-> 0]
                     ELSE [rootOrigin |-> m[3], rootCount |-> m[4]],
             rest |-> Skip(found.rest, BLOCK_MAP_STATE)])
-----------------------------------------------------------------------------
(* The super block: the component data of the VDO in one sector.           *)

SUPER_BLOCK_HEADER_12_0 == Header(0, 12, 0, 8)
MAX_COMPONENT_DATA == 512 - 28
VDO_MASTER_VERSION_67_0 == <<67, 0>>
VDO_COMPONENT_DATA_41_0 == <<41, 0>>
COMPONENT == <<4, 8, 8, 8, 8, 8, 8, 8, 8>>

NO_CONFIG == [logicalBlocks |-> 0, physicalBlocks |-> 0, slabSize |-> 0,
              recoveryJournalSize |-> 0, slabJournalBlocks |-> 0]

NO_VDO == [state |-> "VDO_NEW", recoveries |-> <<0, 0>>, config |-> NO_CONFIG, nonce |-> 0,
           layout |-> NO_LAYOUT, start |-> 0,
           journal |-> [head |-> 1, tail |-> 1, logical |-> 0, map |-> 0],
           depot |-> NO_DEPOT, map |-> [rootOrigin |-> 0, rootCount |-> 0],
           next |-> NO_LAYOUT, offset |-> 0, release |-> CURRENT_RELEASE_VERSION_NUMBER,
           unwriteable |-> FALSE, readOnly |-> FALSE, expected |-> TRUE, summary |-> FALSE]

encodeVDOComponent(v) ==
  Put(VERSION, VDO_COMPONENT_DATA_41_0)
  \o Put(COMPONENT, <<v.state, v.recoveries[1], v.recoveries[2], v.config.logicalBlocks,
                      v.config.physicalBlocks, v.config.slabSize, v.config.recoveryJournalSize,
                      v.config.slabJournalBlocks, v.nonce>>)

encodeMasterVersion == Put(VERSION, VDO_MASTER_VERSION_67_0)

encodeVDO(v, saved) ==
  encodeMasterVersion \o encodeVDOComponent(v) \o encodeFixedLayout(v.layout)
  \o encodeRecoveryJournal(v.journal, saved) \o encodeSlabDepot(v.depot) \o encodeBlockMap(v.map)

\* components is what the component buffer holds
encodeSuperBlock(release, components) ==
  Then(encodeHeader([SUPER_BLOCK_HEADER_12_0 EXCEPT ![4] = 8 + contentLength(components)])
       \o Put(<<4>>, <<release>>) \o components,
       LAMBDA fields : fields \o Put(<<4>>, <<updateCRC32(fields)>>))

superBlockOf(v, saved) == Encoded(encodeSuperBlock(v.release, encodeVDO(v, saved)))

decodeSuperBlock(fields) ==
  LET found == decodeHeader(fields, SUPER_BLOCK_HEADER_12_0, FALSE)
      last == Len(fields)
  IN IF found.result # VDO_SUCCESS THEN [result |-> found.result, release |-> 0, components |-> <<>>]
     ELSE [result |-> IF Get(fields, HEADER)[4] > contentLength(found.rest)
                         \/ contentLength(found.rest) > MAX_COMPONENT_DATA + 8
                      THEN "VDO_UNSUPPORTED_VERSION"
                      ELSE IF fields[last].value # updateCRC32(SubSeq(fields, 1, last - 1))
                      THEN "VDO_CHECKSUM_MISMATCH" ELSE VDO_SUCCESS,
           release |-> fields[5].value,
           components |-> SubSeq(fields, 6, last - 1)]

validateVDOVersion(geometry, superBlock) ==
  IF geometry.releaseVersion # superBlock.release THEN "VDO_UNSUPPORTED_VERSION"
  ELSE validateVersion(VDO_MASTER_VERSION_67_0, Get(superBlock.components, VERSION))

\* components behind the master version
decodeVDOComponent(components) ==
  LET c == Get(Skip(components, VERSION), COMPONENT)
      valid == validateVersion(Get(components, VERSION), VDO_COMPONENT_DATA_41_0)
  IN IF valid # VDO_SUCCESS THEN [result |-> valid, vdo |-> NO_VDO, rest |-> <<>>]
     ELSE [result |-> VDO_SUCCESS,
           vdo |-> [NO_VDO EXCEPT !.state = c[1], !.recoveries = <<c[2], c[3]>>,
                      !.config = [logicalBlocks |-> c[4], physicalBlocks |-> c[5],
                                  slabSize |-> c[6], recoveryJournalSize |-> c[7],
                                  slabJournalBlocks |-> c[8]],
                      !.nonce = c[9]],
           rest |-> Skip(Skip(components, VERSION), COMPONENT)]

Failed(result) == [result |-> result, vdo |-> NO_VDO, rest |-> <<>>]

(* loadVolumeGeometry(), loadSuperBlock(), validateVDOVersion() and        *)
(* decodeVDOComponent(): as far as prepareSuperBlock() goes.               *)
prepareSuperBlock ==
  Then(loadVolumeGeometry(View(GEOMETRY_BLOCK_LOCATION)),
       LAMBDA g :
         IF g.result # VDO_SUCCESS THEN Failed(g.result)
         ELSE Then(decodeSuperBlock(View(g.geometry.data).fields),
                LAMBDA s :
                  IF s.result # VDO_SUCCESS THEN Failed(s.result)
                  ELSE IF validateVDOVersion(g.geometry, s) # VDO_SUCCESS
                  THEN Failed("VDO_UNSUPPORTED_VERSION")
                  ELSE Then(decodeVDOComponent(Skip(s.components, VERSION)),
                         LAMBDA d : [d EXCEPT !.vdo.offset = g.geometry.data,
                                              !.vdo.release = s.release])))

startVDODecode(validateConfig) ==
  Then(prepareSuperBlock,
       LAMBDA d :
         IF d.result # VDO_SUCCESS \/ ~validateConfig THEN d
         ELSE IF loadVolumeGeometry(View(GEOMETRY_BLOCK_LOCATION)).geometry.nonce # d.vdo.nonce
         THEN Failed("VDO_BAD_NONCE")
         ELSE [d EXCEPT !.result = validateVDOConfig(d.vdo.config, size, TRUE)])

finishVDODecode(d, physicalZoneCount) ==
  Then(decodeRecoveryJournal(d.rest), LAMBDA j :
  Then(decodeSlabDepot(j.rest, physicalZoneCount), LAMBDA s :
  Then(decodeBlockMap(s.rest), LAMBDA m :
    [result |-> IF j.result # VDO_SUCCESS THEN j.result
                ELSE IF s.depot.result # VDO_SUCCESS THEN s.depot.result ELSE m.result,
     vdo |-> [d.vdo EXCEPT !.journal = j.journal, !.depot = s.depot, !.map = m.map],
     rest |-> m.rest])))

loadVDO(validateConfig, physicalZoneCount) ==
  Then(startVDODecode(validateConfig),
       LAMBDA d :
         IF d.result # VDO_SUCCESS THEN d
         ELSE Then(decodeVDOLayout(d.rest),
                LAMBDA l :
                  IF l.layout.result # VDO_SUCCESS THEN Failed(l.layout.result)
                  ELSE finishVDODecode(
                         [d EXCEPT !.rest = l.rest, !.vdo.layout = l.layout,
                            !.vdo.start = getPartition(l.layout, BLOCK_MAP_PARTITION).offset],
                         physicalZoneCount)))
-----------------------------------------------------------------------------
(* The tools.  A tool that has the device is the list of the writes it has *)
(* still to make, each of one or more blocks, and what it answers.         *)

Tool(todo, result, nonce) ==
  [name |-> "tool", todo |-> todo, result |-> result, phase |-> "", index |-> 0, nonce |-> nonce]
NO_PROGRAM == [name |-> "none", todo |-> <<>>, result |-> VDO_SUCCESS, phase |-> "", index |-> 0,
               nonce |-> 0]

\* Blocks the block map's trees will need (forest.c).
computeForestSize(depotBlocks) == scenario.forest

configureVDO(config, nonce, g) ==
  LET layout == makeVDOFixedLayout(config.physicalBlocks, g.data + 1, scenario.roots,
                                   config.recoveryJournalSize, scenario.summary)
      slab == configureSlab(config.slabSize, config.slabJournalBlocks)
      allocator == getPartition(layout, BLOCK_ALLOCATOR_PARTITION)
      depot == makeSlabDepot(allocator.count, allocator.offset, slab.fields)
      depotBlocks == slab.fields[2] * depot.slabs
      map == getPartition(layout, BLOCK_MAP_PARTITION)
  IN IF layout.result # VDO_SUCCESS THEN Failed(layout.result)
     ELSE IF slab.result # VDO_SUCCESS THEN Failed(slab.result)
     ELSE IF depot.result # VDO_SUCCESS THEN Failed(depot.result)
     ELSE [result |-> VDO_SUCCESS, rest |-> <<>>,
           vdo |-> [NO_VDO EXCEPT !.nonce = nonce, !.layout = layout, !.start = g.data + 1,
                      !.depot = depot, !.offset = g.data,
                      !.config = [config EXCEPT !.logicalBlocks =
                        IF @ = 0 THEN depotBlocks - computeForestSize(depotBlocks) ELSE @],
                      !.map = [rootOrigin |-> map.offset, rootCount |-> map.count]]]

\* the largest power of two, up to 4096, that divides the size
bufferBlocks(count) == Max({b \in {2 ^ k : k \in 0 .. 12} : count % b = 0})

clearPartition(layout, id) ==
  LET p == getPartition(layout, id)
      b == bufferBlocks(p.count)
  IN [i \in 1 .. p.count \div b |->
        [j \in 1 .. b |-> Write(p.offset + (i - 1) * b + (j - 1), ZERO)]]

makeAndWriteVDO(config, g) ==
  Then(configureVDO(config, g.nonce, g),
       LAMBDA made :
         IF made.result # VDO_SUCCESS THEN [result |-> made.result, todo |-> <<>>]
         ELSE [result |-> VDO_SUCCESS,
               todo |-> clearPartition(made.vdo.layout, BLOCK_MAP_PARTITION)
                        \o clearPartition(made.vdo.layout, RECOVERY_JOURNAL_PARTITION)
                        \o <<<<Write(made.vdo.offset, superBlockOf(made.vdo, FALSE))>>>>])

clearVolumeGeometry == Write(GEOMETRY_BLOCK_LOCATION, ZERO)

formatVDOWithNonce(config, nonce) ==
  LET valid == validateVDOConfig(config, size, FALSE)
      g == initializeVolumeGeometry(nonce)
  IN IF valid # VDO_SUCCESS THEN [result |-> valid, todo |-> <<>>]
     ELSE Then(makeAndWriteVDO(config, g),
            LAMBDA made :
              [result |-> made.result,
               todo |-> <<<<clearVolumeGeometry>>>> \o made.todo
                        \o (IF made.result = VDO_SUCCESS THEN <<<<writeVolumeGeometry(g)>>>>
                            ELSE <<>>)])

Use(what) == used' = [used EXCEPT ![what] = @ + 1]
May(what) == used[what] < scenario.limits[what]

(* vdoformat: a device that holds a VDO is only formatted by force; the    *)
(* super block of an index is cleared first.                               *)
vdoformat(config, force) ==
  /\ program = NO_PROGRAM /\ May("formats") /\ Use("formats")
  /\ \E nonce \in {used.formats + 1} :
       \E full \in {[config EXCEPT !.physicalBlocks = size]} :
         IF loadVDO(FALSE, 0).result = VDO_SUCCESS /\ ~force
         THEN answer' = "EPERM" /\ UNCHANGED program
         ELSE /\ program' = Then(formatVDOWithNonce(full, nonce),
                                 LAMBDA f : Tool(<<<<Write(1, ZERO)>>>> \o f.todo, f.result, nonce))
              /\ answer' = "running"
  /\ UNCHANGED <<scenario, durable, cache, vdo, version, saves, size>>

saveReconfiguredVDO(v, rest) ==
  Write(v.offset, Encoded(encodeSuperBlock(v.release,
          encodeMasterVersion \o encodeVDOComponent(v) \o rest)))

(* forceVDORebuild() and setVDOReadOnlyMode().                             *)
updateVDOSuperBlockState(requireReadOnly, newState) ==
  /\ program = NO_PROGRAM /\ May("states") /\ Use("states")
  /\ \E d \in {prepareSuperBlock} :
       IF d.result # VDO_SUCCESS THEN answer' = d.result /\ UNCHANGED program
       ELSE IF requireReadOnly /\ d.vdo.state # "VDO_READ_ONLY_MODE"
       THEN answer' = "VDO_NOT_READ_ONLY" /\ UNCHANGED program
       ELSE /\ program' = Tool(<<<<saveReconfiguredVDO([d.vdo EXCEPT !.state = newState], d.rest)>>>>,
                               VDO_SUCCESS, d.vdo.nonce)
            /\ answer' = "running"
  /\ UNCHANGED <<scenario, durable, cache, vdo, version, saves, size>>

forceVDORebuild == updateVDOSuperBlockState(TRUE, "VDO_FORCE_REBUILD")
setVDOReadOnlyMode == updateVDOSuperBlockState(FALSE, "VDO_READ_ONLY_MODE")

(* Nothing older than the current release can be upgraded: the tool writes *)
(* nothing.                                                                *)
upgradePriorVDO ==
  /\ program = NO_PROGRAM /\ May("states") /\ Use("states")
  /\ answer' = Then(loadVolumeGeometry(View(GEOMETRY_BLOCK_LOCATION)),
                 LAMBDA g :
                   IF g.result # VDO_SUCCESS THEN g.result
                   ELSE Then(decodeSuperBlock(View(g.geometry.data).fields),
                     LAMBDA s :
                       IF s.result # VDO_SUCCESS THEN s.result
                       ELSE IF s.release # CURRENT_RELEASE_VERSION_NUMBER
                       THEN "VDO_UNSUPPORTED_VERSION" ELSE VDO_SUCCESS))
  /\ UNCHANGED <<scenario, durable, cache, program, vdo, version, saves, size>>

isSuperBlock(write) ==
  /\ write.block.kind = "fields"
  /\ write.pbn # GEOMETRY_BLOCK_LOCATION

(* One write of a tool.  When it fails the tool ends, and does not sync.   *)
fileWriter ==
  /\ program.name = "tool" /\ program.todo # <<>>
  /\ \/ /\ cache' = cache \o Head(program.todo)
        /\ program' = [program EXCEPT !.todo = Tail(@)]
        /\ saves' = saves \union {w.block : w \in {x \in ToSet(Head(program.todo)) : isSuperBlock(x)}}
        /\ UNCHANGED <<answer, used>>
     \/ /\ May("errors") /\ Use("errors")
        /\ \E n \in 0 .. Len(Head(program.todo)) :
             /\ cache' = cache \o SubSeq(Head(program.todo), 1, n)
             /\ saves' = saves \union {w.block : w \in {x \in ToSet(SubSeq(Head(program.todo), 1, n)) :
                                                          isSuperBlock(x)}}
        /\ program' = NO_PROGRAM
        /\ answer' = "EIO"
  /\ UNCHANGED <<scenario, durable, vdo, version, size>>

(* layer->destroy() syncs the device; a failed format leaves by errx().    *)
freeLayer ==
  /\ program.name = "tool" /\ program.todo = <<>>
  /\ IF program.result = VDO_SUCCESS
     THEN /\ durable' = Applied(durable, cache)
          /\ cache' = <<>>
          /\ saves' = {View(loadVolumeGeometry(View(GEOMETRY_BLOCK_LOCATION)).geometry.data)}
     ELSE UNCHANGED <<durable, cache, saves>>
  /\ answer' = program.result
  /\ program' = NO_PROGRAM
  /\ UNCHANGED <<scenario, vdo, version, size, used>>
-----------------------------------------------------------------------------
(* The kernel has the device.  program.phase is what the administrator's   *)
(* operation does next, program.result what the save under way is for.     *)

Kernel(phase) == [NO_PROGRAM EXCEPT !.name = "kernel", !.phase = phase]
Online == program.name = "kernel" /\ program.phase = "online"

PartitionWrites(layout, id, block) ==
  LET p == getPartition(layout, id)
  IN [i \in 1 .. p.count |-> KernelWrite(p.offset + (i - 1), block)]

(* The load: a new VDO, and one to be rebuilt, gets a fresh slab summary;  *)
(* every VDO that is not read-only is then marked dirty.                   *)
performVDOLoad ==
  /\ program = NO_PROGRAM
  /\ \E d \in {loadVDO(TRUE, scenario.zones)} :
       IF d.result # VDO_SUCCESS
       THEN /\ answer' = d.result /\ d.result # answer
            /\ UNCHANGED <<cache, program, vdo>>
       ELSE \E super \in {View(d.vdo.offset)}, readOnly \in {d.vdo.state = "VDO_READ_ONLY_MODE"},
               fresh \in {d.vdo.state \in {"VDO_NEW", "VDO_FORCE_REBUILD"}} :
            /\ vdo' = [d.vdo EXCEPT !.readOnly = readOnly, !.expected = super \in saves,
                                    !.summary = ~readOnly]
            /\ cache' = IF fresh THEN cache \o PartitionWrites(d.vdo.layout, SLAB_SUMMARY_PARTITION,
                                        Stamped("summary", d.vdo.nonce, version[d.vdo.nonce]))
                        ELSE cache
            /\ program' = Kernel(IF readOnly THEN "online" ELSE "dirty")
            /\ answer' = VDO_SUCCESS
  /\ UNCHANGED <<scenario, durable, version, saves, size, used>>

(* The VDO writes its journal, the roots of its block map and the summary, *)
(* each with its own flushes (external).                                   *)
RunVDO ==
  /\ Online /\ ~vdo.readOnly /\ May("writes") /\ Use("writes")
  /\ \E n \in {version[vdo.nonce] + 1} :
       /\ version' = [version EXCEPT ![vdo.nonce] = n]
       /\ durable' = Applied(Applied(durable, cache),
            PartitionWrites(vdo.layout, RECOVERY_JOURNAL_PARTITION, Stamped("journal", vdo.nonce, n))
            \o PartitionWrites(vdo.layout, BLOCK_MAP_PARTITION, Stamped("root", vdo.nonce, n))
            \o PartitionWrites(vdo.layout, SLAB_SUMMARY_PARTITION, Stamped("summary", vdo.nonce, n)))
  /\ cache' = <<>>
  /\ vdo' = [vdo EXCEPT !.journal.tail = @ + 1]
  /\ UNCHANGED <<scenario, program, answer, saves, size>>

saveSuperBlockAsync_unflushed(v, saved, purpose) ==
  \E super \in {superBlockOf(v, saved)} :
    IF v.unwriteable
    THEN /\ program' = Kernel("online") /\ answer' = "VDO_READ_ONLY"
         /\ UNCHANGED <<durable, cache, saves>>
    ELSE /\ cache' = cache \o <<KernelWrite(v.offset, super)>>
         /\ saves' = saves \union {super}
         /\ program' = [Kernel("saving") EXCEPT !.result = purpose]
         /\ UNCHANGED <<durable, answer>>

(* The super block is written after a flush; another one follows it.       *)
saveSuperBlockAsync(v, saved, purpose) ==
  \E super \in {superBlockOf(v, saved)} :
    IF v.unwriteable
    THEN /\ program' = Kernel("online") /\ answer' = "VDO_READ_ONLY"
         /\ UNCHANGED <<durable, cache, saves>>
    ELSE /\ durable' = Applied(durable, cache)
         /\ cache' = <<KernelWrite(v.offset, super)>>
         /\ saves' = saves \union {super}
         /\ program' = [Kernel("saving") EXCEPT !.result = purpose]
         /\ UNCHANGED answer

saveVDOComponentsAsync(v, saved, purpose) ==
  vdo' = v /\ saveSuperBlockAsync(v, saved, purpose)

makeDirty ==
  /\ program.name = "kernel" /\ program.phase = "dirty"
  /\ saveVDOComponentsAsync([vdo EXCEPT !.state = "VDO_DIRTY"], FALSE, "load")
  /\ UNCHANGED <<scenario, version, size, used>>

Stop ==
  /\ Online
  /\ IF vdo.readOnly
     THEN program' = NO_PROGRAM /\ vdo' = NO_VDO /\ UNCHANGED <<durable, cache, saves, answer>>
     ELSE saveVDOComponentsAsync([vdo EXCEPT !.state = "VDO_CLEAN"], TRUE, "stop")
  /\ UNCHANGED <<scenario, version, size, used>>

finishVDOLayoutGrowth(v) == [v EXCEPT !.next = NO_LAYOUT]

(* useNewSlabs() and finishRegistration() after a growth.                  *)
useNewSlabs(v) ==
  [finishVDOLayoutGrowth(v) EXCEPT !.depot.slabs = v.depot.newSlabs, !.depot.newSlabs = 0]

(* The save has finished, or it has failed and the super block is never    *)
(* written again.                                                          *)
finishSuperBlockParent ==
  /\ program.name = "kernel" /\ program.phase = "saving"
  /\ \/ /\ durable' = Applied(durable, cache)
        /\ cache' = <<>>
        /\ saves' = {View(vdo.offset)}
        /\ program' = IF program.result = "stop" THEN NO_PROGRAM ELSE Kernel("online")
        /\ vdo' = CASE program.result = "stop" -> NO_VDO
                    [] program.result = "grow" -> useNewSlabs(vdo)
                    [] OTHER -> vdo
        /\ answer' = VDO_SUCCESS
        /\ UNCHANGED used
     \/ /\ May("errors") /\ Use("errors")
        /\ vdo' = finishVDOLayoutGrowth([vdo EXCEPT !.unwriteable = TRUE, !.readOnly = TRUE])
        /\ program' = Kernel("online")
        /\ answer' = "EIO"
        /\ UNCHANGED <<durable, cache, saves>>
  /\ UNCHANGED <<scenario, version, size>>
-----------------------------------------------------------------------------
(* Physical growth of a VDO (its device has grown before).                 *)

ExpandDevice ==
  /\ size < scenario.maximum
  /\ size' = scenario.maximum
  /\ UNCHANGED <<scenario, durable, cache, program, vdo, answer, version, saves, used>>

getPartitionSize(layout, id) == getPartition(layout, id).count

getNextVDOLayoutSize(v) == IF v.next = NO_LAYOUT THEN 0 ELSE getVDOSize(v.next, v.start)

getNextBlockAllocatorPartitionSize(v) ==
  IF v.next = NO_LAYOUT THEN 0 ELSE getPartitionSize(v.next, BLOCK_ALLOCATOR_PARTITION)

NextLayout(v, blocks) ==
  makeVDOFixedLayout(blocks, v.start, getPartitionSize(v.layout, BLOCK_MAP_PARTITION),
                     getPartitionSize(v.layout, RECOVERY_JOURNAL_PARTITION),
                     getPartitionSize(v.layout, SLAB_SUMMARY_PARTITION))

Prepared(result, v) == [result |-> result, vdo |-> v]

(* The moved partitions must lie in the blocks that were added.            *)
prepareToGrowVDOLayout(v, blocks) ==
  IF getNextVDOLayoutSize(v) = blocks THEN Prepared(VDO_SUCCESS, v)
  ELSE Then(NextLayout(v, blocks),
         LAMBDA l :
           IF l.result # VDO_SUCCESS THEN Prepared(l.result, [v EXCEPT !.next = NO_LAYOUT])
           ELSE IF v.config.physicalBlocks + getPartitionSize(l, SLAB_SUMMARY_PARTITION)
                   + getPartitionSize(l, RECOVERY_JOURNAL_PARTITION) > blocks
           THEN Prepared("VDO_INCREMENT_TOO_SMALL", [v EXCEPT !.next = NO_LAYOUT])
           ELSE Prepared(VDO_SUCCESS, [v EXCEPT !.next = l]))

prepareToGrowSlabDepot(v, newSize) ==
  LET state == configureState(newSize, v.depot.first, v.depot.config, v.depot.zones)
      slabs == computeSlabCount(v.depot.first, state.last, v.depot.config[1])
  IN IF newSize \div v.depot.config[1] <= v.depot.slabs
     THEN Prepared("VDO_INCREMENT_TOO_SMALL", finishVDOLayoutGrowth(v))
     ELSE IF state.result # VDO_SUCCESS THEN Prepared(state.result, finishVDOLayoutGrowth(v))
     ELSE IF slabs = v.depot.newSlabs THEN Prepared(VDO_SUCCESS, v)
     ELSE Prepared(VDO_SUCCESS, [v EXCEPT !.depot.newSize = newSize, !.depot.newLast = state.last,
                                          !.depot.newSlabs = slabs])

abandonNewSlabs(v) == [v EXCEPT !.depot.newSlabs = 0, !.depot.newSize = 0]

prepareToGrowPhysical(blocks) ==
  /\ Online /\ blocks <= size /\ May("grows") /\ Use("grows")
  /\ \E done \in
       {IF blocks < vdo.config.physicalBlocks THEN Prepared("VDO_NOT_IMPLEMENTED", vdo)
        ELSE IF blocks = vdo.config.physicalBlocks
        THEN Prepared("VDO_PARAMETER_MISMATCH", abandonNewSlabs(finishVDOLayoutGrowth(vdo)))
        ELSE IF vdo.readOnly THEN Prepared("VDO_READ_ONLY", vdo)
        ELSE Then(prepareToGrowVDOLayout(vdo, blocks),
               LAMBDA p : IF p.result # VDO_SUCCESS THEN p
                          ELSE prepareToGrowSlabDepot(p.vdo, getNextBlockAllocatorPartitionSize(p.vdo)))} :
       vdo' = done.vdo /\ answer' = done.result
  /\ UNCHANGED <<scenario, durable, cache, program, version, saves, size>>

validatePartitionCopy(source, target) ==
  /\ source.count <= target.count
  /\ \/ source.offset + source.count <= target.offset
     \/ target.offset + target.count <= source.offset

(* The VDO is suspended: it writes nothing until the growth has ended.     *)
performGrowPhysical(blocks) ==
  /\ Online /\ blocks <= size /\ vdo.next # NO_LAYOUT
  /\ blocks # vdo.config.physicalBlocks
  /\ IF blocks # getNextVDOLayoutSize(vdo)
     THEN /\ vdo' = abandonNewSlabs(finishVDOLayoutGrowth(vdo))
          /\ answer' = "VDO_PARAMETER_MISMATCH" /\ UNCHANGED program
     ELSE IF getNextBlockAllocatorPartitionSize(vdo) # vdo.depot.newSize
     THEN /\ answer # "VDO_PARAMETER_MISMATCH"
          /\ answer' = "VDO_PARAMETER_MISMATCH" /\ UNCHANGED <<program, vdo>>
     ELSE IF vdo.readOnly
     THEN /\ answer' = "VDO_READ_ONLY" /\ vdo' = finishVDOLayoutGrowth(vdo) /\ UNCHANGED program
     ELSE /\ program' = [Kernel("copy") EXCEPT !.nonce = RECOVERY_JOURNAL_PARTITION]
          /\ answer' = "running" /\ UNCHANGED vdo
  /\ UNCHANGED <<scenario, durable, cache, version, saves, size, used>>

getStrideSize(index, ending) == IF ending - index < scenario.stride THEN ending - index ELSE scenario.stride

handleGrowthError(result) ==
  /\ program' = Kernel("readonly")
  /\ vdo' = finishVDOLayoutGrowth([vdo EXCEPT !.readOnly = TRUE])
  /\ answer' = result

(* A stride is read from the old partition and written to the new one.     *)
(* program.nonce is the partition being copied.                            *)
copyPartitionStride ==
  /\ program.name = "kernel" /\ program.phase = "copy"
  /\ \E source \in {getPartition(vdo.layout, program.nonce)},
        target \in {getPartition(vdo.next, program.nonce)} :
     \E n \in {getStrideSize(program.index, source.count)} :
       IF ~validatePartitionCopy(source, target)
       THEN handleGrowthError("UDS_ASSERTION_FAILED") /\ UNCHANGED <<cache, used>>
       ELSE
       \/ /\ cache' = cache \o [i \in 1 .. n |->
                        KernelWrite(translateToPBN(target, program.index + i - 1),
                                    View(translateToPBN(source, program.index + i - 1)))]
          /\ program' = IF program.index + n < source.count
                        THEN [program EXCEPT !.index = @ + n]
                        ELSE IF program.nonce = RECOVERY_JOURNAL_PARTITION
                        THEN [program EXCEPT !.index = 0, !.nonce = SLAB_SUMMARY_PARTITION]
                        ELSE Kernel("update")
          /\ UNCHANGED <<vdo, answer, used>>
       \/ /\ May("errors") /\ Use("errors")
          /\ handleGrowthError("EIO")
          /\ UNCHANGED cache
  /\ UNCHANGED <<scenario, durable, version, saves, size>>

growVDOLayout(v) ==
  [v EXCEPT !.layout = v.next, !.next = NO_LAYOUT,
            !.config.physicalBlocks = getVDOSize(v.next, v.start)]

updateSlabDepotSize(v) == [v EXCEPT !.depot.last = v.depot.newLast]

updateComponents ==
  /\ program.name = "kernel" /\ program.phase = "update"
  /\ saveVDOComponentsAsync(updateSlabDepotSize(growVDOLayout(vdo)), FALSE, "grow")
  /\ UNCHANGED <<scenario, version, size, used>>

(* The VDO has become read-only and records it.                            *)
makeReadOnly ==
  /\ program.name = "kernel" /\ program.phase = "readonly"
  /\ saveVDOComponentsAsync([vdo EXCEPT !.state = "VDO_READ_ONLY_MODE"], FALSE, "readonly")
  /\ UNCHANGED <<scenario, version, size, used>>

(* A crash keeps any of the writes since the last flush; none is passed to *)
(* the device before a tool's earlier one if the scenario says so.         *)
Crash ==
  /\ May("crashes") /\ Use("crashes")
  /\ program # NO_PROGRAM \/ cache # <<>>
  /\ \E kept \in SUBSET (DOMAIN cache) :
       /\ scenario.ordered => \A i \in kept : \A j \in 1 .. i - 1 :
                                cache[j].tool => j \in kept
       /\ durable' = Applied(durable, [i \in DOMAIN cache |->
                       IF i \in kept THEN cache[i] ELSE Write(OUT_OF_RANGE, ZERO)])
  /\ cache' = <<>>
  /\ program' = NO_PROGRAM
  /\ vdo' = NO_VDO
  /\ answer' = "none"
  /\ UNCHANGED <<scenario, version, saves, size>>
-----------------------------------------------------------------------------
Init ==
  /\ scenario \in Scenarios
  /\ durable = [pbn \in 0 .. scenario.maximum - 1 |-> Stamped("junk", 0, 0)]
  /\ cache = <<>>
  /\ program = NO_PROGRAM
  /\ vdo = NO_VDO
  /\ answer = "none"
  /\ version = [nonce \in 0 .. 3 |-> 0]
  /\ saves = {}
  /\ size = scenario.size
  /\ used = [what \in DOMAIN scenario.limits |-> 0]

Next ==
  \/ \E config \in scenario.configs, force \in BOOLEAN : vdoformat(config, force)
  \/ forceVDORebuild
  \/ setVDOReadOnlyMode
  \/ upgradePriorVDO
  \/ fileWriter
  \/ freeLayer
  \/ performVDOLoad
  \/ RunVDO
  \/ makeDirty
  \/ Stop
  \/ finishSuperBlockParent
  \/ ExpandDevice
  \/ \E blocks \in scenario.grows : prepareToGrowPhysical(blocks)
  \/ \E blocks \in scenario.grows : performGrowPhysical(blocks)
  \/ copyPartitionStride
  \/ updateComponents
  \/ makeReadOnly
  \/ Crash

Spec == Init /\ [][Next]_vars
-----------------------------------------------------------------------------
Blocks(partition) == partition.offset .. partition.offset + partition.count - 1

(* The partitions of a VDO the kernel has do not overlap, they fill the    *)
(* space from behind the super block to the configured size, the slabs of  *)
(* the depot lie in the block allocator's partition and the roots of the   *)
(* block map in theirs, no slab is lost but a last, incomplete one, and a  *)
(* block number taken to a partition and back is the same: what            *)
(* makeVDOFixedLayout(), configureState() and the growth leave.  The super *)
(* block that would be saved decodes to the VDO it was made from.          *)
LayoutIsSound ==
  program.name = "kernel" =>
    /\ \A i, j \in DOMAIN vdo.layout.head :
         i # j => Blocks(vdo.layout.head[i]) \cap Blocks(vdo.layout.head[j]) = {}
    /\ UNION {Blocks(p) : p \in ToSet(vdo.layout.head)}
         = vdo.offset + 1 .. vdo.config.physicalBlocks - 1
    /\ vdo.config.physicalBlocks <= size
    /\ \A p \in {getPartition(vdo.layout, BLOCK_ALLOCATOR_PARTITION)} :
         /\ vdo.depot.first = p.offset
         /\ vdo.depot.last <= p.offset + p.count
         /\ p.offset + p.count - vdo.depot.last < vdo.config.slabSize
    /\ vdo.map.rootOrigin .. vdo.map.rootOrigin + vdo.map.rootCount - 1
         = Blocks(getPartition(vdo.layout, BLOCK_MAP_PARTITION))
    /\ \A p \in ToSet(vdo.layout.head) : \A pbn \in Blocks(p) :
         translateToPBN(p, translateFromPBN(p, pbn)) = pbn
    /\ \A c \in {encodeVDO(vdo, FALSE)} :
       \A d \in {decodeVDOComponent(Skip(c, VERSION))} :
       \A l \in {decodeVDOLayout(d.rest)} :
       \A f \in {finishVDODecode([d EXCEPT !.rest = l.rest], vdo.depot.zones)} :
         /\ contentLength(c) <= MAX_COMPONENT_DATA
         /\ <<d.vdo.state, d.vdo.config, d.vdo.nonce>> = <<vdo.state, vdo.config, vdo.nonce>>
         /\ Reverse(l.layout.head) = vdo.layout.head
         /\ <<f.result, f.rest>> = <<VDO_SUCCESS, <<>> >>
         /\ <<f.vdo.depot.first, f.vdo.depot.last, f.vdo.depot.oldZones>>
              = <<vdo.depot.first, vdo.depot.last, vdo.depot.zones>>

\* The partition has version n of the VDO's blocks; for 0, none of its blocks.
Holds(id, kind, n) ==
  \A pbn \in Blocks(getPartition(vdo.layout, id)) :
    IF n = 0 THEN View(pbn).nonce # vdo.nonce ELSE View(pbn) = Stamped(kind, vdo.nonce, n)

(* Whatever was interrupted before, a VDO that loads has the super block   *)
(* that was saved last, or one whose save a crash or an error interrupted, *)
(* and it finds in its journal, in the roots of its block map and in its   *)
(* slab summary exactly what it last wrote there, or no block with its own *)
(* nonce when it has written none: formatVDOWithNonce() clears the         *)
(* geometry before and writes it after everything else, and a growth       *)
(* copies before saveSuperBlockAsync() flushes and commits the new layout. *)
LoadedIsWhole ==
  program.name = "kernel" =>
    /\ vdo.expected
    /\ \A n \in {version[vdo.nonce]} :
         /\ Holds(RECOVERY_JOURNAL_PARTITION, "journal", n)
         /\ Holds(BLOCK_MAP_PARTITION, "root", n)
         /\ vdo.summary => \A pbn \in Blocks(getPartition(vdo.layout, SLAB_SUMMARY_PARTITION)) :
                            View(pbn) = Stamped("summary", vdo.nonce, n)
=============================================================================
