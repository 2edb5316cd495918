------------------------------ MODULE MCStorage ------------------------------
(***************************************************************************)
(* The storage of the deduplication index for TLC, in two parts which      *)
(* share no state: the regions, readers and writers through which          *)
(* everything is stored (UdsIO), and the layout of the index file with its *)
(* save slots (SingleFileLayout).  A behaviour is one of one part; the     *)
(* variables of the other are Unused.                                      *)
(***************************************************************************)
EXTENDS UdsIO, TLC

CONSTANT LayoutScenarios

VARIABLES part, disk, cache, sfl, ris, job, clock, crashes, saves, loaded

file == INSTANCE SingleFileLayout WITH
  Scenarios <- LayoutScenarios, DEFAULT_BLOCK_SIZE <- 2, MAX_SAVES <- 5

-----------------------------------------------------------------------------
(* Regions and what is done with them.                                     *)
Base == [kind |-> "block", blockSize |-> 2, bestSize |-> 4, start |-> 4, end |-> 12,
         reading |-> TRUE, writing |-> TRUE, fileSize |-> 16, create |-> FALSE, clears |-> FALSE,
         writerSize |-> 0, streamSize |-> 0, faults |-> FALSE, lengths |-> {}, positions |-> {},
         verifies |-> {}, verifyAnywhere |-> FALSE, items |-> {}]

\* A part of a file, written through a buffer of two blocks, with faults.
Written1 == [Base EXCEPT !.streamSize = 9, !.faults = TRUE, !.lengths = {1, 3, 5},
                         !.clears = TRUE]
\* The same on a new file, with a buffer of one block.
Created == [Written1 EXCEPT !.create = TRUE, !.writerSize = 2, !.clears = FALSE]
\* A whole file, which grows.
WholeFile == [Written1 EXCEPT !.kind = "file", !.start = 0, !.end = 16, !.fileSize = 6]
\* In memory; the buffer grows.
InMemory == [Written1 EXCEPT !.kind = "buffered", !.start = 0, !.faults = FALSE]
\* Read and seek; nothing is ever read past the buffer, so that going back is allowed.
Reads == [Base EXCEPT !.lengths = {1, 2, 3, 5, 8}, !.verifies = {1, 2}]
\* A file cut short, at the end of a buffer.
ShortFile == [Reads EXCEPT !.fileSize = 8]
OddFile == [Reads EXCEPT !.kind = "file", !.start = 0, !.end = 16, !.fileSize = 11]
Seeks == [Base EXCEPT !.lengths = {1, 3}, !.positions = {0, 1, 3, 4, 6, 8, 9}]
Refused == [Base EXCEPT !.start = 5]
ReadOnly == [Base EXCEPT !.writing = FALSE, !.streamSize = 6, !.lengths = {1, 5}]

\* Values of every width and order, in a buffer that holds a few of them.
Queue == [Base EXCEPT !.kind = "memory", !.bestSize = 7,
                      !.items = {Item(UInt16BE, <<1, 14>>), Item(UInt16LE, <<7>>),
                                 Item(Int32LE, <<-2>>), Item(UInt32BE, <<29>>),
                                 Item(UInt32LE, <<230>>)}]
LongQueue == [Queue EXCEPT !.bestSize = 10,
                           !.items = {Item(UInt64BE, <<4000>>), Item(Int64LE, <<-5>>),
                                      Item(UInt64LE, <<300>>), Item(Boolean, <<0, 1, 0>>)}]

MCScenarios == {Written1, Created, WholeFile, InMemory, Reads, ShortFile, OddFile, Seeks,
                Refused, ReadOnly, Queue, LongQueue}

-----------------------------------------------------------------------------
(* Index files and what is done with them.                                 *)
Config == [bytesPerPage |-> 4, bytesPerVolume |-> 4, masterIndexBytes |-> 6,
           pageMapBytes |-> 1, openChapterBytes |-> 2]

LayoutBase == [config |-> Config, deviceBlockSize |-> 1, offset |-> 2, size |-> 34,
         limit |-> 36, deviceBlocks |-> 18, zones |-> {2}, faults |-> 1,
         ops |-> {"save", "checkpoint", "incremental"}, times |-> 4, commitFails |-> FALSE]

(* One save of any kind, by one zone or two, and one fault.                *)
Mixed == [LayoutBase EXCEPT !.zones = {1, 2}, !.times = 3]
(* The third save reuses a slot, with a crash or a failed write.           *)
Saves == [LayoutBase EXCEPT !.ops = {"save"}, !.times = 5]
(* A save after a checkpoint, or before it.                                *)
Alternate == [LayoutBase EXCEPT !.ops = {"save", "incremental"}, !.zones = {1}]
(* Two faults: failed writes, even of a header at the end, and crashes.    *)
Faulty == [LayoutBase EXCEPT !.ops = {"save"}, !.faults = 2, !.zones = {1},
                       !.commitFails = TRUE]
(* A device whose blocks are larger than the layout's.                     *)
LargeBlocks == [LayoutBase EXCEPT !.deviceBlockSize = 4, !.offset = 0, !.size = 56,
                            !.limit = 56, !.ops = {"checkpoint"}]
(* Arguments that cannot be used.                                          *)
Tiny == [LayoutBase EXCEPT !.size = 20, !.limit = 22]
Misaligned == [LayoutBase EXCEPT !.offset = 1]
(* A header that cannot be written when a save is committed.               *)
LateFailure == [Faulty EXCEPT !.times = 5]
(* A device with room for every save a layout can be given.                *)
Roomy == [LayoutBase EXCEPT !.size = 34 + 36, !.limit = 72, !.deviceBlocks = 36]

LateFailures == {LateFailure}

MCLayoutScenarios == {Mixed, Saves, Alternate, Faulty, LargeBlocks, Tiny, Misaligned}

-----------------------------------------------------------------------------
Unused == "unused"

Streaming == part = "streams"
Laying == part = "layout"

streamOnly == <<phase, region, writer, reader, answer, image, place, last, buffer, items>>
layoutOnly == <<disk, cache, sfl, ris, job, clock, crashes, saves, loaded>>
allVars == <<part, vars, layoutOnly>>

StorageInit ==
  \/ /\ part = "streams" /\ Init
     /\ disk = Unused /\ cache = Unused /\ sfl = Unused /\ ris = Unused /\ job = Unused
     /\ clock = Unused /\ crashes = Unused /\ saves = Unused /\ loaded = Unused
  \/ /\ part = "layout" /\ file!Init
     /\ phase = Unused /\ region = Unused /\ writer = Unused /\ reader = Unused
     /\ answer = Unused /\ image = Unused /\ place = Unused /\ last = Unused
     /\ buffer = Unused /\ items = Unused

StorageNext ==
  \/ Streaming /\ Next /\ UNCHANGED <<part, layoutOnly>>
  \/ Laying /\ file!Next /\ UNCHANGED <<part, streamOnly>>

StorageSpec == StorageInit /\ [][StorageNext]_allVars

-----------------------------------------------------------------------------

\* The regions of the index file fit in it without overlapping, a save that was
\* committed is whole, the latest one is kept until a later one is committed,
\* and a load takes it, whenever the program stopped (SingleFileLayout).
LatestSaveIsFound ==
  Laying => /\ file!LayoutIsConsistent /\ file!SavedDataIsIntact
            /\ file!LatestSaveIsKept /\ file!LoadedStateIsTheLatest
=============================================================================
