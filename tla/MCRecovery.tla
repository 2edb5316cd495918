------------------------------ MODULE MCRecovery ------------------------------
(***************************************************************************)
(* What a VDO finds on its device when it comes up, for TLC, in two parts: *)
(* the recovery and the rebuild of its data (VDORecovery), and the         *)
(* geometry, the super block and the partitions, from vdoformat through    *)
(* loads and growth (VDOLayout).  A behaviour is one of one part; the      *)
(* variables which only the other has are Unused.                          *)
(***************************************************************************)
EXTENDS MCVDORecovery

CONSTANT LayoutScenarios

VARIABLES part, durable, cache, program, answer, version, saves, size, used

device == INSTANCE VDOLayout WITH Scenarios <- LayoutScenarios

(* Small devices: one block of index, one root, a journal of two blocks,   *)
(* one block of summary and slabs of eight blocks.                         *)
Config(journal, slabSize) ==
  [logicalBlocks |-> 0, physicalBlocks |-> 0, slabSize |-> slabSize,
   recoveryJournalSize |-> journal, slabJournalBlocks |-> 2]

Limits(formats, states, writes, grows, crashes, errors) ==
  [formats |-> formats, states |-> states, writes |-> writes, grows |-> grows,
   crashes |-> crashes, errors |-> errors]

Device(blocks, maximum, limits) ==
  [size |-> blocks, maximum |-> maximum, limits |-> limits, configs |-> {Config(2, 8)},
   grows |-> {}, indexBlocks |-> 1, roots |-> 1, summary |-> 1, forest |-> 1, zones |-> 2,
   stride |-> 1, ordered |-> TRUE]

\* A format of a blank device, with crashes and failing writes.
Fresh == [Device(15, 15, Limits(1, 2, 1, 0, 1, 1)) EXCEPT !.ordered = FALSE]

\* A VDO is formatted over another one, with other sizes.
Again == [Device(23, 23, Limits(2, 0, 2, 0, 1, 1)) EXCEPT !.configs = {Config(2, 8), Config(4, 8)}]

\* Growth: 16 and 17 are too little, 23 is one more slab, 26 a little more.
Grow == [Device(15, 26, Limits(1, 0, 1, 2, 1, 1)) EXCEPT !.grows = {17, 23, 26}]

\* A layout, a slab or a journal that does not fit.
Unfit == [Device(14, 14, Limits(2, 0, 1, 0, 1, 0)) EXCEPT
            !.configs = {Config(2, 8), Config(2, 4), Config(3, 8), Config(2, 2), Config(16, 4)}]

MCLayoutScenarios == {Fresh, Again, Grow, Unfit}

-----------------------------------------------------------------------------
Unused == "unused"

Recovering == part = "recovery"
Laying == part = "layout"

layoutOnly == <<durable, cache, program, answer, version, saves, size, used>>
allVars == <<part, vars, layoutOnly>>

DeviceInit ==
  \/ /\ part = "recovery" /\ Init
     /\ durable = Unused /\ cache = Unused /\ program = Unused /\ answer = Unused
     /\ version = Unused /\ saves = Unused /\ size = Unused /\ used = Unused
  \/ part = "layout" /\ device!Init

InRecovery(A) == Recovering /\ A /\ UNCHANGED <<part, layoutOnly>>

DeviceNext ==
  \/ InRecovery(Next)
  \/ Laying /\ device!Next /\ UNCHANGED part
  \/ Laying /\ UNCHANGED allVars \* there may be nothing to do

DeviceSpec ==
  /\ DeviceInit /\ [][DeviceNext]_allVars
  /\ \/ []<>(Recovering => vdo.phase \in {"online", "aborted"})
     \/ []<><<InRecovery(RecoveryStep)>>_allVars

-----------------------------------------------------------------------------
\* After a recovery or a rebuild every acknowledged write is found, every
\* block has the references the block map has to it, and the counts of used
\* blocks are right (VDORecovery's WritesSurvive, ReferencesAreExact,
\* UsageIsExact).
RecoveryIsExact == Recovering => WritesSurvive /\ ReferencesAreExact /\ UsageIsExact

\* A VDO that the kernel loads is the one that was formatted or saved last,
\* with its partitions where its layout says and its metadata in them,
\* wherever a format, a growth or a save was interrupted (VDOLayout's
\* LayoutIsSound, LoadedIsWhole).
VolumeIsSound == Laying => device!LayoutIsSound /\ device!LoadedIsWhole

\* Every VDO that went down comes online again, or aborts its recovery because
\* of damaged or unreadable metadata (VDORecovery's Recovered).
EveryCrashIsRecovered == []<>(Recovering => Recovered)
=============================================================================
