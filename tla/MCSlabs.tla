------------------------------- MODULE MCSlabs -------------------------------
(***************************************************************************)
(* Slabs for TLC, in two parts which share no state: the inside of one     *)
(* slab, with its journal, reference counts and summary entry (Slab), and  *)
(* the depot of all of them, with its allocators and scrubbers             *)
(* (SlabDepot).  A behaviour is one of one part; the variables of the      *)
(* other are Unused.                                                       *)
(***************************************************************************)
EXTENDS MCSlabDepot

CONSTANT SlabScenarios

VARIABLES part, journal, refCounts, summary, slab, storage, recovery, crashes

inside == INSTANCE Slab WITH
  Size <- 5, FlushingThreshold <- 1, FlushingDeadline <- 2, BlockingThreshold <- 2,
  ScrubbingThreshold <- 3, MaxVIOs <- 2, Scenarios <- SlabScenarios

ASSUME inside!SlabAssumption /\ SlabDepotAssumption

\* In async mode with one reference block, past the blocking threshold.
SlabBase == [refBlocks |-> 1, sectors |-> 1, entriesPerBlock |-> 2, fullEntriesPerBlock |-> 2,
         flushRequired |-> TRUE, entryKinds |-> {FALSE}, adminOperations |-> {},
         drainWhileWriting |-> FALSE, maxEntries |-> 5, maxCrashes |-> 0]

MCSlabScenarios ==
  {\* a crash at any moment, recovery and scrubbing
   [SlabBase EXCEPT !.maxEntries = 4, !.maxCrashes = 1],
   \* reference blocks of two sectors, of which a crash may leave any old
   [SlabBase EXCEPT !.sectors = 2, !.maxEntries = 3],
   \* block map increments, which make a journal block hold fewer entries
   [SlabBase EXCEPT !.refBlocks = 2, !.entryKinds = {FALSE, TRUE},
                !.fullEntriesPerBlock = 1, !.maxEntries = 2],
   \* the sync write policy, where completed writes are stable
   [SlabBase EXCEPT !.refBlocks = 2, !.flushRequired = FALSE, !.maxEntries = 3],
   \* suspends and saves, which start while no reference block is being written
   [SlabBase EXCEPT !.refBlocks = 2, !.adminOperations = {"SUSPENDING", "SAVING"},
                !.maxEntries = 3]}

-----------------------------------------------------------------------------
Unused == "unused"

InSlab(A) == part = "slab" /\ A /\ UNCHANGED <<part, depot>>
slabOnly == <<journal, refCounts, summary, slab, storage, recovery, crashes>>
InDepot(A) == part = "depot" /\ A /\ UNCHANGED <<part, slabOnly>>
allVars == <<part, vars, slabOnly>>

SlabsInit ==
  \/ part = "slab" /\ inside!Init /\ depot = Unused
  \/ /\ part = "depot" /\ Init
     /\ journal = Unused /\ refCounts = Unused /\ summary = Unused /\ slab = Unused
     /\ storage = Unused /\ recovery = Unused /\ crashes = Unused

SlabsNext == InSlab(inside!Next) \/ InDepot(Next)

\* The fairness of the two modules.
SlabsFairness ==
  /\ WF_allVars(InSlab(inside!Progress))
  /\ []<>~(part = "depot" /\ MayLoad) \/ []<><<InDepot(LoadStep)>>_allVars
  /\ \A z \in Zones :
       []<>~(part = "depot" /\ MayZone(z)) \/ []<><<InDepot(ZoneStep(z))>>_allVars
  /\ \A s \in Slabs :
       []<>~(part = "depot" /\ MayDrain(s)) \/ []<><<InDepot(SlabDrained(s))>>_allVars
  /\ \A v \in VIOs :
       []<>~(part = "depot" /\ MayVIO(v)) \/ []<><<InDepot(VIOProgress(v))>>_allVars

SlabsSpec == SlabsInit /\ [][SlabsNext]_allVars /\ SlabsFairness

-----------------------------------------------------------------------------
\* A crash loses no reference count update and repeats none (Slab's
\* CrashLosesNoUpdate).
UpdatesSurvive == part = "slab" => inside!TypeOK /\ inside!CrashLosesNoUpdate

\* What a finished save left on storage is what is in memory (Slab's
\* SaveIsComplete).
SavedSlabIsWhole == part = "slab" => inside!SaveIsComplete

\* Blocks are counted exactly (SlabDepot's AccountingIsExact), and a slab's
\* summary entry survives loads with other numbers of zones (SummaryIsCurrent).
DepotIsExact == part = "depot" => AccountingIsExact /\ SummaryIsCurrent

\* Every slab is where it will be found when it is needed (SlabsAreFound), and
\* what the depot reports of space and scrubbing is true (ReportsAreTrue).
DepotIsTrue == part = "depot" => SlabsAreFound /\ ReportsAreTrue

\* A VIO that waits to make its slab journal entry gets to make it, whatever
\* it waits for: a partial write, the blocking threshold, the tail block,
\* scrubbing (addEntries).  A slab that was drained is left out: nothing reaps
\* the locks released during the drain when it is resumed (resumeSlab).  A
\* drain of the slab, for the depot or for the scrubber, finishes, and so does
\* everything the depot does (SlabDepot's AtRest).
SlabsProceed ==
  /\ []<>(part = "slab" => journal.entryWaiters = <<>> \/ inside!AdminOperations # {})
  /\ []<>(part = "slab" => ~inside!IsSlabDraining(inside!Zone))
  /\ []<>(part = "depot" => AtRest)
=============================================================================
