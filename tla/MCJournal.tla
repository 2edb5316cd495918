------------------------------ MODULE MCJournal ------------------------------
(***************************************************************************)
(* The recovery journal for TLC, in two parts which share no state: the    *)
(* journal with its blocks, waiters and heads (RecoveryJournal), where the *)
(* locks on its blocks are counts, and the lock counter with the threads   *)
(* which acquire and release the locks (LockCounter).  A behaviour is one  *)
(* of one part; the variables of the other are Unused.                     *)
(***************************************************************************)
EXTENDS RecoveryJournal, TLC

CONSTANTS v1, v2, l1, l2, f1

VARIABLES part, journalCounters, journalDecrementCounts, zoneCounts, zoneCounters,
          entryCount, open, jpc, zpc, pageLock, slabLock, pageZone, pageEntries, slabEntries

\* Two pages, of two logical zones or of the same one, one physical zone with
\* a slab journal block, two DataVIOs, and a journal of two blocks.
counter == INSTANCE LockCounter WITH
  LogicalZones <- {l1, l2}, PhysicalZones <- {f1}, Pages <- {1, 2}, SlabBlocks <- {1},
  PageZones <- {1 :> l1 @@ 2 :> l2, 1 :> l1 @@ 2 :> l1}, SlabZone <- 1 :> f1,
  BlockZone <- [v \in {v1, v2} |-> [o \in {"increment", "decrement"} |-> f1]],
  Size <- 2, EntriesPerBlock <- 2, MaxSequence <- 3

ASSUME counter!LockCounterConstants

Scenario(writers, entries, flush, errors, operations, sequence) ==
  [writers |-> writers, entriesPerBlock |-> entries, flushRequired |-> flush,
   errors |-> errors, adminOperations |-> operations,
   maxSequence |-> sequence]

\* Blocks which are written again while they fill, with writes that fail; a
\* journal of one-entry blocks that wraps around; drains with flushes that
\* fail, and without flushes.
MCScenarios ==
  {Scenario({v1, v2}, 2, TRUE, {"write"}, {}, 2),
   Scenario({v1, v2}, 1, TRUE, {}, {}, 4),
   Scenario({v1}, 1, TRUE, {"write", "flush"}, {"suspending"}, 2),
   Scenario({v1}, 1, FALSE, {"other"}, {"suspending"}, 4)}

-----------------------------------------------------------------------------
Unused == "unused"

Journaling == part = "recovery journal"
Counting == part = "lock counter"

counterOnly == <<journalCounters, journalDecrementCounts, zoneCounts, zoneCounters,
                 entryCount, open, jpc, zpc, pageLock, slabLock, pageZone, pageEntries,
                 slabEntries>>
journalOnly == <<queueVars, blocks, activeBlock, head, availableSpace,
                 pendingDecrementCount, commitPoint, reaping, modeVars, journalLocks,
                 zoneLocks, calls, written, recordedHead, scenario>>
allVars == <<part, vars, counterOnly>>

JournalInit ==
  \/ /\ part = "recovery journal" /\ Init
     /\ journalCounters = Unused /\ journalDecrementCounts = Unused /\ zoneCounts = Unused
     /\ zoneCounters = Unused /\ entryCount = Unused /\ open = Unused /\ jpc = Unused
     /\ zpc = Unused /\ pageLock = Unused /\ slabLock = Unused /\ pageZone = Unused
     /\ pageEntries = Unused /\ slabEntries = Unused
  \/ /\ part = "lock counter" /\ counter!Init
     /\ incrementWaiters = Unused /\ decrementWaiters = Unused /\ blocks = Unused
     /\ activeBlock = Unused /\ head = Unused /\ availableSpace = Unused
     /\ pendingDecrementCount = Unused /\ commitPoint = Unused /\ reaping = Unused
     /\ state = Unused /\ readOnly = Unused /\ notified = Unused /\ journalLocks = Unused
     /\ zoneLocks = Unused /\ calls = Unused /\ written = Unused /\ recordedHead = Unused
     /\ scenario = Unused

InJournal(A) == Journaling /\ A /\ UNCHANGED <<part, counterOnly>>
InCounter(A) == Counting /\ A /\ UNCHANGED <<part, journalOnly>>

JournalNext == InJournal(Next) \/ InCounter(counter!Next)

\* The fairness of the two modules.
JournalFairness ==
  /\ WF_allVars(InJournal(JournalStep))
  /\ \A v \in DataVIOs :
       WF_allVars(InJournal(AddDecrement(v) \/ MakeSlabJournalEntry(v) \/ UpdateBlockMap(v)))
  /\ \A t \in HeadTypes, l \in Locks : WF_allVars(InJournal(ReleaseZoneLock(t, l)))
  /\ WF_allVars(InCounter(counter!Due))

JournalSpec == JournalInit /\ [][JournalNext]_allVars /\ JournalFairness

-----------------------------------------------------------------------------
\* DataVIOs are released in the order of their entries, and only when all the
\* entries up to theirs are on storage, in whatever order the writes of the
\* blocks complete; and no write overwrites the head that a recovery would
\* find (RecoveryJournal's ReleasedInOrder and NeverOverwriteHead).
EntriesAreInOrder == Journaling => TypeOK /\ ReleasedInOrder /\ NeverOverwriteHead

\* No journal block is reaped whose entries a page or a slab journal block that
\* is not on storage still needs (LockCounter's NothingNeededIsReaped, and the
\* inductive invariant of its proof).
NothingNeededIsReaped ==
  Counting => counter!LockCounterInv /\ counter!NothingNeededIsReaped

\* The counters of the journal and of the zones are exactly the locks which
\* are held (LockCounter's LocksAreExact), between acquire, release and
\* notification on different threads.
LocksAreExact == Counting => counter!LocksAreExact

\* Nobody waits in the journal for ever, a drain finishes whatever fails, and
\* every block is reaped in the end: the last write in flight always writes
\* the partial block behind it, reaping makes room, read-only mode releases
\* everybody, and no release is lost although per-entry locks are released
\* without a notification and a notification may find another in flight.
JournalProceeds ==
  /\ \A v \in DataVIOs : []<>(Journaling => vio[v].state # "journal")
  /\ []<>(Journaling => ~isDraining)
  /\ []<>(Counting => counter!AllReaped)
=============================================================================
