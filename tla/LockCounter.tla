---------------------------- MODULE LockCounter ----------------------------
(***************************************************************************)
(* The lock counter of the recovery journal (lockCounter.c) and the three  *)
(* kinds of threads that use it.  A journal block is locked by the journal *)
(* zone (one lock per entry and one for the block being open), by logical  *)
(* zones (block map pages dirtied by its entries) and by physical zones    *)
(* (slab journal blocks holding its entries).  Only the journal thread may *)
(* find a block unlocked and advance a reap head over it; it reads three   *)
(* separate words to do so while the other threads keep changing them.     *)
(*                                                                         *)
(* Every atomic instruction of the C code is one step here.  Counters that *)
(* only one thread touches change together with that thread's next atomic. *)
(***************************************************************************)
EXTENDS Integers, FiniteSets

CONSTANTS
  LogicalZones, PhysicalZones,
  Pages,            \* block map pages that can be dirty
  SlabBlocks,       \* slab journal blocks that can be open or committing
  PageZones,        \* assignments of the pages to logical zones
  SlabZone,         \* the physical zone of each slab journal block
  DataVIOs,
  BlockZone,        \* physical zone of the block each DataVIO in- or decrements
  Size,             \* blocks of the on-disk journal (= locks of the counter)
  EntriesPerBlock,
  MaxSequence       \* bound: journal blocks opened in a behaviour

Operations == {"increment", "decrement"}

LockCounterConstants ==
  /\ Size \in Nat \ {0}
  /\ EntriesPerBlock \in Nat \ {0}
  /\ MaxSequence \in Nat \ {0}
  /\ IsFiniteSet(LogicalZones) /\ IsFiniteSet(PhysicalZones)
  /\ IsFiniteSet(Pages) /\ IsFiniteSet(SlabBlocks) /\ IsFiniteSet(DataVIOs)
  /\ LogicalZones \cap PhysicalZones = {}
  /\ PageZones \subseteq [Pages -> LogicalZones]
  /\ SlabZone \in [SlabBlocks -> PhysicalZones]
  /\ BlockZone \in [DataVIOs -> [Operations -> PhysicalZones]]

VARIABLES
  \* struct lockCounter
  notifying,              \* a release notification is in flight
  journalCounters, journalDecrementCounts,
  zoneCounts,             \* logicalZoneCounts and physicalZoneCounts, by type
  zoneCounters,           \* logicalCounters and physicalCounters, by zone
  \* the journal thread
  tail,                   \* end of the half-open interval of opened blocks
  entryCount,             \* entries of the newest block
  open,                   \* opened blocks that are not yet recycled
  lastWriteAcknowledged,
  reapHead,               \* blockMapReapHead and slabJournalReapHead, by type
  jpc,                    \* where the journal thread is in its reap loops
  \* DataVIOs and the other zones
  vio,                    \* where each DataVIO is and the block of its entry
  zpc,                    \* what each zone thread still has to do
  pageLock,               \* BlockMapPageContext.recoveryLock of each page
  slabLock,               \* state and recoveryStart of each slab journal block
  pageZone,               \* the logical zone of each page, never changed
  \* history: the journal blocks whose entries are only in memory
  pageEntries,            \* in each dirty page
  slabEntries             \* in each slab journal block

history == <<pageEntries, slabEntries>>
counterVars == <<notifying, journalCounters, journalDecrementCounts,
                 zoneCounts, zoneCounters>>
journalVars == <<tail, entryCount, open, lastWriteAcknowledged, reapHead, jpc>>
vars == <<counterVars, journalVars, vio, zpc, pageLock, slabLock, pageZone,
          history>>

Zones == LogicalZones \cup PhysicalZones
ZoneTypes == {"logical", "physical"}
TypeOf(zone) == IF zone \in LogicalZones THEN "logical" ELSE "physical"
Locks == 0 .. Size - 1

(* getRecoveryJournalBlockNumber() *)
LockOf(sequence) == sequence % Size

VIOStates == {"idle", "journal", "committed", "counted"}
NewVIO == [state |-> "idle", operation |-> "decrement", point |-> 0,
           recoverySequenceNumber |-> 0]
Idle == [at |-> "idle", release |-> 0, entry |-> 0]

(* The types of struct lockCounter and of its users.                       *)
TypeOK ==
  /\ notifying \in BOOLEAN
  /\ journalCounters \in [Locks -> Nat]
  /\ journalDecrementCounts \in [Locks -> Nat]
  /\ zoneCounts \in [ZoneTypes -> [Locks -> Nat]]
  /\ zoneCounters \in [Zones -> [Locks -> Nat]]
  /\ tail \in Nat \ {0}
  /\ entryCount \in 0 .. EntriesPerBlock
  /\ open \subseteq Nat
  /\ lastWriteAcknowledged \in Nat
  /\ reapHead \in [ZoneTypes -> Nat \ {0}]
  /\ jpc \in [type : ZoneTypes, at : {"idle", "journal", "zone"}]
  /\ vio \in [DataVIOs -> [state : VIOStates, operation : Operations,
                           point : Nat, recoverySequenceNumber : Nat]]
  /\ zpc \in [Zones -> [at : {"idle", "release", "notify", "entry"},
                        release : Nat, entry : Nat]]
  /\ pageLock \in [Pages -> Nat]
  /\ slabLock \in [SlabBlocks -> [state : {"free", "open", "closed"},
                                  recoveryStart : Nat]]
  /\ pageEntries \in [Pages -> SUBSET Nat]
  /\ pageZone \in PageZones
  /\ slabEntries \in [SlabBlocks -> SUBSET Nat]

Init ==
  /\ notifying = FALSE
  /\ journalCounters = [l \in Locks |-> 0]
  /\ journalDecrementCounts = [l \in Locks |-> 0]
  /\ zoneCounts = [t \in ZoneTypes |-> [l \in Locks |-> 0]]
  /\ zoneCounters = [z \in Zones |-> [l \in Locks |-> 0]]
  /\ tail = 1
  /\ entryCount = 0
  /\ open = {}
  /\ lastWriteAcknowledged = 1
  /\ reapHead = [t \in ZoneTypes |-> 1]
  /\ jpc = [type |-> "logical", at |-> "idle"]
  /\ vio = [v \in DataVIOs |-> NewVIO]
  /\ zpc = [z \in Zones |-> Idle]
  /\ pageLock = [p \in Pages |-> 0]
  /\ slabLock = [b \in SlabBlocks |-> [state |-> "free", recoveryStart |-> 0]]
  /\ pageEntries = [p \in Pages |-> {}]
  /\ pageZone \in PageZones
  /\ slabEntries = [b \in SlabBlocks |-> {}]

-----------------------------------------------------------------------------
(* The operations of lockCounter.c.                                        *)

isJournalZoneLocked(lock) ==
  journalCounters[lock] # journalDecrementCounts[lock]

acquireLockCountReference_EveryTime(lock, zone) ==
  /\ zoneCounts' = [zoneCounts EXCEPT ![TypeOf(zone)][lock] = @ + 1]
  /\ zoneCounters' = [zoneCounters EXCEPT ![zone][lock] = @ + 1]
  /\ UNCHANGED <<notifying, journalCounters, journalDecrementCounts>>

(* The first reference of a zone also counts the zone.                     *)
acquireLockCountReference(lock, zone) ==
  /\ zoneCounts' = IF zoneCounters[zone][lock] = 0
                   THEN [zoneCounts EXCEPT ![TypeOf(zone)][lock] = @ + 1]
                   ELSE zoneCounts
  /\ zoneCounters' = [zoneCounters EXCEPT ![zone][lock] = @ + 1]
  /\ UNCHANGED <<notifying, journalCounters, journalDecrementCounts>>

(* releaseLockCountReference() up to its call of attemptNotification(): the *)
(* last reference of a zone uncounts the zone.                             *)
releaseLockCountReference(lock, zone) ==
  /\ zoneCounters' = [zoneCounters EXCEPT ![zone][lock] = @ - 1]
  /\ zoneCounts' = IF zoneCounters[zone][lock] = 1
                   THEN [zoneCounts EXCEPT ![TypeOf(zone)][lock] = @ - 1]
                   ELSE zoneCounts
  /\ UNCHANGED <<notifying, journalCounters, journalDecrementCounts>>

(* Whether that release was the last of its type and has to notify.        *)
MustNotify(lock, zone) ==
  /\ zoneCounters[zone][lock] = 1
  /\ zoneCounts[TypeOf(zone)][lock] = 1

(* The compare and swap of attemptNotification(); the callback is queued to *)
(* the journal thread exactly while notifying is set.                      *)
attemptNotification ==
  /\ notifying' = TRUE
  /\ UNCHANGED <<journalCounters, journalDecrementCounts, zoneCounts,
                 zoneCounters>>

(* Called on the journal thread, so the test needs no step of its own.     *)
releaseJournalZoneReference(lock) ==
  /\ journalCounters' = [journalCounters EXCEPT ![lock] = @ - 1]
  /\ notifying' = \/ notifying
                  \/ journalCounters[lock] - 1 = journalDecrementCounts[lock]
  /\ UNCHANGED <<journalDecrementCounts, zoneCounts, zoneCounters>>

releaseJournalZoneReferenceFromOtherZone(lock) ==
  /\ journalDecrementCounts' = [journalDecrementCounts EXCEPT ![lock] = @ + 1]
  /\ UNCHANGED <<notifying, journalCounters, zoneCounts, zoneCounters>>

acknowledgeUnlock ==
  /\ notifying' = FALSE
  /\ UNCHANGED <<journalCounters, journalDecrementCounts, zoneCounts,
                 zoneCounters>>

-----------------------------------------------------------------------------
(* The journal thread (recoveryJournal.c).  It runs one handler at a time. *)

JournalIdle == jpc.at = "idle"

getRecoveryJournalHead ==
  IF reapHead["logical"] < reapHead["physical"]
  THEN reapHead["logical"] ELSE reapHead["physical"]

(* RECOVERY_JOURNAL_RESERVED_BLOCKS is 8.                                  *)
getRecoveryJournalLength ==
  Size - (IF Size \div 4 < 8 THEN Size \div 4 ELSE 8)

(* The entries that still fit; recoveryJournal.c keeps this as a counter.  *)
availableSpace ==
  EntriesPerBlock * getRecoveryJournalLength
    - (EntriesPerBlock * (tail - getRecoveryJournalHead)
       - (IF tail = 1 THEN 0 ELSE EntriesPerBlock - entryCount))

pendingDecrementCount ==
  Cardinality({v \in DataVIOs : /\ vio[v].operation = "increment"
                                /\ vio[v].state # "idle"})

checkForEntrySpace(operation) ==
  IF operation = "increment"
  THEN availableSpace - pendingDecrementCount > 1
  ELSE availableSpace > 0

(* There is no active block (at first), or it has no room for an entry.    *)
isRecoveryBlockFull == tail = 1 \/ entryCount = EntriesPerBlock

(* assignEntry() after prepareToAssignEntry(): a full block is followed by a *)
(* new one, whose lock initializeLockCount() sets to one for every entry   *)
(* and one for the block itself.  A decrement entry releases its lock at   *)
(* once (releaseJournalZoneReference()).                                   *)
assignEntry(v, operation) ==
  LET full == isRecoveryBlockFull
      sequence == IF full THEN tail ELSE tail - 1
      lock == LockOf(sequence)
      value == IF full THEN EntriesPerBlock + 1 ELSE journalCounters[lock]
      decrements == IF full THEN 0 ELSE journalDecrementCounts[lock]
      now == IF operation = "decrement" THEN value - 1 ELSE value
  IN /\ JournalIdle
     /\ checkForEntrySpace(operation)
     /\ full => tail + 1 - getRecoveryJournalHead <= Size
     /\ tail' = sequence + 1
     /\ entryCount' = IF full THEN 1 ELSE entryCount + 1
     /\ open' = open \cup {sequence}
     /\ journalCounters' = [journalCounters EXCEPT ![lock] = now]
     /\ journalDecrementCounts' =
          [journalDecrementCounts EXCEPT ![lock] = decrements]
     /\ notifying' = (notifying \/ (operation = "decrement" /\ now = decrements))
     /\ vio' = [vio EXCEPT ![v] =
          [state |-> "journal", operation |-> operation, point |-> sequence,
           recoverySequenceNumber |-> IF operation = "increment" THEN sequence
                                      ELSE vio[v].recoverySequenceNumber]]
     /\ UNCHANGED <<zoneCounts, zoneCounters, lastWriteAcknowledged, reapHead,
                    jpc, zpc, pageLock, slabLock, history, pageZone>>

AssignIncrement(v) ==
  /\ vio[v].state = "idle"
  /\ tail <= MaxSequence
  /\ assignEntry(v, "increment")

AssignDecrement(v) ==
  /\ vio[v].state = "counted"
  /\ vio[v].operation = "increment"
  /\ assignEntry(v, "decrement")

(* completeWrite(): the entries written with the oldest open block are     *)
(* committed and, when the block is full, it is recycled.                  *)
CompleteWrite(sequence) ==
  /\ JournalIdle
  /\ sequence \in open
  /\ \A other \in open : sequence <= other
  /\ lastWriteAcknowledged' = sequence
  /\ vio' = [v \in DataVIOs |->
               IF vio[v].state = "journal" /\ vio[v].point = sequence
               THEN [vio[v] EXCEPT !.state = "committed"] ELSE vio[v]]
  /\ \/ /\ sequence < tail - 1 \/ entryCount = EntriesPerBlock
        /\ open' = open \ {sequence}
        /\ releaseJournalZoneReference(LockOf(sequence))
     \/ /\ sequence = tail - 1 /\ entryCount < EntriesPerBlock
        /\ vio' # vio
        /\ UNCHANGED <<open, counterVars>>
  /\ UNCHANGED <<tail, entryCount, reapHead, jpc, zpc, pageLock, slabLock, history,
                 pageZone>>

(* reapRecoveryJournalCallback(): acknowledge first, then look.            *)
ReapCallback ==
  /\ JournalIdle
  /\ notifying
  /\ acknowledgeUnlock
  /\ jpc' = [type |-> "logical", at |-> "journal"]
  /\ UNCHANGED <<tail, entryCount, open, lastWriteAcknowledged, reapHead, vio,
                 zpc, pageLock, slabLock, history, pageZone>>

NextLoop_Again == [type |-> IF jpc.type = "logical" THEN "physical"
                                                 ELSE "logical",
                   at |-> "journal"]

NextLoop == IF jpc.type = "logical" THEN [type |-> "physical", at |-> "journal"]
                                    ELSE [type |-> "logical", at |-> "idle"]

(* reapRecoveryJournal(): the first half of isLocked() on the next block.  *)
ReadJournalCount ==
  /\ jpc.at = "journal"
  /\ jpc' = IF /\ reapHead[jpc.type] < lastWriteAcknowledged
               /\ ~isJournalZoneLocked(LockOf(reapHead[jpc.type]))
            THEN [jpc EXCEPT !.at = "zone"] ELSE NextLoop
  /\ UNCHANGED <<counterVars, tail, entryCount, open, lastWriteAcknowledged,
                 reapHead, vio, zpc, pageLock, slabLock, history, pageZone>>

(* The second half: the count of the zones of this type.                   *)
ReadZoneCount ==
  /\ jpc.at = "zone"
  /\ IF zoneCounts[jpc.type][LockOf(reapHead[jpc.type])] = 0
     THEN /\ reapHead' = [reapHead EXCEPT ![jpc.type] = @ + 1]
          /\ jpc' = [jpc EXCEPT !.at = "journal"]
     ELSE /\ reapHead' = reapHead
          /\ jpc' = NextLoop
  /\ UNCHANGED <<counterVars, tail, entryCount, open, lastWriteAcknowledged,
                 vio, zpc, pageLock, slabLock, history, pageZone>>

-----------------------------------------------------------------------------
(* The zones.  A zone thread runs one handler at a time, too.              *)

ZoneIdle(zone) == zpc[zone].at = "idle"

(* addEntryFromWaiter() of slabJournal.c: the first entry of a slab journal *)
(* block locks the recovery journal block the entry comes from.  Entries   *)
(* reach a zone in the order in which the journal committed them.          *)
MakeSlabJournalEntry(v, b) ==
  LET zone == SlabZone[b]
      Earlier(w) == /\ vio[w].state = "committed"
                    /\ BlockZone[w][vio[w].operation] = zone
                    /\ vio[w].point < vio[v].point
  IN /\ vio[v].state = "committed"
     /\ BlockZone[v][vio[v].operation] = zone
     /\ ZoneIdle(zone)
     /\ \A w \in DataVIOs : ~Earlier(w)
     /\ vio' = [vio EXCEPT ![v].state = "counted"]
     /\ \/ /\ slabLock[b].state = "free"
           /\ slabLock' = [slabLock EXCEPT
                ![b] = [state |-> "open", recoveryStart |-> vio[v].point]]
           /\ acquireLockCountReference(LockOf(vio[v].point), zone)
        \/ /\ slabLock[b].state = "open"
           /\ UNCHANGED <<slabLock, counterVars>>
     /\ slabEntries' = [slabEntries EXCEPT ![b] = @ \cup {vio[v].point}]
     /\ UNCHANGED <<journalVars, zpc, pageLock, pageEntries, pageZone>>

(* The zero block has no slab journal: finishBlockWrite() and               *)
(* journalUnmappingForWrite() skip the reference count.                    *)
SkipSlabJournal(v) ==
  /\ vio[v].state = "committed"
  /\ vio' = [vio EXCEPT ![v].state = "counted"]
  /\ UNCHANGED <<counterVars, journalVars, zpc, pageLock, slabLock, history,
                 pageZone>>

(* Whether a page must take the lock of an entry: it holds none, or a      *)
(* newer one.                                                              *)
MustLock_KeepsNewer(oldLocked, newLocked) == oldLocked = 0

MustLock(oldLocked, newLocked) == oldLocked = 0 \/ oldLocked > newLocked

(* updateBlockMapPage(): the page takes over the lock of the entry unless  *)
(* it holds an older one; only then is the lock of the entry released.     *)
UpdateBlockMapPage(v, p) ==
  LET zone == pageZone[p]
      oldLocked == pageLock[p]
      newLocked == vio[v].recoverySequenceNumber
  IN /\ vio[v].state = "counted"
     /\ vio[v].operation = "decrement"
     /\ ZoneIdle(zone)
     /\ \/ /\ MustLock(oldLocked, newLocked)
           /\ acquireLockCountReference(LockOf(newLocked), zone)
           /\ pageLock' = [pageLock EXCEPT ![p] = newLocked]
           /\ zpc' = [zpc EXCEPT ![zone] =
                [at |-> IF oldLocked > 0 THEN "release" ELSE "entry",
                 release |-> oldLocked, entry |-> newLocked]]
        \/ /\ ~MustLock(oldLocked, newLocked)
           /\ zpc' = [zpc EXCEPT ![zone] =
                [at |-> "entry", release |-> 0, entry |-> newLocked]]
           /\ UNCHANGED <<pageLock, counterVars>>
     /\ vio' = [vio EXCEPT ![v] = NewVIO]
     /\ pageEntries' = [pageEntries EXCEPT ![p] = @ \cup {newLocked}]
     /\ UNCHANGED <<journalVars, slabLock, slabEntries, pageZone>>

AfterRelease(zone) == IF zpc[zone].entry > 0 THEN "entry" ELSE "idle"

(* releaseRecoveryJournalBlockReference() *)
Release(zone) ==
  LET lock == LockOf(zpc[zone].release)
  IN /\ zpc[zone].at = "release"
     /\ releaseLockCountReference(lock, zone)
     /\ zpc' = [zpc EXCEPT ![zone] =
          [at |-> IF MustNotify(lock, zone) THEN "notify" ELSE AfterRelease(zone),
           release |-> 0, entry |-> zpc[zone].entry]]
     /\ UNCHANGED <<journalVars, vio, pageLock, slabLock, history, pageZone>>

Notify(zone) ==
  /\ zpc[zone].at = "notify"
  /\ attemptNotification
  /\ zpc' = [zpc EXCEPT ![zone].at = AfterRelease(zone)]
  /\ UNCHANGED <<journalVars, vio, pageLock, slabLock, history, pageZone>>

(* releasePerEntryLockFromOtherZone() *)
ReleaseEntry(zone) ==
  /\ zpc[zone].at = "entry"
  /\ releaseJournalZoneReferenceFromOtherZone(LockOf(zpc[zone].entry))
  /\ zpc' = [zpc EXCEPT ![zone] = Idle]
  /\ UNCHANGED <<journalVars, vio, pageLock, slabLock, history, pageZone>>

(* A dirty page was written: handlePageWrite() of blockMap.c and             *)
(* finishPageWrite() of blockMapTree.c give its lock back.                 *)
WritePage(p) ==
  /\ pageLock[p] # 0
  /\ ZoneIdle(pageZone[p])
  /\ zpc' = [zpc EXCEPT ![pageZone[p]] =
       [at |-> "release", release |-> pageLock[p], entry |-> 0]]
  /\ pageLock' = [pageLock EXCEPT ![p] = 0]
  /\ pageEntries' = [pageEntries EXCEPT ![p] = {}]
  /\ UNCHANGED <<counterVars, journalVars, vio, slabLock, slabEntries,
                 pageZone>>

(* A slab journal block was filled or committed: no more entries.          *)
CloseSlabBlock(b) ==
  /\ slabLock[b].state = "open"
  /\ ZoneIdle(SlabZone[b])
  /\ slabLock' = [slabLock EXCEPT ![b].state = "closed"]
  /\ UNCHANGED <<counterVars, journalVars, vio, zpc, pageLock, history,
                 pageZone>>

(* releaseJournalLocks() of slabJournal.c, once the slab summary knows.    *)
ReleaseSlabBlock(b) ==
  /\ slabLock[b].state = "closed"
  /\ ZoneIdle(SlabZone[b])
  /\ zpc' = [zpc EXCEPT ![SlabZone[b]] =
       [at |-> "release", release |-> slabLock[b].recoveryStart, entry |-> 0]]
  /\ slabLock' = [slabLock EXCEPT ![b] = [state |-> "free", recoveryStart |-> 0]]
  /\ slabEntries' = [slabEntries EXCEPT ![b] = {}]
  /\ UNCHANGED <<counterVars, journalVars, vio, pageLock, pageEntries,
                 pageZone>>

-----------------------------------------------------------------------------
Next ==
  \/ \E v \in DataVIOs : \/ AssignIncrement(v)
                         \/ AssignDecrement(v)
                         \/ SkipSlabJournal(v)
                         \/ \E b \in SlabBlocks : MakeSlabJournalEntry(v, b)
                         \/ \E p \in Pages : UpdateBlockMapPage(v, p)
  \/ \E sequence \in open : CompleteWrite(sequence)
  \/ ReapCallback \/ ReadJournalCount \/ ReadZoneCount
  \/ \E zone \in Zones : Release(zone) \/ Notify(zone) \/ ReleaseEntry(zone)
  \/ \E p \in Pages : WritePage(p)
  \/ \E b \in SlabBlocks : CloseSlabBlock(b) \/ ReleaseSlabBlock(b)

(* Every handler that is queued runs, every write completes, every dirty   *)
(* page and slab journal block is written out in the end.  New writes may  *)
(* stop at any time.  There is no end to these steps only if new writes    *)
(* keep coming, so weak fairness for all of them is weak fairness for each.*)
Due ==
  \/ \E v \in DataVIOs : \/ AssignDecrement(v) \/ SkipSlabJournal(v)
                         \/ \E p \in Pages : UpdateBlockMapPage(v, p)
  \/ \E sequence \in open : CompleteWrite(sequence)
  \/ ReapCallback \/ ReadJournalCount \/ ReadZoneCount
  \/ \E zone \in Zones : Release(zone) \/ Notify(zone) \/ ReleaseEntry(zone)
  \/ \E p \in Pages : WritePage(p)
  \/ \E b \in SlabBlocks : CloseSlabBlock(b) \/ ReleaseSlabBlock(b)

Spec == Init /\ [][Next]_vars /\ WF_vars(Due)

-----------------------------------------------------------------------------
(* What still needs a journal block, by the type of zone that will need it *)
(* after a crash: the block map is rebuilt from its head, slab journals    *)
(* are replayed from theirs.                                               *)
NeededBy(type) ==
  open
  \cup {vio[v].recoverySequenceNumber : v \in DataVIOs}
  \cup {zpc[z].entry : z \in Zones}
  \cup (IF type = "logical" THEN UNION {pageEntries[p] : p \in Pages}
        ELSE (UNION {slabEntries[b] : b \in SlabBlocks})
             \cup {vio[v].point : v \in {w \in DataVIOs : vio[w].state = "committed"}})

(* The reap heads never pass a block that is still being written, whose    *)
(* entry a DataVIO has not yet put in the block map, or that a dirty page  *)
(* or an unfinished slab journal block depends on -- although isLocked()   *)
(* reads its two counts at different times.                                *)
NothingNeededIsReaped ==
  \A type \in ZoneTypes : \A s \in NeededBy(type) :
    s # 0 => s >= reapHead[type]

(* reapRecoveryJournal() moves a head one block at a time, and only over a *)
(* block whose write is acknowledged and that nothing needs.               *)
ReapsOnlyUnneeded ==
  [][\A type \in ZoneTypes :
       \/ reapHead'[type] = reapHead[type]
       \/ /\ reapHead'[type] = reapHead[type] + 1
          /\ reapHead[type] < lastWriteAcknowledged
          /\ reapHead[type] \notin NeededBy(type)]_vars

(* releaseReference() and isJournalZoneLocked() assert that no count runs  *)
(* below zero; a zone counts as a holder exactly while its own counter is  *)
(* not zero.                                                               *)
LocksAreExact ==
  /\ \A l \in Locks : journalDecrementCounts[l] <= journalCounters[l]
  /\ \A type \in ZoneTypes, l \in Locks :
       zoneCounts[type][l] =
         Cardinality({z \in Zones : TypeOf(z) = type /\ zoneCounters[z][l] > 0})
  /\ \A z \in Zones : zpc[z].release # 0 =>
       zoneCounters[z][LockOf(zpc[z].release)] > 0

AllReaped == \A type \in ZoneTypes : reapHead[type] >= lastWriteAcknowledged

-----------------------------------------------------------------------------
(* The inductive invariant behind LocksAreExact and NothingNeededIsReaped. *)

(* What zone holds on a lock: the pages or slab journal blocks that lock   *)
(* it, and the reference which the zone's thread is about to release.      *)
Holders(zone, lock) ==
  IF zone \in LogicalZones
  THEN {p \in Pages : /\ pageZone[p] = zone /\ pageLock[p] # 0
                      /\ LockOf(pageLock[p]) = lock}
  ELSE {b \in SlabBlocks : /\ SlabZone[b] = zone /\ slabLock[b].state # "free"
                           /\ LockOf(slabLock[b].recoveryStart) = lock}

Releasing(zone, lock) ==
  IF zpc[zone].release # 0 /\ LockOf(zpc[zone].release) = lock THEN 1 ELSE 0

References(zone, lock) ==
  Cardinality(Holders(zone, lock)) + Releasing(zone, lock)

CountedZones(type, lock) ==
  {z \in Zones : TypeOf(z) = type /\ zoneCounters[z][lock] > 0}

ZonesCounted ==
  /\ \A z \in Zones, l \in Locks :
       zoneCounters[z][l] = References(z, l)
  /\ \A type \in ZoneTypes, l \in Locks :
       zoneCounts[type][l] = Cardinality(CountedZones(type, l))

(* The journal zone's references on the block with this sequence number:   *)
(* for the entries still on their way to the block map, for the block      *)
(* being open, and for the entries it has room for.                        *)
Writers(sequence) == {v \in DataVIOs : vio[v].recoverySequenceNumber = sequence}
Updaters(sequence) == {z \in Zones : zpc[z].entry = sequence}
OpenReference(sequence) == IF sequence \in open THEN 1 ELSE 0
FreeEntries(sequence) ==
  IF sequence = tail - 1 THEN EntriesPerBlock - entryCount ELSE 0

JournalReferences(sequence) ==
  Cardinality(Writers(sequence)) + Cardinality(Updaters(sequence))
    + OpenReference(sequence) + FreeEntries(sequence)

(* The last Size blocks have locks of their own.                           *)
JournalCounted ==
  /\ \A s \in 1 .. tail - 1 : s >= tail - Size =>
       journalCounters[LockOf(s)]
         = journalDecrementCounts[LockOf(s)] + JournalReferences(s)
  /\ \A l \in Locks : journalDecrementCounts[l] <= journalCounters[l]

JournalInOrder ==
  /\ \A type \in ZoneTypes : /\ reapHead[type] <= lastWriteAcknowledged
                              /\ tail - reapHead[type] <= Size
  /\ lastWriteAcknowledged <= tail
  /\ tail > 1 => lastWriteAcknowledged < tail
  /\ \A s \in open : lastWriteAcknowledged <= s /\ s < tail
  /\ tail > 1 /\ entryCount < EntriesPerBlock => tail - 1 \in open

EntriesInOrder ==
  \A v \in DataVIOs :
    /\ vio[v].state = "idle" => vio[v] = NewVIO
    /\ vio[v].state # "idle" => /\ vio[v].recoverySequenceNumber > 0
                                /\ vio[v].recoverySequenceNumber <= vio[v].point
                                /\ vio[v].point < tail
    /\ vio[v].state = "journal" => vio[v].point \in open
    /\ vio[v].state = "committed" => vio[v].point <= lastWriteAcknowledged

ZonesInOrder ==
  \A z \in Zones :
    /\ zpc[z].entry < tail
    /\ zpc[z].release # 0 <=> zpc[z].at = "release"
    /\ zpc[z].at = "idle" => zpc[z].entry = 0
    /\ zpc[z].at = "entry" => zpc[z].entry # 0

(* A page or slab journal block locks the oldest of its entries.           *)
LocksOldest ==
  /\ \A p \in Pages :
       /\ pageLock[p] = 0 => pageEntries[p] = {}
       /\ pageLock[p] # 0 => pageLock[p] \in pageEntries[p]
       /\ \A s \in pageEntries[p] : pageLock[p] <= s
  /\ \A b \in SlabBlocks :
       /\ slabLock[b].state = "free" => slabEntries[b] = {}
       /\ slabLock[b].state # "free" =>
            /\ slabLock[b].recoveryStart # 0
            /\ slabLock[b].recoveryStart <= lastWriteAcknowledged
            /\ slabLock[b].recoveryStart \in slabEntries[b]
            /\ \A v \in DataVIOs :
                 /\ vio[v].state = "committed"
                 /\ BlockZone[v][vio[v].operation] = SlabZone[b]
                 => slabLock[b].recoveryStart <= vio[v].point
       /\ \A s \in slabEntries[b] : slabLock[b].recoveryStart <= s

(* Between the two halves of isLocked() no reference to the block returns. *)
StaysUnlocked ==
  jpc.at = "zone" => /\ reapHead[jpc.type] < lastWriteAcknowledged
                     /\ Writers(reapHead[jpc.type]) = {}
                     /\ Updaters(reapHead[jpc.type]) = {}

(* NothingNeededIsReaped, one kind of need at a time.                      *)
HeadsAreBehind ==
  /\ \A type \in ZoneTypes :
       /\ \A v \in DataVIOs : vio[v].state # "idle" =>
            vio[v].recoverySequenceNumber >= reapHead[type]
       /\ \A z \in Zones : zpc[z].entry # 0 => zpc[z].entry >= reapHead[type]
  /\ \A p \in Pages : pageLock[p] # 0 => pageLock[p] >= reapHead["logical"]
  /\ \A b \in SlabBlocks : slabLock[b].state # "free" =>
       slabLock[b].recoveryStart >= reapHead["physical"]

LockCounterInv ==
  /\ TypeOK /\ ZonesCounted /\ JournalCounted /\ JournalInOrder /\ EntriesInOrder
  /\ ZonesInOrder /\ LocksOldest /\ StaysUnlocked /\ HeadsAreBehind

=============================================================================
