-------------------------------- MODULE Slab --------------------------------
(***************************************************************************)
(* One slab of the slab depot: its slab journal (base/slabJournal.c), its  *)
(* reference counts (base/refCounts.c), the slab's entry of the slab       *)
(* summary (base/slabSummary.c), and what a crash leaves of the three for  *)
(* the recovery (base/vdoRecovery.c, base/slabScrubber.c) to put together. *)
(*                                                                         *)
(* All handlers of a slab run on the thread of its physical zone, so every *)
(* handler is one step.  Handlers call each other, re-entrantly: each is   *)
(* an operator from a zone state z to a zone state, where z is the record  *)
(* of the variables.  A wait for a VIO of the allocator's pool, and every  *)
(* I/O, ends in a step of its own.                                         *)
(*                                                                         *)
(* Storage has a volatile write cache when FlushRequired (the async write  *)
(* policy): a completed write survives a crash for certain only once a     *)
(* flush was issued after it.  A flush takes effect when it is issued,     *)
(* which is all it promises.  A write of a reference block may be torn at  *)
(* a sector boundary.                                                      *)
(*                                                                         *)
(* Data: a reference update adds one to the counter of its block, so the   *)
(* counts tell a lost or repeated update; block map increments matter only *)
(* by the room they take in a slab journal block.  Each recovery journal   *)
(* entry is in a recovery block of its own (locks at their finest).        *)
(***************************************************************************)
EXTENDS Integers, Sequences, FiniteSets, FiniteSetsExt, SequencesExt

CONSTANTS Size,                 \* blocks of the slab journal on storage
          FlushingThreshold, FlushingDeadline, BlockingThreshold,
          ScrubbingThreshold,   \* a recovered slab this full is scrubbed offline
          MaxVIOs,              \* MAXIMUM_USER_VIOS: how many VIOs may wait
          Scenarios             \* the slabs and surroundings to consider

SlabAssumption ==
  /\ BlockingThreshold <= ScrubbingThreshold /\ ScrubbingThreshold < Size - 1
  /\ FlushingThreshold <= BlockingThreshold
  /\ \A s \in Scenarios : s.fullEntriesPerBlock \in 1 .. s.entriesPerBlock

VARIABLES journal,    \* the SlabJournal
          refCounts,  \* the RefCounts
          summary,    \* the slab's entry and block of the SlabSummaryZone
          slab,       \* the Slab's status and admin state
          storage,    \* what was written, and what of it a crash cannot undo
          recovery,   \* the recovery journal's entries for this slab
          crashes,    \* how many crashes there were
          scenario    \* which of Scenarios this is, never changed

vars == <<journal, refCounts, summary, slab, storage, recovery, crashes, scenario>>

RefBlocks == 1 .. scenario.refBlocks        \* the reference blocks
Sectors == 1 .. scenario.sectors            \* the sectors of a reference block
EntriesPerBlock == scenario.entriesPerBlock \* of a block with data operations only
FullEntriesPerBlock == scenario.fullEntriesPerBlock \* with a block map increment
FlushRequired == scenario.flushRequired     \* the write policy is async
EntryKinds == scenario.entryKinds           \* {FALSE}, TRUE for block map increments
AdminOperations == scenario.adminOperations \* drains of the depot
DrainWhileWriting == scenario.drainWhileWriting \* reference blocks, as it starts
MaxEntries == scenario.maxEntries           \* bound: recovery journal entries
MaxCrashes == scenario.maxCrashes           \* bound: crashes

Slots == 0 .. (Size - 1)
SlotOf(sequence) == sequence % Size
SBNs == RefBlocks \X Sectors

\* What handler F makes of state z: F(z), with z evaluated first.
Then(z, F(_)) == CHOOSE result \in {F(w) : w \in {z}} : TRUE

(***************************************************************************)
(* Storage locations: the value a crash cannot undo, the completed write   *)
(* that is only in the cache, the write in flight.                         *)
(***************************************************************************)
Location(value) == [durable |-> value, cached |-> {}, inFlight |-> {}]
FlushLocation(loc) ==
  IF loc.cached = {} THEN loc
  ELSE [loc EXCEPT !.durable = CHOOSE v \in loc.cached : TRUE, !.cached = {}]
WriteLocation(loc, value) == [loc EXCEPT !.inFlight = {value}]
CompleteLocation(loc) ==
  IF FlushRequired THEN [loc EXCEPT !.cached = loc.inFlight, !.inFlight = {}]
  ELSE Location(CHOOSE v \in loc.inFlight : TRUE)
\* What a read returns when no write is in flight.
Current(loc) == IF loc.cached = {} THEN loc.durable ELSE CHOOSE v \in loc.cached : TRUE
AfterCrash(loc) == {loc.durable} \cup loc.cached \cup loc.inFlight

\* A flush makes every completed write stable, the recovery journal's included.
Flush(z) ==
  [z EXCEPT !.storage = [entry   |-> FlushLocation(@.entry),
                         journal |-> [s \in Slots |-> FlushLocation(@.journal[s])],
                         counts  |-> [b \in RefBlocks |-> FlushLocation(@.counts[b])]],
            !.recovery.stable = Len(z.recovery.entries)]

BeforeJournalPoint(p, q) == p[1] < q[1] \/ (p[1] = q[1] /\ p[2] < q[2])
LatestPoint(points) == CHOOSE p \in points : \A q \in points : ~BeforeJournalPoint(p, q)

HasBlockMapIncrements(entries, log) == \E i \in Range(entries) : log[i].blockMap
BlockIsFull(entries, log) ==
  Len(entries) = IF HasBlockMapIncrements(entries, log) THEN FullEntriesPerBlock
                                                        ELSE EntriesPerBlock

IsUnrecoveredSlab(z) == z.slab.status # "REBUILT"
SlabIsRebuilding(z) == z.slab.status = "REBUILDING"
DrainOperations == {"SUSPENDING", "SAVING", "SCRUBBING", "SAVE_FOR_SCRUBBING"}
IsSlabDraining(z) == z.slab.state \in DrainOperations
IsSlabOpen(z) == z.slab.state \in {"NORMAL", "SCRUBBING", "SAVE_FOR_SCRUBBING"}

IsReaping(z) == z.journal.head # z.journal.unreapable
HasWaiters(z) == z.journal.entryWaiters # <<>>
MustMakeEntriesToFlush(z) == ~SlabIsRebuilding(z) /\ HasWaiters(z)

(***************************************************************************)
(* The slab summary.                                                       *)
(***************************************************************************)
\* launchWrite: flush, then write the block; the waiters of the next write
\* become those of the current one.
LaunchWrite(z) ==
  IF z.summary.writing THEN z
  ELSE LET f == Flush(z) IN
       [f EXCEPT !.summary.writing = TRUE,
                 !.summary.currentUpdateWaiters = @ \o z.summary.nextUpdateWaiters,
                 !.summary.nextUpdateWaiters = <<>>,
                 !.storage.entry = WriteLocation(@, z.summary.entry)]

UpdateSlabSummaryEntry(z, waiter, offset, loadRefCounts, isClean) ==
  Then([z EXCEPT
    !.summary.nextUpdateWaiters = Append(@, waiter),
    !.summary.entry = [offset        |-> offset,
                       loadRefCounts |-> @.loadRefCounts \/ loadRefCounts,
                       isDirty       |-> ~isClean]], LaunchWrite)

(***************************************************************************)
(* Reference counts.                                                       *)
(***************************************************************************)
IsRefCountsActive(z) ==
  z.refCounts.updatingSlabSummary \/ \E b \in RefBlocks : z.refCounts.block[b].writing # "no"

\* finishDraining: a scrubbing drain hands over to the scrubber.
NotifyRefCountsAreDrained(z) ==
  [z EXCEPT !.slab.state = CASE @ = "SUSPENDING" -> "SUSPENDED"
                             [] @ = "SAVING" -> "SAVED"
                             [] OTHER -> "NORMAL",
            !.slab.scrubber = CASE z.slab.state = "SCRUBBING" -> "startScrubbing"
                                [] z.slab.state = "SAVE_FOR_SCRUBBING" -> "slabScrubbed"
                                [] OTHER -> @]

RefCountsCheckForDrainComplete(z) ==
  IF \/ IsRefCountsActive(z)
     \/ ~IsSlabDraining(z)
     \/ z.slab.state # "SUSPENDING" /\ z.refCounts.dirtyBlocks # <<>>
  THEN z
  ELSE NotifyRefCountsAreDrained(z)

DirtyBlock(z, b) ==
  IF z.refCounts.block[b].isDirty THEN z
  ELSE [z EXCEPT !.refCounts.block[b].isDirty = TRUE,
                 !.refCounts.dirtyBlocks =
                   IF z.refCounts.block[b].writing # "no" THEN @ ELSE Append(@, b)]

DirtyBlocks(z, blocks) ==
  LET Dirty(x, b) == Then(x, LAMBDA y : DirtyBlock(y, b)) IN
  FoldLeft(Dirty, z, SetToSortSeq(blocks, <))

DirtyAllReferenceBlocks(z) == DirtyBlocks(z, RefBlocks)

\* The first n dirty blocks ask for a VIO to be written with.
SaveOldestReferenceBlocks(z, n) ==
  LET launched == {z.refCounts.dirtyBlocks[i] : i \in 1 .. n} IN
  [z EXCEPT !.refCounts.dirtyBlocks = SubSeq(@, n + 1, Len(@)),
            !.refCounts.block = [b \in RefBlocks |->
               IF b \in launched THEN [@[b] EXCEPT !.writing = "waiting"] ELSE @[b]]]

SaveSeveralReferenceBlocks(z, flushDivisor) ==
  LET dirty == Len(z.refCounts.dirtyBlocks) IN
  IF dirty = 0 THEN z
  ELSE SaveOldestReferenceBlocks(z, Max({1, dirty \div flushDivisor}))

SaveDirtyReferenceBlocks(z) ==
  Then(SaveOldestReferenceBlocks(z, Len(z.refCounts.dirtyBlocks)),
       RefCountsCheckForDrainComplete)

UpdateSlabSummaryAsClean(z) ==
  Then([z EXCEPT !.refCounts.updatingSlabSummary = TRUE],
       LAMBDA w : UpdateSlabSummaryEntry(w, "refCounts", z.summary.entry.offset, TRUE, TRUE))

\* The latest point found in any sector, or the one the counts already had.
LoadReferenceBlocks(z) ==
  LET read == [b \in RefBlocks |-> Current(z.storage.counts[b])] IN
  [z EXCEPT !.refCounts.block = [b \in RefBlocks |->
               [@[b] EXCEPT !.counters = [s \in Sectors |-> read[b][s].count]]],
            !.refCounts.slabJournalPoint =
               LatestPoint({@} \cup {read[sbn[1]][sbn[2]].commitPoint : sbn \in SBNs})]

DrainRefCounts(z) ==
  CASE z.slab.state = "SCRUBBING" /\ z.summary.entry.loadRefCounts ->
         Then(LoadReferenceBlocks(z), RefCountsCheckForDrainComplete)
    [] z.slab.state = "SAVE_FOR_SCRUBBING" ->
         Then(IF z.summary.entry.loadRefCounts THEN z ELSE DirtyAllReferenceBlocks(z),
              SaveDirtyReferenceBlocks)
    [] z.slab.state = "SAVING" /\ ~IsUnrecoveredSlab(z) -> SaveDirtyReferenceBlocks(z)
    [] OTHER -> RefCountsCheckForDrainComplete(z)

(***************************************************************************)
(* The slab journal.                                                       *)
(***************************************************************************)
CheckForDrainComplete(z) ==
  IF \/ ~IsSlabDraining(z)
     \/ MustMakeEntriesToFlush(z)
     \/ IsReaping(z)
     \/ z.journal.waitingToCommit
     \/ z.journal.uncommittedBlocks # <<>>
     \/ z.journal.updatingSlabSummary
  THEN z
  ELSE DrainRefCounts(z)

CommitSlabJournalTail(z) ==
  IF z.journal.entries = <<>> \/ z.journal.waitingToCommit THEN z
  ELSE [z EXCEPT !.journal.recoveryLock = 0, !.journal.waitingToCommit = TRUE]

\* Mutant: the drain is not looked at when there is nothing to summarize.
UpdateTailBlockLocationOnly(z) ==
  IF z.journal.updatingSlabSummary \/ z.journal.lastSummarized >= z.journal.nextCommit
  THEN z
  ELSE Then([z EXCEPT !.journal.summarized = z.journal.nextCommit,
                      !.journal.updatingSlabSummary = TRUE],
            LAMBDA w : UpdateSlabSummaryEntry(w, "journal", SlotOf(z.journal.nextCommit),
                                              z.journal.head > 1, FALSE))

UpdateTailBlockLocation(z) ==
  IF z.journal.updatingSlabSummary \/ z.journal.lastSummarized >= z.journal.nextCommit
  THEN CheckForDrainComplete(z)
  ELSE Then([z EXCEPT !.journal.summarized = z.journal.nextCommit,
                      !.journal.updatingSlabSummary = TRUE],
            LAMBDA w : UpdateSlabSummaryEntry(w, "journal", SlotOf(z.journal.nextCommit),
                                              z.journal.head > 1, FALSE))

RequiresFlushing(z) == z.journal.tail - z.journal.head >= FlushingThreshold
RequiresReaping(z) == z.journal.tail - z.journal.head >= BlockingThreshold

RECURSIVE AddEntries(_), AddEntriesLoop(_)

FinishReaping(z) ==
  Then(Then([z EXCEPT !.journal.head = z.journal.unreapable], AddEntries),
       CheckForDrainComplete)

\* The first block at or after unreapable that is locked, or the tail.
ReapPoint(z) ==
  CHOOSE n \in z.journal.unreapable .. z.journal.tail :
    /\ n = z.journal.tail \/ z.journal.lock[SlotOf(n)].count # 0
    /\ \A k \in z.journal.unreapable .. (n - 1) : z.journal.lock[SlotOf(k)].count = 0

ReapSlabJournal(z) ==
  IF \/ IsReaping(z) \/ IsUnrecoveredSlab(z) \/ z.slab.state # "NORMAL"
     \/ ReapPoint(z) = z.journal.unreapable
  THEN z
  ELSE IF FlushRequired
  THEN [z EXCEPT !.journal.unreapable = ReapPoint(z), !.journal.flush = "waiting"]
  ELSE Then([z EXCEPT !.journal.unreapable = ReapPoint(z)], FinishReaping)

AdjustSlabJournalBlockReference(z, sequence, adjustment) ==
  IF sequence = 0 THEN z
  ELSE Then([z EXCEPT !.journal.lock[SlotOf(sequence)].count = @ + adjustment],
            LAMBDA w : IF w.journal.lock[SlotOf(sequence)].count = 0
                       THEN ReapSlabJournal(w) ELSE w)

AcquireDirtyBlockLocks(z) ==
  Then([DirtyAllReferenceBlocks(z) EXCEPT
          !.refCounts.block = [b \in RefBlocks |-> [@[b] EXCEPT !.slabJournalLock = 1]]],
       LAMBDA w : AdjustSlabJournalBlockReference(w, 1, Cardinality(RefBlocks)))

AdjustReferenceCount(z, sbn, point) ==
  LET b == sbn[1]
      block == z.refCounts.block[b]
      counted == [z EXCEPT !.refCounts.block[b].counters[sbn[2]] = @ + 1,
                           !.refCounts.slabJournalPoint = point]
  IN IF block.isDirty /\ block.slabJournalLock > 0
     THEN Then(counted, LAMBDA w : AdjustSlabJournalBlockReference(w, point[1], -1))
     ELSE Then([counted EXCEPT !.refCounts.block[b].slabJournalLock = point[1]],
               LAMBDA w : DirtyBlock(w, b))

ModifySlabReferenceCount(z, sbn, point) ==
  IF IsUnrecoveredSlab(z) THEN AdjustSlabJournalBlockReference(z, point[1], -1)
  ELSE AdjustReferenceCount(z, sbn, point)

AddEntry(z, i) ==
  Then([z EXCEPT !.journal.entries = Append(@, i)],
       LAMBDA w : IF BlockIsFull(w.journal.entries, w.recovery.entries)
                  THEN CommitSlabJournalTail(w) ELSE w)

\* The first entry of a block: lock the recovery journal, and over the
\* flushing threshold start to write reference blocks.
OpenTailBlock(z, i) ==
  LET length == z.journal.tail - z.journal.head IN
  Then([z EXCEPT !.journal.lock[SlotOf(z.journal.tail)].recoveryStart = i,
                 !.journal.recoveryLocks = @ \cup {z.journal.tail},
                 !.journal.recoveryLock = i],
       LAMBDA w : IF ~RequiresFlushing(w) THEN w
                  ELSE SaveSeveralReferenceBlocks(w, Max({0, FlushingDeadline - length}) + 1))

AddEntryFromWaiter(z) ==
  LET i == Head(z.journal.entryWaiters)
      point == <<z.journal.tail, Len(z.journal.entries)>>
      Opened(w) == IF w.journal.entries = <<>> THEN OpenTailBlock(w, i) ELSE w
      Added(w) == AddEntry(w, i)
      Modified(w) == ModifySlabReferenceCount(w, z.recovery.entries[i].sbn, point)
  IN Then(Then(Then([z EXCEPT !.journal.entryWaiters = Tail(@)], Opened), Added), Modified)

\* The locks of a new block: one for each entry, and one until it is committed.
LockNewBlock(z) ==
  Then([z EXCEPT !.journal.lock[SlotOf(z.journal.tail)].count = EntriesPerBlock + 1],
       LAMBDA w : IF w.journal.tail = 1 THEN AcquireDirtyBlockLocks(w) ELSE w)

AddEntriesLoop(z) ==
  LET empty == z.journal.entries = <<>>
      noRoom == /\ z.recovery.entries[Head(z.journal.entryWaiters)].blockMap
                /\ Len(z.journal.entries) >= FullEntriesPerBlock
  IN IF \/ ~HasWaiters(z)
        \/ z.journal.partialWriteInProgress
        \/ SlabIsRebuilding(z)
        \/ z.journal.waitingToCommit THEN z
     ELSE IF noRoom THEN CommitSlabJournalTail(z)
     ELSE IF RequiresReaping(z) \/ (empty /\ z.journal.lock[SlotOf(z.journal.tail)].count > 0)
          THEN SaveDirtyReferenceBlocks(z)
     ELSE Then(Then(IF empty THEN LockNewBlock(z) ELSE z, AddEntryFromWaiter), AddEntriesLoop)

AddEntries(z) ==
  IF z.journal.addingEntries THEN z
  ELSE Then([Then([z EXCEPT !.journal.addingEntries = TRUE], AddEntriesLoop)
               EXCEPT !.journal.addingEntries = FALSE],
            LAMBDA w : IF IsSlabDraining(w) /\ w.slab.state # "SUSPENDING" /\ ~HasWaiters(w)
                       THEN CommitSlabJournalTail(w) ELSE w)

(***************************************************************************)
(* Callbacks of the I/O the slab launched.                                 *)
(***************************************************************************)
\* A VIO for the tail block: write it and start the next one.
WriteSlabJournalBlock(z) ==
  LET j == z.journal
      unused == EntriesPerBlock - Len(j.entries)
      Released(w) == IF unused = 0 THEN w
                     ELSE AdjustSlabJournalBlockReference(w, j.tail, -unused)
  IN Then([Then(z, Released) EXCEPT
             !.storage.journal[SlotOf(j.tail)] =
                WriteLocation(@, [sequence |-> j.tail, head |-> j.head, entries |-> j.entries]),
             !.journal.partialWriteInProgress =
                IF unused = 0 THEN @ ELSE ~BlockIsFull(j.entries, z.recovery.entries),
             !.journal.uncommittedBlocks = Append(@, j.tail),
             !.journal.tail = @ + 1,
             !.journal.entries = <<>>,
             !.journal.waitingToCommit = FALSE],
          AddEntries)

CompleteWrite(z, n) ==
  LET outstanding == SelectSeq(z.journal.uncommittedBlocks, LAMBDA k : k # n) IN
  Then([z EXCEPT
          !.storage.journal[SlotOf(n)] = CompleteLocation(@),
          !.journal.uncommittedBlocks = outstanding,
          !.journal.nextCommit = IF outstanding = <<>> THEN z.journal.tail ELSE Head(outstanding)],
       UpdateTailBlockLocation)

\* The summary refers to every block before "summarized": release the locks
\* those blocks have on the recovery journal and their own commit locks.
ReleaseBlockLock(z, n) ==
  Then([z EXCEPT !.journal.recoveryLocks = @ \ {n}],
       LAMBDA w : AdjustSlabJournalBlockReference(w, n, -1))

ReleaseJournalLocks(z) ==
  LET partialDone == z.journal.partialWriteInProgress /\ z.journal.summarized = z.journal.tail
      first == z.journal.lastSummarized
      last == z.journal.summarized - 1
      Release(x, n) == Then(x, LAMBDA w : ReleaseBlockLock(w, n))
      Continued(w) == IF partialDone THEN AddEntries(w) ELSE w
      Released(w) == FoldLeft(Release, [w EXCEPT !.journal.lastSummarized = last + 1],
                              [i \in 1 .. (last - first + 1) |-> last + 1 - i])
      Updated(w) == Then([w EXCEPT !.journal.updatingSlabSummary = FALSE], ReapSlabJournal)
  IN Then(Then(Then(Then(
       [z EXCEPT !.journal.partialWriteInProgress = @ /\ ~partialDone],
       Continued), Released), Updated), UpdateTailBlockLocation)

FinishSummaryUpdate(z) ==
  Then([z EXCEPT !.refCounts.updatingSlabSummary = FALSE], RefCountsCheckForDrainComplete)

FinishUpdate(z) ==
  LET Notify(x, waiter) == 
        IF waiter = "journal" THEN Then(x, ReleaseJournalLocks) ELSE Then(x, FinishSummaryUpdate)
      Notified(w) == FoldLeft(Notify, w, z.summary.currentUpdateWaiters)
  IN Then([Then([z EXCEPT !.storage.entry = CompleteLocation(@),
                          !.summary.currentUpdateWaiters = <<>>], Notified)
             EXCEPT !.summary.writing = FALSE],
          LAMBDA w : IF w.summary.nextUpdateWaiters = <<>> THEN w ELSE LaunchWrite(w))

\* Mutant: a reference block is written without a flush.
WriteReferenceBlockUnflushed(z, b) ==
  LET block == z.refCounts.block[b]
      packed == [s \in Sectors |-> [commitPoint |-> z.refCounts.slabJournalPoint,
                                    count       |-> block.counters[s]]]
  IN [z EXCEPT !.refCounts.block[b].writing = "writing",
               !.refCounts.block[b].isDirty = FALSE,
               !.refCounts.block[b].slabJournalLockToRelease = block.slabJournalLock,
               !.storage.counts[b] = WriteLocation(@, packed)]

\* A VIO for a reference block: every sector is stamped with the point of the
\* last update of the slab, and the block is clean from here on.
WriteReferenceBlock(z, b) ==
  LET block == z.refCounts.block[b]
      packed == [s \in Sectors |-> [commitPoint |-> z.refCounts.slabJournalPoint,
                                    count       |-> block.counters[s]]]
      f == Flush(z)
  IN [f EXCEPT !.refCounts.block[b].writing = "writing",
               !.refCounts.block[b].isDirty = FALSE,
               !.refCounts.block[b].slabJournalLockToRelease = block.slabJournalLock,
               !.storage.counts[b] = WriteLocation(@, packed)]

FinishReferenceBlockWrite(z, b) ==
  LET Released(w) == AdjustSlabJournalBlockReference(
                       w, z.refCounts.block[b].slabJournalLockToRelease, -1)
      Requeued(w) == IF IsSlabDraining(w) THEN SaveDirtyReferenceBlocks(w) ELSE w
      Cleaned(w) ==
        IF w.refCounts.block[b].isDirty
        THEN Then([w EXCEPT !.refCounts.dirtyBlocks = Append(@, b)], Requeued)
        ELSE IF IsRefCountsActive(w) \/ w.refCounts.dirtyBlocks # <<>> THEN w
        ELSE UpdateSlabSummaryAsClean(w)
  IN Then([Then([z EXCEPT !.storage.counts[b] = CompleteLocation(@)], Released)
             EXCEPT !.refCounts.block[b].writing = "no",
                    !.refCounts.block[b].slabJournalLockToRelease = 0],
          Cleaned)

FlushForReaping(z) == [Flush(z) EXCEPT !.journal.flush = "flushing"]

\* Reap again, in case a reap was deferred because of this one.
CompleteReaping(z) ==
  Then(Then([z EXCEPT !.journal.flush = "no"], FinishReaping), ReapSlabJournal)

\* Mutant: a save does not write the tail block.
DrainWithoutCommit(z, operation) ==
  Then([z EXCEPT !.slab.state = operation,
                 !.slab.status = IF operation = "SCRUBBING" THEN "REBUILDING" ELSE @],
       CheckForDrainComplete)

DrainSlab(z, operation) ==
  LET Committed(w) == IF operation \in {"SUSPENDING", "SAVE_FOR_SCRUBBING"} THEN w
                      ELSE CommitSlabJournalTail(w)
  IN Then(Then([z EXCEPT !.slab.state = operation,
                         !.slab.status = IF operation = "SCRUBBING" THEN "REBUILDING" ELSE @],
               Committed),
          CheckForDrainComplete)

\* Write the tail block if it holds the oldest lock on the recovery journal.
ReleaseRecoveryJournalLock(z, recoveryLock) ==
  IF recoveryLock = z.journal.recoveryLock THEN CommitSlabJournalTail(z) ELSE z

AddSlabJournalEntry(z, i) ==
  Then([z EXCEPT !.journal.entryWaiters = Append(@, i)], AddEntries)

(***************************************************************************)
(* Recovery from what a crash left on storage.                             *)
(***************************************************************************)
NoBlock == [sequence |-> 0, head |-> 0, entries |-> <<>>]
NoCounts == [s \in Sectors |-> [commitPoint |-> <<0, 0>>, count |-> 0]]

\* decodeSlabJournal: find the tail block that the summary refers to.
DecodeSlabJournal(entry, blocks) ==
  LET tailBlock == blocks[IF entry.offset = 0 THEN Size - 1 ELSE entry.offset - 1] IN
  IF (entry.offset = 0 /\ ~entry.loadRefCounts) \/ tailBlock.sequence = 0
  THEN [head |-> 1, tail |-> 1, entries |-> <<>>, recoveryPoint |-> 0, blocks |-> blocks]
  ELSE [head |-> IF entry.isDirty THEN tailBlock.head ELSE tailBlock.sequence + 1,
        tail |-> tailBlock.sequence + 1, entries |-> <<>>,
        recoveryPoint |-> Last(tailBlock.entries), blocks |-> blocks]

CommitReplayedBlock(x) ==
  IF x.entries = <<>> THEN x
  ELSE [x EXCEPT !.blocks[SlotOf(x.tail)] =
                   [sequence |-> x.tail, head |-> x.head, entries |-> x.entries],
                 !.tail = @ + 1, !.entries = <<>>]

AttemptReplayIntoSlabJournal(x, i, log) ==
  LET y == IF /\ Len(x.entries) >= FullEntriesPerBlock
              /\ HasBlockMapIncrements(x.entries, log) \/ log[i].blockMap
           THEN CommitReplayedBlock(x) ELSE x
      z == [y EXCEPT !.head = IF y.tail - y.head >= Size THEN @ + 1 ELSE @,
                     !.entries = Append(@, i)]
  IN IF i <= x.recoveryPoint THEN x
     ELSE IF BlockIsFull(z.entries, log) THEN CommitReplayedBlock(z) ELSE z

\* Replay what the recovery journal still has, commit the last block, and
\* refer to it in the summary.
RecoverSlabJournal(entry, blocks, log, first) ==
  LET decoded == DecodeSlabJournal(entry, blocks)
      Replay(x, i) == AttemptReplayIntoSlabJournal(x, i, log)
      x == CommitReplayedBlock(
             FoldLeft(Replay, decoded, [k \in 1 .. (Len(log) + 1 - first) |-> first + k - 1]))
  IN [head |-> x.head, tail |-> x.tail, blocks |-> x.blocks,
      entry |-> IF x.tail = decoded.tail THEN entry
                ELSE [offset |-> SlotOf(x.tail), isDirty |-> TRUE,
                      loadRefCounts |-> entry.loadRefCounts \/ x.head > 1]]

\* applyJournalEntries: the blocks from the head named in the last one.  It
\* fails if a block is not the one expected, or if the counts turn out to be
\* ahead of the journal.  The point of the counts is that of the last entry
\* that was not skipped.
ApplyJournalEntries(blocks, tail, counts, log) ==
  LET block(n) == blocks[SlotOf(n)]
      first == block(tail - 1).head
      points == {p \in (first .. (tail - 1)) \X (0 .. (EntriesPerBlock - 1)) :
                   p[2] < Len(block(p[1]).entries)}
      sbnAt(p) == log[block(p[1]).entries[p[2] + 1]].sbn
      loaded == LatestPoint({counts[sbn[1]][sbn[2]].commitPoint : sbn \in SBNs})
      valid == /\ \A n \in first .. (tail - 1) : block(n).sequence = n
               /\ ~BeforeJournalPoint(<<tail - 1, Len(block(tail - 1).entries) - 1>>, loaded)
      applied == {p \in points : BeforeJournalPoint(
                                   counts[sbnAt(p)[1]][sbnAt(p)[2]].commitPoint, p)}
  IN IF ~valid THEN [valid |-> FALSE]
     ELSE [valid    |-> TRUE,
           point    |-> IF applied = {} THEN loaded ELSE LatestPoint(applied),
           dirty    |-> {sbnAt(p)[1] : p \in applied},
           counters |-> [b \in RefBlocks |-> [s \in Sectors |->
              counts[b][s].count + Cardinality({p \in applied : sbnAt(p) = <<b, s>>})]]]

LoadedCounts(entry, counts) ==
  IF entry.loadRefCounts THEN counts ELSE [b \in RefBlocks |-> NoCounts]

\* A torn write leaves some sectors of a reference block old.
TornBlocks(loc) == [Sectors -> AfterCrash(loc)]
CountsAfterCrash(d) ==
  LET choices == {f \in [RefBlocks -> UNION {TornBlocks(d.counts[b]) : b \in RefBlocks}] :
                    \A b \in RefBlocks : f[b] \in TornBlocks(d.counts[b])}
  IN {[b \in RefBlocks |-> [s \in Sectors |-> f[b][s][s]]] : f \in choices}
JournalAfterCrash(d) ==
  {f \in [Slots -> UNION {AfterCrash(d.journal[s]) : s \in Slots}] :
     \A s \in Slots : f[s] \in AfterCrash(d.journal[s])}

(***************************************************************************)
(* The specification.                                                      *)
(***************************************************************************)
Zone == [journal |-> journal, refCounts |-> refCounts, summary |-> summary,
         slab |-> slab, storage |-> storage, recovery |-> recovery]

ZoneBecomes(result) ==
  \E z \in {result} :
    /\ journal' = z.journal /\ refCounts' = z.refCounts /\ summary' = z.summary
    /\ slab' = z.slab /\ storage' = z.storage /\ recovery' = z.recovery

\* initializeJournalState
JournalFrom(head, tail) ==
  [head |-> head, unreapable |-> head, tail |-> tail, nextCommit |-> tail,
   summarized |-> tail, lastSummarized |-> tail, entries |-> <<>>, entryWaiters |-> <<>>,
   uncommittedBlocks |-> <<>>, waitingToCommit |-> FALSE, updatingSlabSummary |-> FALSE,
   partialWriteInProgress |-> FALSE, addingEntries |-> FALSE, flush |-> "no",
   recoveryLock |-> 0, recoveryLocks |-> {},
   lock |-> [s \in Slots |-> [count |-> 0, recoveryStart |-> 0]]]

EmptyRefCounts ==
  [block |-> [b \in RefBlocks |-> [isDirty |-> FALSE, writing |-> "no", slabJournalLock |-> 0,
                                   slabJournalLockToRelease |-> 0,
                                   counters |-> [s \in Sectors |-> 0]]],
   dirtyBlocks |-> <<>>, slabJournalPoint |-> <<0, 0>>, updatingSlabSummary |-> FALSE]

SummaryFrom(entry) ==
  [entry |-> entry, writing |-> FALSE, currentUpdateWaiters |-> <<>>, nextUpdateWaiters |-> <<>>]

\* A new slab: nothing was ever written, so its reference blocks hold
\* anything (-1 stands for a count nobody wrote).
Init ==
  LET entry == [offset |-> 0, loadRefCounts |-> FALSE, isDirty |-> FALSE] IN
  /\ scenario \in Scenarios
  /\ journal = JournalFrom(1, 1)
  /\ refCounts = EmptyRefCounts
  /\ summary = SummaryFrom(entry)
  /\ slab = [status |-> "REBUILT", state |-> "NORMAL", scrubber |-> "idle", online |-> TRUE]
  /\ storage = [entry   |-> Location(entry),
                journal |-> [s \in Slots |-> Location(NoBlock)],
                counts  |-> [b \in RefBlocks |-> Location(
                               [s \in Sectors |-> [commitPoint |-> <<0, 0>>, count |-> -1]])]]
  /\ recovery = [entries |-> <<>>, stable |-> 0, head |-> 1]
  /\ crashes = 0

AddEntryToJournals(sbn, blockMap) ==
  LET n == Len(recovery.entries) + 1
      logged == [Zone EXCEPT !.recovery.entries = Append(@, [sbn |-> sbn, blockMap |-> blockMap])]
  IN /\ n <= MaxEntries
     /\ Len(journal.entryWaiters) < MaxVIOs
     /\ IsSlabOpen(Zone) /\ slab.online
     /\ ZoneBecomes(AddSlabJournalEntry(logged, n))
     /\ UNCHANGED <<crashes, scenario>>

WriteTailBlock ==
  /\ journal.waitingToCommit
  /\ ZoneBecomes(WriteSlabJournalBlock(Zone))
  /\ UNCHANGED <<crashes, scenario>>

TailBlockWritten(n) ==
  /\ n \in Range(journal.uncommittedBlocks)
  /\ ZoneBecomes(CompleteWrite(Zone, n))
  /\ UNCHANGED <<crashes, scenario>>

SummaryWritten ==
  /\ summary.writing
  /\ ZoneBecomes(FinishUpdate(Zone))
  /\ UNCHANGED <<crashes, scenario>>

WriteRefBlock(b) ==
  /\ refCounts.block[b].writing = "waiting"
  /\ ZoneBecomes(WriteReferenceBlock(Zone, b))
  /\ UNCHANGED <<crashes, scenario>>

RefBlockWritten(b) ==
  /\ refCounts.block[b].writing = "writing"
  /\ ZoneBecomes(FinishReferenceBlockWrite(Zone, b))
  /\ UNCHANGED <<crashes, scenario>>

StartReapFlush ==
  /\ journal.flush = "waiting"
  /\ ZoneBecomes(FlushForReaping(Zone))
  /\ UNCHANGED <<crashes, scenario>>

ReapFlushed ==
  /\ journal.flush = "flushing"
  /\ ZoneBecomes(CompleteReaping(Zone))
  /\ UNCHANGED <<crashes, scenario>>

\* The oldest entry that the recovery journal must keep for this slab.
OldestLockedEntry ==
  Min({Len(recovery.entries) + 1} \cup Range(journal.entryWaiters)
      \cup {journal.lock[SlotOf(n)].recoveryStart : n \in journal.recoveryLocks})

\* The recovery journal reaps up to there, after a flush.
ReapRecoveryJournal ==
  /\ recovery.head < OldestLockedEntry
  /\ ZoneBecomes([Flush(Zone) EXCEPT !.recovery.head = OldestLockedEntry])
  /\ UNCHANGED <<crashes, scenario>>

\* The recovery journal runs out of space and asks for its oldest lock: a
\* default action of the depot's action manager, so not while the depot drains.
ReleaseTailBlockLock ==
  /\ slab.state \notin AdminOperations \union {"SUSPENDED", "SAVED"}
  /\ journal.recoveryLock > 0
  /\ recovery.head = journal.recoveryLock
  /\ ZoneBecomes(ReleaseRecoveryJournalLock(Zone, recovery.head))
  /\ UNCHANGED <<crashes, scenario>>

\* The depot drains once the data VIOs are done and the scrubber has stopped.
Drain(operation) ==
  /\ slab.state = "NORMAL" /\ slab.scrubber = "idle" /\ journal.entryWaiters = <<>>
  /\ IsRefCountsActive(Zone) => DrainWhileWriting
  /\ ZoneBecomes(DrainSlab(Zone, operation))
  /\ UNCHANGED <<crashes, scenario>>

ResumeSlab ==
  /\ slab.state \in {"SUSPENDED", "SAVED"}
  /\ slab' = [slab EXCEPT !.state = "NORMAL"]
  /\ UNCHANGED <<journal, refCounts, summary, storage, recovery, crashes, scenario>>

(* The slab scrubber. *)

ScrubSlab ==
  /\ slab.status = "REQUIRES_SCRUBBING" /\ slab.state = "NORMAL"
  /\ ZoneBecomes(DrainSlab([Zone EXCEPT !.slab.scrubber = "draining"], "SCRUBBING"))
  /\ UNCHANGED <<crashes, scenario>>

\* finishScrubbingSlab, reopenSlabJournal
SlabScrubbed(z) ==
  Then([z EXCEPT !.slab.status = "REBUILT", !.slab.scrubber = "idle", !.slab.online = TRUE,
                 !.journal = [JournalFrom(@.tail, @.tail) EXCEPT
                                !.entryWaiters = z.journal.entryWaiters,
                                !.lock = z.journal.lock]],
       AddEntries)

\* Mark what the entries changed as dirty, and save the slab.
SaveScrubbed(z, result) ==
  LET Dirtied(w) == DirtyBlocks(w, result.dirty)
      Saved(w) == DrainSlab(w, "SAVE_FOR_SCRUBBING")
  IN Then(Then([z EXCEPT
       !.slab.scrubber = "saving",
       !.refCounts.slabJournalPoint = result.point,
       !.refCounts.block = [b \in RefBlocks |-> [@[b] EXCEPT !.counters = result.counters[b]]]],
       Dirtied), Saved)

StartScrubbing ==
  LET result == ApplyJournalEntries([s \in Slots |-> Current(storage.journal[s])],
                  journal.tail,
                  LoadedCounts(summary.entry, [b \in RefBlocks |-> Current(storage.counts[b])]),
                  recovery.entries)
  IN /\ slab.scrubber = "startScrubbing"
     /\ ZoneBecomes(IF ~summary.entry.isDirty THEN SlabScrubbed(Zone)
                    ELSE IF result.valid THEN SaveScrubbed(Zone, result)
                    ELSE [Zone EXCEPT !.slab.scrubber = "aborted"])
     /\ UNCHANGED <<crashes, scenario>>

FinishScrubbing ==
  /\ slab.scrubber = "slabScrubbed"
  /\ ZoneBecomes(SlabScrubbed(Zone))
  /\ UNCHANGED <<crashes, scenario>>

\* prepareSlabsForAllocation, after a crash: a slab whose journal is nearly
\* full is scrubbed before the VDO goes online.
RequiresScrubbing(found) == found.tail - found.head >= ScrubbingThreshold

\* A crash, and the recovery of the slab journal: it ends with the slab's
\* journal and summary entry stable and the recovery journal empty.
Crash ==
  \E entry \in AfterCrash(storage.entry), blocks \in JournalAfterCrash(storage),
     counts \in CountsAfterCrash(storage), r \in recovery.stable .. Len(recovery.entries) :
    LET log == SubSeq(recovery.entries, 1, r)
        found == RecoverSlabJournal(entry, blocks, log, recovery.head)
        new == ~found.entry.loadRefCounts /\ ~found.entry.isDirty
    IN /\ crashes < MaxCrashes
       /\ crashes' = crashes + 1
       /\ journal' = JournalFrom(found.head, found.tail)
       /\ refCounts' = EmptyRefCounts
       /\ summary' = SummaryFrom(found.entry)
       /\ slab' = [status |-> IF new THEN "REBUILT" ELSE "REQUIRES_SCRUBBING",
                   state |-> "NORMAL", scrubber |-> "idle",
                   online |-> new \/ ~RequiresScrubbing(found)]
       /\ storage' = [entry   |-> Location(found.entry),
                      journal |-> [s \in Slots |-> Location(found.blocks[s])],
                      counts  |-> [b \in RefBlocks |-> Location(counts[b])]]
       /\ recovery' = [entries |-> log, stable |-> r, head |-> r + 1]
       /\ UNCHANGED scenario

Next ==
  \/ \E sbn \in SBNs, blockMap \in EntryKinds : AddEntryToJournals(sbn, blockMap)
  \/ WriteTailBlock
  \/ \E n \in Range(journal.uncommittedBlocks) : TailBlockWritten(n)
  \/ SummaryWritten
  \/ \E b \in RefBlocks : WriteRefBlock(b) \/ RefBlockWritten(b)
  \/ StartReapFlush
  \/ ReapFlushed
  \/ ReapRecoveryJournal
  \/ ReleaseTailBlockLock
  \/ \E operation \in AdminOperations : Drain(operation)
  \/ ResumeSlab
  \/ ScrubSlab
  \/ StartScrubbing
  \/ FinishScrubbing
  \/ Crash

Spec == Init /\ [][Next]_vars

\* I/O completes, VIOs come free, the scrubber runs and a drained slab resumes.
Progress ==
  \/ WriteTailBlock \/ SummaryWritten \/ StartReapFlush \/ ReapFlushed
  \/ \E n \in Range(journal.uncommittedBlocks) : TailBlockWritten(n)
  \/ \E b \in RefBlocks : WriteRefBlock(b) \/ RefBlockWritten(b)
  \/ ResumeSlab \/ ScrubSlab \/ StartScrubbing \/ FinishScrubbing

(***************************************************************************)
(* Properties.                                                             *)
(***************************************************************************)

\* Every field has its type; the positions of the journal are in order.
TypeOK ==
  LET j == journal
      Location_(values) == [durable : values, cached : SUBSET values, inFlight : SUBSET values]
      Entry == [offset : Slots, loadRefCounts : BOOLEAN, isDirty : BOOLEAN]
  IN /\ 1 <= j.head /\ j.head <= j.unreapable /\ j.unreapable <= j.tail
     /\ j.lastSummarized <= j.summarized /\ j.summarized <= j.nextCommit
     /\ j.nextCommit <= j.tail
     /\ \A s \in Slots : j.lock[s].count \in Nat
     /\ ~j.addingEntries
     /\ j.flush \in {"no", "waiting", "flushing"}
     /\ refCounts.block \in [RefBlocks -> [isDirty : BOOLEAN,
                             writing : {"no", "waiting", "writing"},
                             slabJournalLock : Nat, slabJournalLockToRelease : Nat,
                             counters : [Sectors -> 0 .. MaxEntries]]]
     /\ Range(refCounts.dirtyBlocks) \subseteq RefBlocks
     /\ summary.entry \in Entry /\ storage.entry \in Location_(Entry)
     /\ slab.status \in {"REBUILT", "REQUIRES_SCRUBBING", "REBUILDING"}
     /\ recovery.stable \in 0 .. Len(recovery.entries)

\* The counts that the first r entries of the recovery journal amount to.
TrueCounts(r) ==
  [b \in RefBlocks |-> [s \in Sectors |->
     Cardinality({i \in 1 .. r : recovery.entries[i].sbn = <<b, s>>})]]

\* What recovery and scrubbing would make of one way storage can look after a crash.
RecoveredCounts(entry, blocks, counts, r) ==
  LET log == SubSeq(recovery.entries, 1, r)
      found == RecoverSlabJournal(entry, blocks, log, recovery.head)
      loaded == LoadedCounts(found.entry, counts)
      result == ApplyJournalEntries(found.blocks, found.tail, loaded, log)
  IN IF ~found.entry.isDirty
     THEN [b \in RefBlocks |-> [s \in Sectors |-> loaded[b][s].count]]
     ELSE IF result.valid THEN result.counters ELSE <<>>

\* A crash at any moment loses no reference count update and repeats none:
\* whichever unflushed writes survive, the slab journal the summary refers
\* to, the entries the recovery journal still holds and the reference blocks,
\* torn or not, add up to exactly the entries that are in the recovery journal
\* (flushForReaping, writeReferenceBlock, launchWrite, releaseJournalLocks,
\* attemptReplayIntoSlabJournal, replayReferenceCountChange).
CrashLosesNoUpdate ==
  \A entry \in AfterCrash(storage.entry), blocks \in JournalAfterCrash(storage),
     counts \in CountsAfterCrash(storage), r \in recovery.stable .. Len(recovery.entries) :
    RecoveredCounts(entry, blocks, counts, r) = TrueCounts(r)

\* When a save is finished nothing is left to write, and what a reload makes
\* of storage, with no help of the recovery journal, are the counts in memory:
\* read as they are if the summary says that the slab is clean, else scrubbed
\* (updateTailBlockLocation can leave a saved slab marked dirty).
SaveIsComplete ==
  (slab.state = "SAVED" /\ slab.status = "REBUILT") =>
     /\ journal.entries = <<>> /\ ~summary.writing
     /\ LET entry == Current(storage.entry)
            blocks == [s \in Slots |-> Current(storage.journal[s])]
            counts == [b \in RefBlocks |-> Current(storage.counts[b])]
            loaded == LoadedCounts(entry, counts)
            scrubbed == ApplyJournalEntries(blocks, journal.tail, loaded, recovery.entries)
        IN /\ DecodeSlabJournal(entry, blocks).tail = journal.tail
           /\ entry.isDirty => scrubbed.valid
           /\ \A b \in RefBlocks, s \in Sectors :
                refCounts.block[b].counters[s] = IF entry.isDirty THEN scrubbed.counters[b][s]
                                                 ELSE loaded[b][s].count

\* Once a slab has drained it has no I/O under way (doDrainStep's assertion
\* "VIO Pool not busy").  This does not hold with drainWhileWriting (see the
\* README) and no run checks it.
DrainedSlabIsIdle ==
  slab.state \in {"SUSPENDED", "SAVED"} =>
     /\ journal.uncommittedBlocks = <<>> /\ ~journal.waitingToCommit
     /\ journal.flush = "no"
     /\ \A b \in RefBlocks : refCounts.block[b].writing = "no"

====
