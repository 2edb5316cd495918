-------------------------- MODULE RecoveryJournal --------------------------
(***************************************************************************)
(* The recovery journal (recoveryJournal.c, recoveryJournalBlock.c): how   *)
(* DataVIOs get entries in the tail blocks, how those blocks are written,  *)
(* acknowledged out of order and recycled, how the on-disk blocks are      *)
(* reaped, and how all of this stops when the journal is drained or goes   *)
(* read-only.                                                              *)
(*                                                                         *)
(* Everything here runs on the journal thread.  A handler that loops or    *)
(* calls another function of the journal is a stack of pending calls; no   *)
(* other handler starts before the stack is empty, while the other zones   *)
(* may release locks between any two steps.  Locks are counted as in       *)
(* LockCounter, with the three counts of a block read in one step.         *)
(***************************************************************************)
EXTENDS Integers, Sequences, Functions

CONSTANTS
  DataVIOs,
  Size,             \* blocks of the on-disk journal
  TailBlocks,       \* in-memory tail blocks
  Scenarios         \* the journals and surroundings to consider

ErrorKinds == {"write", "flush", "other"}
DrainOperations == {"suspending", "saving"}

ASSUME RecoveryJournalConstants ==
  /\ Size \in Nat \ {0}
  /\ TailBlocks \in Nat \ {0}
  /\ \A s \in Scenarios :
       /\ s.writers \subseteq DataVIOs
       /\ s.entriesPerBlock \in Nat \ {0}
       /\ s.flushRequired \in BOOLEAN
       /\ s.errors \subseteq ErrorKinds
       /\ s.adminOperations \subseteq DrainOperations
       /\ s.maxSequence \in Nat

VARIABLES
  \* struct recoveryJournal
  incrementWaiters, decrementWaiters,
  blocks,                 \* activeTailBlocks, oldest first
  activeBlock,            \* whether the newest of them is journal->activeBlock
  tail,
  head, reapHead,         \* block map and slab journal (reap) heads, by type
  lastWriteAcknowledged,
  availableSpace, pendingDecrementCount,
  commitPoint,
  reaping,                \* the flush before the heads advance is in flight
  state,                  \* the admin state
  readOnly,               \* why this thread is read-only, "no" if it is not
  notified,               \* the read-only listener of the journal has run
  \* the lock counter
  notifying, journalLocks, zoneLocks,
  \* the journal thread
  calls,                  \* the calls its handler still has to make
  written,                \* the block whose write the handler completes
  \* its surroundings
  vio,
  recordedHead,           \* history: the head recovery is sure to find on disk
  scenario                \* which of Scenarios this is, never changed

spaceVars == <<tail, head, reapHead, lastWriteAcknowledged, availableSpace,
               pendingDecrementCount, reaping>>
queueVars == <<incrementWaiters, decrementWaiters>>
modeVars == <<state, readOnly, notified>>
lockVars == <<notifying, journalLocks, zoneLocks>>
vars == <<queueVars, blocks, activeBlock, spaceVars, commitPoint, modeVars,
          lockVars, calls, written, vio, recordedHead, scenario>>

Writers == scenario.writers                  \* the DataVIOs that write
EntriesPerBlock == scenario.entriesPerBlock
FlushRequired == scenario.flushRequired      \* layer->isFlushRequired()
Errors == scenario.errors                    \* the failures that may happen
AdminOperations == scenario.adminOperations  \* the drains that may happen
MaxSequence == scenario.maxSequence          \* bound: no increment is added
                                             \* once tail exceeds it

HeadTypes == {"blockMap", "slabJournal"}
Locks == 0 .. Size - 1
Increments == {"DATA_INCREMENT", "BLOCK_MAP_INCREMENT"}
Operations == Increments \cup {"DATA_DECREMENT"}
CallNames == {"assign", "notify", "complete", "rewrite", "drain", "reap"}
Points == [sequenceNumber : Nat, entryCount : Nat]
BlockType == [sequenceNumber : Nat, entryCount : 0 .. EntriesPerBlock,
              entriesInCommit : Nat, committing : BOOLEAN, heads : Nat,
              entryWaiters : Seq(DataVIOs), commitWaiters : Seq(DataVIOs)]

TypeOK ==
  /\ incrementWaiters \in Seq(DataVIOs) /\ decrementWaiters \in Seq(DataVIOs)
  /\ blocks \in Seq(BlockType)
  /\ activeBlock \in BOOLEAN
  /\ tail \in Nat
  /\ head \in [HeadTypes -> Nat] /\ reapHead \in [HeadTypes -> Nat]
  /\ lastWriteAcknowledged \in Nat
  /\ availableSpace \in Nat /\ pendingDecrementCount \in Nat
  /\ commitPoint \in Points
  /\ reaping \in BOOLEAN
  /\ state \in {"normal", "suspending", "saving", "suspended", "saved"}
  /\ readOnly \in {"no", "full"} \cup ErrorKinds
  /\ notified \in BOOLEAN
  /\ notifying \in BOOLEAN
  /\ journalLocks \in [Locks -> Nat]
  /\ zoneLocks \in [HeadTypes -> SUBSET Locks]
  /\ calls \in Seq(CallNames) /\ written \in Nat
  /\ vio \in [DataVIOs ->
       [state : {"ready", "journal", "committed", "referenced", "aborted"},
        operation : Operations, point : Points, lock : Nat]]
  /\ recordedHead \in Nat
  /\ scenario \in Scenarios

-----------------------------------------------------------------------------
(* Helpers.                                                                *)

Minimum(a, b) == IF a <= b THEN a ELSE b
LockOf(sequence) == sequence % Size
isReadOnly == readOnly # "no"
isDraining == state \in {"suspending", "saving"}
isFull(b) == b.entryCount = EntriesPerBlock
isDirty(b) == Len(b.entryWaiters) + b.entriesInCommit > 0
hasWaiters(b) == b.entryWaiters # <<>> \/ b.commitWaiters # <<>>
Newest == blocks[Len(blocks)]
ActiveIsFull == activeBlock => isFull(Newest)

getRecoveryJournalHead(heads) ==
  Minimum(heads["blockMap"], heads["slabJournal"])

(* The blocks that may hold entries: a quarter, but at most 8, are reserved. *)
getRecoveryJournalLength == Size - Minimum(Size \div 4, 8)

NewVIO == [state |-> "ready", operation |-> "DATA_DECREMENT", lock |-> 0,
           point |-> [sequenceNumber |-> 0, entryCount |-> 0]]

(* initializeRecoveryBlock() *)
NewBlock == [sequenceNumber |-> tail, entryCount |-> 0, entriesInCommit |-> 0,
             committing |-> FALSE, heads |-> 0,
             entryWaiters |-> <<>>, commitWaiters |-> <<>>]

(* A partial block is written only when no other write is in flight.       *)
shouldCommit(bs, i) ==
  /\ i > 0
  /\ ~bs[i].committing
  /\ bs[i].entryWaiters # <<>>
  /\ ~isReadOnly
  /\ isFull(bs[i]) \/ \A j \in DOMAIN bs : ~bs[j].committing

(* writeBlock(), commitRecoveryBlock(), addQueuedRecoveryEntries(): block i *)
(* of bs, if it should be committed, with the heads of this moment.        *)
writeBlock(bs, i) ==
  IF shouldCommit(bs, i)
  THEN [bs EXCEPT ![i] =
         [sequenceNumber |-> bs[i].sequenceNumber,
          entryCount |-> bs[i].entryCount,
          entriesInCommit |-> Len(bs[i].entryWaiters),
          committing |-> TRUE,
          heads |-> getRecoveryJournalHead(head),
          entryWaiters |-> <<>>,
          commitWaiters |-> bs[i].commitWaiters \o bs[i].entryWaiters]]
  ELSE bs

(* The index of journal->activeBlock in bs, 0 for NULL.                    *)
ActiveIndex(bs, active) == IF active THEN Len(bs) ELSE 0

(* The waiters of each of the blocks bs in the order notifyCommitWaiters() *)
(* releases them, those that have not been written included.               *)
WaitersOf(bs) == [i \in DOMAIN bs |-> bs[i].commitWaiters \o bs[i].entryWaiters]

(* continueCommittedWaiter() for each of the queues ws, in order.  The     *)
(* recoverySequenceNumber of an increment is its lock on the block.        *)
continueCommittedWaiters(ws) ==
  [v \in DataVIOs |->
     IF \E i \in DOMAIN ws : v \in Range(ws[i])
     THEN [vio[v] EXCEPT
             !.state = IF isReadOnly THEN "aborted" ELSE "committed",
             !.lock = IF vio[v].operation \in Increments
                      THEN vio[v].point.sequenceNumber ELSE @]
     ELSE vio[v]]

LastPoint(ws) ==
  LET last == {i \in DOMAIN ws : /\ ws[i] # <<>>
                                 /\ \A j \in DOMAIN ws : j > i => ws[j] = <<>>}
  IN  IF last = {} THEN commitPoint
      ELSE LET w == ws[CHOOSE i \in last : TRUE] IN vio[w[Len(w)]].point

(* releaseJournalZoneReference() of every block in the set recycled.       *)
releaseJournalLocks(recycled) ==
  LET released == {LockOf(b.sequenceNumber) :
                     b \in {r \in recycled : r.entryCount > 0}}
  IN  /\ journalLocks' = [l \in Locks |-> IF l \in released
                                          THEN journalLocks[l] - 1
                                          ELSE journalLocks[l]]
      /\ notifying' = (notifying \/ \E l \in released : journalLocks[l] = 1)
      /\ UNCHANGED zoneLocks

isLocked(sequence, type) ==
  \/ journalLocks[LockOf(sequence)] # 0
  \/ LockOf(sequence) \in zoneLocks[type]

Calling(name) == calls # <<>> /\ Head(calls) = name
Idle == calls = <<>>
Return == calls' = Tail(calls)
TailCall(names) == calls' = names \o Tail(calls)

-----------------------------------------------------------------------------
(* Making entries.                                                         *)

Enqueue(v, operation) ==
  IF state # "normal" \/ isReadOnly
  THEN /\ vio' = [vio EXCEPT ![v].state = "aborted"]
       /\ UNCHANGED <<queueVars, calls>>
  ELSE /\ vio' = [vio EXCEPT ![v] = [@ EXCEPT !.state = "journal",
                                             !.operation = operation]]
       /\ incrementWaiters' = IF operation \in Increments
                              THEN Append(incrementWaiters, v)
                              ELSE incrementWaiters
       /\ decrementWaiters' = IF operation \in Increments
                              THEN decrementWaiters
                              ELSE Append(decrementWaiters, v)
       /\ calls' = <<"assign">>

(* addRecoveryJournalEntry() by a DataVIO that starts a write, or that has *)
(* to allocate a block map page first.                                     *)
AddIncrement(v, operation) ==
  /\ Idle /\ tail <= MaxSequence
  /\ vio[v].state = "ready"
  /\ Enqueue(v, operation)
  /\ UNCHANGED <<blocks, activeBlock, spaceVars, commitPoint, modeVars,
                 lockVars, written, recordedHead, scenario>>

(* Every data increment is followed by a decrement of the old mapping.     *)
AddDecrement(v) ==
  /\ Idle
  /\ vio[v].state = "referenced" /\ vio[v].operation = "DATA_INCREMENT"
  /\ Enqueue(v, "DATA_DECREMENT")
  /\ UNCHANGED <<blocks, activeBlock, spaceVars, commitPoint, modeVars,
                 lockVars, written, recordedHead, scenario>>

checkForEntrySpace_NoPromise(increment) ==
  availableSpace > IF increment THEN 1 ELSE 0

(* The subtraction is unsigned: it wraps when it would be negative.        *)
checkForEntrySpace(increment) ==
  IF increment
  THEN \/ availableSpace - pendingDecrementCount > 1
       \/ availableSpace < pendingDecrementCount
  ELSE availableSpace > 0

(* The queue assignEntries() serves: increments wait for all decrements.   *)
ServingIncrements == decrementWaiters = <<>>
Waiting == decrementWaiters # <<>> \/ incrementWaiters # <<>>
MayAssign == Waiting /\ checkForEntrySpace(ServingIncrements)
BlockUsable == /\ ~ActiveIsFull
               /\ Newest.entryCount = 0 =>
                    tail - getRecoveryJournalHead(head) <= Size

(* advanceTail() *)
AdvanceTail ==
  /\ Calling("assign") /\ MayAssign /\ ActiveIsFull
  /\ Len(blocks) < TailBlocks
  /\ blocks' = Append(blocks, NewBlock)
  /\ activeBlock' = TRUE
  /\ tail' = tail + 1
  /\ UNCHANGED <<queueVars, head, reapHead, lastWriteAcknowledged,
                 availableSpace, pendingDecrementCount, reaping, commitPoint,
                 modeVars, lockVars, calls, written, vio, recordedHead,
                 scenario>>

(* The references a new block starts with: its entries' and its own.       *)
EntryLocks == EntriesPerBlock + 1

(* prepareToAssignEntry() and assignEntry() for the first waiter.  The     *)
(* first entry of a block initializes its lock count; a decrement entry    *)
(* gives its lock up at once.  A block that becomes full is written.       *)
AssignEntry ==
  /\ Calling("assign") /\ MayAssign /\ BlockUsable
  /\ LET v == Head(IF ServingIncrements THEN incrementWaiters
                                        ELSE decrementWaiters)
         b == Newest
         lock == LockOf(b.sequenceNumber)
         locks == IF b.entryCount = 0 THEN EntryLocks ELSE journalLocks[lock]
         left == IF ServingIncrements THEN locks ELSE locks - 1
         extended == [b EXCEPT !.entryCount = @ + 1,
                               !.entryWaiters = Append(@, v)]
         bs == [blocks EXCEPT ![Len(blocks)] = extended]
     IN  /\ vio' = [vio EXCEPT ![v].point =
                      [sequenceNumber |-> b.sequenceNumber,
                       entryCount |-> b.entryCount]]
         /\ journalLocks' = [journalLocks EXCEPT ![lock] = left]
         /\ notifying' = (notifying \/ (~ServingIncrements /\ left = 0))
         /\ pendingDecrementCount' =
              IF vio[v].operation = "DATA_INCREMENT"
              THEN pendingDecrementCount + 1
              ELSE IF vio[v].operation = "DATA_DECREMENT"
              THEN pendingDecrementCount - 1
              ELSE pendingDecrementCount
         /\ blocks' = IF isFull(extended) THEN writeBlock(bs, Len(bs)) ELSE bs
  /\ IF ServingIncrements
     THEN incrementWaiters' = Tail(incrementWaiters) /\ UNCHANGED decrementWaiters
     ELSE decrementWaiters' = Tail(decrementWaiters) /\ UNCHANGED incrementWaiters
  /\ availableSpace' = availableSpace - 1
  /\ UNCHANGED <<activeBlock, tail, head, reapHead, lastWriteAcknowledged,
                 reaping, commitPoint, modeVars, zoneLocks, calls, written,
                 recordedHead, scenario>>

(* assignEntries() ends when nobody waits, or the first waiter gets no     *)
(* entry.  A decrement without space takes the VDO read-only.  Otherwise   *)
(* the partial block is written, if the last advanceTail() found one.      *)
StopAssigning ==
  /\ Calling("assign")
  /\ ~MayAssign \/ (IF ActiveIsFull THEN Len(blocks) >= TailBlocks
                                    ELSE ~BlockUsable)
  /\ IF ~MayAssign /\ ~ServingIncrements
     THEN /\ readOnly' = IF isReadOnly THEN readOnly ELSE "full"
          /\ TailCall(<<"drain">>)
          /\ UNCHANGED <<blocks, activeBlock>>
     ELSE /\ activeBlock' = (activeBlock /\ ~(MayAssign /\ ActiveIsFull))
          /\ blocks' = writeBlock(blocks, ActiveIndex(blocks, activeBlock'))
          /\ Return
          /\ UNCHANGED readOnly
  /\ UNCHANGED <<queueVars, spaceVars, commitPoint, state, notified, lockVars,
                 written, vio, recordedHead, scenario>>

-----------------------------------------------------------------------------
(* Committing tail blocks.                                                 *)

(* A write in flight succeeds; writes complete in any order.               *)
WriteDone(i) ==
  /\ Idle
  /\ blocks[i].committing
  /\ written' = blocks[i].sequenceNumber
  /\ recordedHead' = IF blocks[i].heads > recordedHead
                     THEN blocks[i].heads ELSE recordedHead
  /\ calls' = <<"complete">>
  /\ UNCHANGED <<queueVars, blocks, activeBlock, spaceVars, commitPoint,
                 modeVars, lockVars, vio, scenario>>

(* handleWriteError(): read-only mode first, then as after a success.      *)
WriteError(i) ==
  /\ Idle /\ "write" \in Errors
  /\ blocks[i].committing
  /\ written' = blocks[i].sequenceNumber
  /\ readOnly' = IF isReadOnly THEN readOnly ELSE "write"
  /\ calls' = <<"drain", "complete">>
  /\ UNCHANGED <<queueVars, blocks, activeBlock, spaceVars, commitPoint, state,
                 notified, lockVars, vio, recordedHead, scenario>>

CompleteWrite_Releases ==
  /\ Calling("complete")
  /\ LET ws == WaitersOf(SelectSeq(blocks,
                                  LAMBDA b : b.sequenceNumber = written))
     IN  vio' = continueCommittedWaiters(ws) /\ commitPoint' = LastPoint(ws)
  /\ blocks' = [i \in DOMAIN blocks |->
                  IF blocks[i].sequenceNumber = written
                  THEN [blocks[i] EXCEPT !.committing = FALSE,
                                         !.commitWaiters = <<>>,
                                         !.entriesInCommit = 0]
                  ELSE blocks[i]]
  /\ lastWriteAcknowledged' = written
  /\ TailCall(<<"notify", "rewrite">>)
  /\ UNCHANGED <<queueVars, activeBlock, tail, head, reapHead, availableSpace,
                 pendingDecrementCount, reaping, modeVars, lockVars, written,
                 recordedHead, scenario>>

(* completeWrite() *)
CompleteWrite ==
  /\ Calling("complete")
  /\ blocks' = [i \in DOMAIN blocks |->
                  IF blocks[i].sequenceNumber = written
                  THEN [blocks[i] EXCEPT !.committing = FALSE,
                                         !.entriesInCommit = 0]
                  ELSE blocks[i]]
  /\ lastWriteAcknowledged' = IF written > lastWriteAcknowledged
                              THEN written ELSE lastWriteAcknowledged
  /\ TailCall(<<"notify", "rewrite">>)
  /\ UNCHANGED <<queueVars, activeBlock, tail, head, reapHead, availableSpace,
                 pendingDecrementCount, reaping, commitPoint, modeVars,
                 lockVars, written, vio, recordedHead, scenario>>

(* How many blocks notifyCommitWaiters() gives up in read-only mode: those *)
(* before the first one whose write is still in flight.                    *)
Abandoned ==
  LET busy == {i \in DOMAIN blocks : /\ blocks[i].committing
                                     /\ \A j \in 1 .. i - 1 : ~blocks[j].committing}
  IN  IF busy = {} THEN Len(blocks) ELSE (CHOOSE i \in busy : TRUE) - 1

(* One iteration of notifyCommitWaiters(), on the oldest active block.     *)
NotifyCommitWaiters ==
  /\ Calling("notify") /\ ~isReadOnly
  /\ blocks # <<>> /\ ~Head(blocks).committing
  /\ LET b == Head(blocks)
         rest == Tail(blocks)
         recycle == ~isDirty(b) /\ isFull(b)
     IN  /\ vio' = continueCommittedWaiters(<<b.commitWaiters>>)
         /\ commitPoint' = LastPoint(<<b.commitWaiters>>)
         /\ activeBlock' = (activeBlock /\ ~(recycle /\ rest = <<>>))
         /\ releaseJournalLocks(IF recycle THEN {b} ELSE {})
         /\ IF recycle
            THEN blocks' = writeBlock(rest, ActiveIndex(rest, activeBlock'))
                 /\ UNCHANGED calls
            ELSE blocks' = [blocks EXCEPT ![1].commitWaiters = <<>>]
                 /\ Return
  /\ UNCHANGED <<queueVars, spaceVars, modeVars, written, recordedHead,
                 scenario>>

(* The loop of notifyCommitWaiters() ends at a block still being written.  *)
(* In read-only mode it first gives up all the blocks before that one.     *)
StopNotifying ==
  /\ Calling("notify")
  /\ ~isReadOnly /\ blocks # <<>> => Head(blocks).committing
  /\ LET n == IF isReadOnly THEN Abandoned ELSE 0
         given == SubSeq(blocks, 1, n)
     IN  /\ vio' = continueCommittedWaiters(WaitersOf(given))
         /\ commitPoint' = LastPoint(WaitersOf(given))
         /\ blocks' = SubSeq(blocks, n + 1, Len(blocks))
         /\ activeBlock' = (activeBlock /\ n < Len(blocks))
         /\ releaseJournalLocks(Range(given))
  /\ Return
  /\ UNCHANGED <<queueVars, spaceVars, modeVars, written, recordedHead,
                 scenario>>

(* The end of completeWrite(): entries that arrived during the write.      *)
Rewrite ==
  /\ Calling("rewrite")
  /\ LET waiting == {i \in DOMAIN blocks :
                       /\ blocks[i].sequenceNumber = written
                       /\ blocks[i].entryWaiters # <<>>}
     IN  IF waiting = {}
         THEN TailCall(<<"drain">>) /\ UNCHANGED blocks
         ELSE /\ blocks' = writeBlock(blocks, CHOOSE i \in waiting : TRUE)
              /\ Return
  /\ written' = 0
  /\ UNCHANGED <<queueVars, activeBlock, spaceVars, commitPoint, modeVars,
                 lockVars, vio, recordedHead, scenario>>

-----------------------------------------------------------------------------
(* Reaping.                                                                *)

(* Where the reap head of a type gets to: the first locked block, or the   *)
(* last one whose write has been acknowledged.                             *)
reapTo(type) ==
  LET stops == {n \in reapHead[type] .. lastWriteAcknowledged :
                  /\ n = lastWriteAcknowledged \/ isLocked(n, type)
                  /\ \A m \in reapHead[type] .. n - 1 : ~isLocked(m, type)}
  IN  IF stops = {} THEN reapHead[type] ELSE CHOOSE n \in stops : TRUE

(* finishReaping(), up to its call of assignEntries().                     *)
FinishReaping(heads) ==
  /\ head' = heads
  /\ availableSpace' = availableSpace
       + (getRecoveryJournalHead(heads) - getRecoveryJournalHead(head))
           * EntriesPerBlock
  /\ reaping' = FALSE

(* reapRecoveryJournal() *)
ReapRecoveryJournal ==
  /\ Calling("reap")
  /\ LET heads == [t \in HeadTypes |-> reapTo(t)]
     IN  IF reaping \/ heads = head
         THEN Return /\ UNCHANGED <<head, availableSpace, reaping, reapHead>>
         ELSE /\ reapHead' = heads
              /\ IF FlushRequired
                 THEN reaping' = TRUE /\ Return /\ UNCHANGED <<head, availableSpace>>
                 ELSE FinishReaping(heads) /\ TailCall(<<"assign", "drain">>)
  /\ UNCHANGED <<queueVars, blocks, activeBlock, tail, lastWriteAcknowledged,
                 pendingDecrementCount, commitPoint, modeVars, lockVars,
                 written, vio, recordedHead, scenario>>

(* reapRecoveryJournalCallback(), launched by the lock counter.            *)
ReapRecoveryJournalCallback ==
  /\ Idle /\ notifying
  /\ notifying' = FALSE
  /\ calls' = <<"reap">>
  /\ UNCHANGED <<queueVars, blocks, activeBlock, spaceVars, commitPoint,
                 modeVars, journalLocks, zoneLocks, written, vio, recordedHead,
                 scenario>>

(* completeReaping(): the flush is done.                                   *)
CompleteReaping ==
  /\ Idle /\ reaping
  /\ FinishReaping(reapHead)
  /\ calls' = <<"assign", "drain", "reap">>
  /\ UNCHANGED <<queueVars, blocks, activeBlock, tail, reapHead,
                 lastWriteAcknowledged, pendingDecrementCount, commitPoint,
                 modeVars, lockVars, written, vio, recordedHead, scenario>>

(* handleFlushError() *)
FlushError ==
  /\ Idle /\ reaping /\ "flush" \in Errors
  /\ reaping' = FALSE
  /\ readOnly' = IF isReadOnly THEN readOnly ELSE "flush"
  /\ calls' = <<"drain">>
  /\ UNCHANGED <<queueVars, blocks, activeBlock, tail, head, reapHead,
                 lastWriteAcknowledged, availableSpace, pendingDecrementCount,
                 commitPoint, state, notified, lockVars, written, vio,
                 recordedHead, scenario>>

-----------------------------------------------------------------------------
(* Draining, read-only mode and resuming.                                  *)

(* checkForDrainComplete(): in read-only mode everybody whose write is not *)
(* in flight is released first.  A save gives the active block up.         *)
CheckForDrainComplete ==
  /\ Calling("drain")
  /\ LET n == IF isReadOnly THEN Abandoned ELSE 0
         given == SubSeq(blocks, 1, n)
         rest == SubSeq(blocks, n + 1, Len(blocks))
         queued == IF isReadOnly THEN {} ELSE
                     Range(incrementWaiters) \cup Range(decrementWaiters)
         drained == /\ isDraining /\ ~reaping /\ queued = {}
                    /\ rest # <<>> => ~hasWaiters(Head(rest))
         active == activeBlock /\ rest # <<>>
         recycle == drained /\ state = "saving" /\ active
         done == continueCommittedWaiters(WaitersOf(given))
     IN  /\ vio' = [v \in DataVIOs |->
                      IF isReadOnly /\ v \in Range(incrementWaiters)
                                             \cup Range(decrementWaiters)
                      THEN [vio[v] EXCEPT !.state = "aborted"] ELSE done[v]]
         /\ commitPoint' = LastPoint(WaitersOf(given))
         /\ blocks' = IF recycle THEN SubSeq(rest, 1, Len(rest) - 1) ELSE rest
         /\ activeBlock' = (active /\ ~recycle)
         /\ releaseJournalLocks(Range(given)
                                \cup (IF recycle THEN {rest[Len(rest)]} ELSE {}))
         /\ state' = IF ~drained THEN state
                     ELSE IF state = "saving" THEN "saved" ELSE "suspended"
  /\ IF isReadOnly THEN incrementWaiters' = <<>> /\ decrementWaiters' = <<>>
                   ELSE UNCHANGED queueVars
  /\ Return
  /\ UNCHANGED <<spaceVars, readOnly, notified, written, recordedHead,
                 scenario>>

(* Another component has put this thread into read-only mode.              *)
EnterReadOnlyMode ==
  /\ Idle /\ "other" \in Errors /\ ~isReadOnly
  /\ readOnly' = "other"
  /\ UNCHANGED <<queueVars, blocks, activeBlock, spaceVars, commitPoint, state,
                 notified, lockVars, calls, written, vio, recordedHead,
                 scenario>>

(* notifyRecoveryJournalOfReadOnlyMode(), called some time after that.     *)
NotifyOfReadOnlyMode ==
  /\ Idle /\ isReadOnly /\ ~notified
  /\ notified' = TRUE
  /\ calls' = <<"drain">>
  /\ UNCHANGED <<queueVars, blocks, activeBlock, spaceVars, commitPoint, state,
                 readOnly, lockVars, written, vio, recordedHead, scenario>>

(* drainRecoveryJournal().  vdoSuspend.c gets here after all DataVIOs have *)
(* finished and the block map is drained; a save has written all its pages. *)
DrainRecoveryJournal(operation) ==
  /\ Idle /\ state = "normal"
  /\ \A v \in DataVIOs : vio[v].state \in {"ready", "aborted"}
  /\ operation = "saving" => zoneLocks["blockMap"] = {}
  /\ state' = operation
  /\ calls' = <<"drain">>
  /\ UNCHANGED <<queueVars, blocks, activeBlock, spaceVars, commitPoint,
                 readOnly, notified, lockVars, written, vio, recordedHead,
                 scenario>>

(* resumeRecoveryJournal() and, after a save, initializeJournalState().    *)
(* The slab depot has been drained in between, and a save has recorded the *)
(* tail in the super block.                                                *)
ResumeRecoveryJournal ==
  /\ Idle /\ state \in {"suspended", "saved"}
  /\ state = "saved" => zoneLocks["slabJournal"] = {}
  /\ IF state = "saved" /\ ~isReadOnly
     THEN /\ lastWriteAcknowledged' = tail
          /\ head' = [t \in HeadTypes |-> tail]
          /\ reapHead' = [t \in HeadTypes |-> tail]
          /\ recordedHead' = tail
     ELSE UNCHANGED <<lastWriteAcknowledged, head, reapHead, recordedHead>>
  /\ state' = "normal"
  /\ UNCHANGED <<queueVars, blocks, activeBlock, tail, availableSpace,
                 pendingDecrementCount, reaping, commitPoint, readOnly,
                 notified, lockVars, calls, written, vio, scenario>>

-----------------------------------------------------------------------------
(* DataVIOs after their entries are committed, and the other zones.        *)

ZoneStep(v, type, sequence, release) ==
  /\ zoneLocks' = [zoneLocks EXCEPT ![type] = @ \cup {LockOf(sequence)}]
  /\ journalLocks' = [journalLocks EXCEPT ![LockOf(sequence)] = @ - release]
  /\ UNCHANGED <<queueVars, blocks, activeBlock, spaceVars, commitPoint,
                 modeVars, notifying, calls, written, recordedHead, scenario>>

(* The slab journal entry for the committed entry locks its journal block. *)
MakeSlabJournalEntry(v) ==
  /\ vio[v].state = "committed"
  /\ vio' = [vio EXCEPT ![v].state = "referenced"]
  /\ ZoneStep(v, "slabJournal", vio[v].point.sequenceNumber, 0)

(* The block map update locks the journal block of the increment entry and *)
(* then gives up the per-entry lock.                                       *)
UpdateBlockMap(v) ==
  /\ vio[v].state = "referenced" /\ vio[v].operation # "DATA_INCREMENT"
  /\ vio' = [vio EXCEPT ![v] = NewVIO]
  /\ ZoneStep(v, "blockMap", vio[v].lock, 1)

(* The last dirty page or slab journal block that needed block l is written. *)
ReleaseZoneLock(type, l) ==
  /\ l \in zoneLocks[type]
  /\ zoneLocks' = [zoneLocks EXCEPT ![type] = @ \ {l}]
  /\ notifying' = TRUE
  /\ UNCHANGED <<queueVars, blocks, activeBlock, spaceVars, commitPoint,
                 modeVars, journalLocks, calls, written, vio, recordedHead,
                 scenario>>

-----------------------------------------------------------------------------
Init ==
  /\ scenario \in Scenarios
  /\ incrementWaiters = <<>> /\ decrementWaiters = <<>>
  /\ blocks = <<>> /\ activeBlock = FALSE
  /\ tail = 1
  /\ head = [t \in HeadTypes |-> 1] /\ reapHead = [t \in HeadTypes |-> 1]
  /\ lastWriteAcknowledged = 1
  /\ availableSpace = EntriesPerBlock * getRecoveryJournalLength
  /\ pendingDecrementCount = 0
  /\ commitPoint = [sequenceNumber |-> 0, entryCount |-> 0]
  /\ reaping = FALSE
  /\ state = "normal" /\ readOnly = "no" /\ notified = FALSE
  /\ notifying = FALSE
  /\ journalLocks = [l \in Locks |-> 0]
  /\ zoneLocks = [t \in HeadTypes |-> {}]
  /\ calls = <<>> /\ written = 0
  /\ vio = [v \in DataVIOs |-> NewVIO]
  /\ recordedHead = 1

JournalStep ==
  \/ AdvanceTail \/ AssignEntry \/ StopAssigning
  \/ CompleteWrite \/ NotifyCommitWaiters \/ StopNotifying \/ Rewrite
  \/ ReapRecoveryJournal \/ ReapRecoveryJournalCallback \/ CompleteReaping
  \/ CheckForDrainComplete \/ NotifyOfReadOnlyMode
  \/ \E i \in DOMAIN blocks : WriteDone(i)

Next ==
  \/ \E v \in Writers, o \in Increments : AddIncrement(v, o)
  \/ \E v \in DataVIOs :
       AddDecrement(v) \/ MakeSlabJournalEntry(v) \/ UpdateBlockMap(v)
  \/ JournalStep
  \/ \E i \in DOMAIN blocks : WriteError(i)
  \/ FlushError \/ EnterReadOnlyMode
  \/ \E o \in AdminOperations : DrainRecoveryJournal(o)
  \/ ResumeRecoveryJournal
  \/ \E t \in HeadTypes, l \in Locks : ReleaseZoneLock(t, l)

Fairness ==
  /\ WF_vars(JournalStep)
  /\ \A v \in DataVIOs :
       WF_vars(AddDecrement(v) \/ MakeSlabJournalEntry(v) \/ UpdateBlockMap(v))
  /\ \A t \in HeadTypes, l \in Locks : WF_vars(ReleaseZoneLock(t, l))

Spec == Init /\ [][Next]_vars /\ Fairness

-----------------------------------------------------------------------------
(* Properties.                                                             *)

(* prepareToAssignEntry() says that there must always be room to make a    *)
(* decrement entry: however increments, block map allocations, decrements  *)
(* and reaping interleave, the journal never goes read-only for want of    *)
(* the room it has promised to the decrements still to come.               *)
DecrementAlwaysFits == readOnly # "full"

(* Entries of the blocks from the head to the tail that are not free.      *)
UsedSpace ==
  EntriesPerBlock * (tail - getRecoveryJournalHead(head))
    - (IF activeBlock THEN EntriesPerBlock - Newest.entryCount ELSE 0)

(* availableSpace is "the number of free entries in the journal" (struct   *)
(* recoveryJournal): it and the entries between head and tail always add   *)
(* up to the journal's length, so that no entry is lost or counted twice.  *)
(* (A saved journal has given up its active block; it is not in use.)      *)
(* With "saving" among the operations it does not hold (see the README),   *)
(* and no run checks it.                                                   *)
SpaceAccounted ==
  ~isReadOnly /\ state # "saved" =>
    availableSpace + UsedSpace = EntriesPerBlock * getRecoveryJournalLength

(* The reserved blocks "prevent a new recovery journal block write from    *)
(* overwriting a block which appears to still be a valid head block": with *)
(* every write in flight the blocks from the newest head recorded by a     *)
(* completed write on are still in their places on disk.                   *)
NeverOverwriteHead ==
  \A i \in DOMAIN blocks :
    blocks[i].committing => blocks[i].sequenceNumber < recordedHead + Size

Before(p, q) == \/ p.sequenceNumber < q.sequenceNumber
                \/ /\ p.sequenceNumber = q.sequenceNumber
                   /\ p.entryCount < q.entryCount

(* "DataVIOs released from recovery journal in order": the entries whose   *)
(* DataVIOs are still to be released all follow the commit point, each     *)
(* before the next, although writes complete out of order and a block is   *)
(* written again while it fills.                                           *)
ReleasedInOrder ==
  LET ws == WaitersOf(blocks)
  IN  \A i \in DOMAIN ws : \A k \in DOMAIN ws[i] :
        /\ Before(commitPoint, vio[ws[i][k]].point)
        /\ \A j \in DOMAIN ws : \A l \in DOMAIN ws[j] :
             i < j \/ (i = j /\ k < l) =>
               Before(vio[ws[i][k]].point, vio[ws[j][l]].point)

=============================================================================
