------------------------------ MODULE HashLock ------------------------------
(***************************************************************************)
(* The write path of data blocks: DataVIOs that write concurrently, some   *)
(* of them the same data, from their allocation to their clean-up          *)
(* (base/vioWrite.c, base/allocatingVIO.c), the hash locks through which   *)
(* they deduplicate against advice and against each other                  *)
(* (base/hashLock.c, base/hashZone.c), the locks on the physical blocks    *)
(* (base/pbnLock.c, base/physicalZone.c) and the reference counts of those *)
(* blocks (base/refCounts.c).                                              *)
(*                                                                         *)
(* Every callback runs to its end on the thread of one zone: it is one     *)
(* step of its DataVIO, whose `pc' names the callback (or the I/O) that is *)
(* due.  The functions of hashLock.c call each other; each is an operator  *)
(* from a state of the hash zone to the next one, a record z of the        *)
(* DataVIOs, the hash locks and the PBN locks.                             *)
(*                                                                         *)
(* Data: a location is a physical block and the slot of a compressed block *)
(* in it (0 for a block that is not compressed).  The UDS index gives any  *)
(* advice.  The recovery journal and the slab journals take every entry,   *)
(* until the VDO is read-only.  The packer is reduced to batches (module   *)
(* Packer has it in full).                                                 *)
(***************************************************************************)
EXTENDS Integers, FiniteSets, FiniteSetsExt, Sequences, SequencesExt

CONSTANTS DataVIOs,       \* the writes
          LBNs,           \* logical blocks
          LBNOf,          \* the logical block of each write
          Data, ZeroData, \* the contents of blocks; ZeroData: zeros, or a trim
          HashLocks,      \* the pool of hash locks
          MaxSlots,       \* slots of a compressed block
          Scenarios,      \* the VDOs and writes to consider
          None

VARIABLES vio,        \* the DataVIOs
          hashLocks,  \* the hash locks of the hash zone
          pbnLocks,   \* the physical zones' PBN locks, None where there is none
          refCounts,  \* the reference counters
          content,    \* what each slot of each physical block reads as
          blockMap,   \* the location each logical block is mapped to
          stored,     \* the data of each logical block's newest mapping
          bin,        \* the packer's output bin
          readOnly,   \* the VDO is in read-only mode
          scenario    \* which of Scenarios this is, never changed

allButVIO == <<hashLocks, pbnLocks, refCounts, content, blockMap, stored, bin, readOnly, scenario>>
vars == <<vio, allButVIO>>

Writers == scenario.writers             \* the DataVIOs that write
DataOf == scenario.dataOf               \* the data of each of them
HashOf == scenario.hashOf               \* the chunk name of each Data (names may collide)
PBNs == scenario.pbns                   \* the physical blocks
InitialMap == scenario.initialMap       \* at the start, each LBN's PBN or None
InitialData == scenario.initialData     \* the Data at the start of each PBN
Advice == scenario.advice               \* the locations UDS may give as advice
MaxReferences == scenario.maxReferences \* MAXIMUM_REFERENCE_COUNT
Async == scenario.async                 \* the write policy is async
Compression == scenario.compression     \* compression is on
WriteErrors == scenario.writeErrors     \* writes of data may fail

Slots == 0 .. MaxSlots
Location == [pbn : PBNs, slot : Slots]
Garbage == "garbage"
PROVISIONAL == -1

\* What a read of a location returns.
ReadData(loc) == content[loc.pbn][loc.slot]

RawBlock(d) == [s \in Slots |-> IF s = 0 THEN d ELSE Garbage]

\* strict evaluation: F of the value of z
Then(z, F(_)) == CHOOSE result \in {F(w) : w \in {z}} : TRUE

HashLockStates ==
  {"FREE", "INITIALIZING", "QUERYING", "WRITING", "UPDATING", "LOCKING", "VERIFYING",
   "DEDUPING", "UNLOCKING", "BYPASSING"}

FreeLock ==
  [state |-> "FREE", hash |-> None, registered |-> FALSE, agent |-> None, waiters |-> <<>>,
   duplicateLock |-> None, duplicate |-> None, verified |-> FALSE, updateAdvice |-> FALSE]

NewVIO ==
  [pc |-> "start", operation |-> "write", allocation |-> None, allocationLock |-> FALSE,
   mapped |-> None, newMapped |-> None, duplicate |-> None, isDuplicate |-> FALSE,
   hashLock |-> None, status |-> "PRE", mayNotCompress |-> FALSE, failed |-> FALSE]

-----------------------------------------------------------------------------
(* PBN locks and reference counts.                                         *)

initializePBNLock(type) ==
  [type |-> type, holderCount |-> 0, incrementLimit |-> 0, incrementsClaimed |-> 0,
   provisional |-> FALSE]

\* attemptPBNLock(): the lock on a block, a new one if it has none.
attemptPBNLock(p, type) ==
  IF pbnLocks[p] = None THEN initializePBNLock(type) ELSE pbnLocks[p]

\* Of the lock of a DataVIO, or of the packer's writer.
downgradePBNWriteLock(lock) ==
  IF lock.type = "write"
  THEN [lock EXCEPT !.type = "read", !.incrementLimit = MaxReferences - 1]
  ELSE [lock EXCEPT !.type = "read", !.holderCount = 0, !.incrementLimit = MaxReferences]

\* claimPBNLockIncrement(): the count of claims grows whether or not one is left.
CanClaim(z, p) == z.pbnLocks[p].incrementsClaimed < z.pbnLocks[p].incrementLimit
Claim(z, p) == [z EXCEPT !.pbnLocks[p].incrementsClaimed = @ + 1]

getIncrementLimit(p) ==
  IF refCounts[p] = PROVISIONAL THEN MaxReferences - 1 ELSE MaxReferences - refCounts[p]

\* releasePBNLock(): the last holder gives back a provisional reference.
ReleasedLock(lock) ==
  IF lock.holderCount > 1 THEN [lock EXCEPT !.holderCount = @ - 1] ELSE None

ReleasedCount(lock, count) ==
  IF lock.holderCount > 1 \/ ~lock.provisional THEN count ELSE 0

\* incrementForData() and decrementForData(), given the lock on the block.
IncrementedCount(count) == IF count = PROVISIONAL THEN 1 ELSE count + 1

DecrementedCount(lock, count) ==
  IF count > 1 THEN count - 1 ELSE IF lock = None THEN 0 ELSE PROVISIONAL

DecrementedLock(lock, count) ==
  IF count > 1 \/ lock = None THEN lock ELSE [lock EXCEPT !.provisional = TRUE]

-----------------------------------------------------------------------------
(* The write path's branches that the hash lock takes (vioWrite.c), and    *)
(* the compression state of a DataVIO (compressionState.c).                *)

To(z, v, pc) == [z EXCEPT !.vio[v].pc = pc]

\* finishDataVIO(): the clean-up starts.
finishDataVIO(z, v, error) ==
  [z EXCEPT !.vio[v].pc = "releaseAllocated", !.vio[v].failed = @ \/ error]

abortDeduplication(z, v) ==
  IF z.vio[v].allocation = None THEN finishDataVIO(z, v, TRUE)
  ELSE IF Async THEN To(z, v, "writeBlock")
  ELSE IF z.vio[v].hashLock = None THEN finishDataVIO(z, v, FALSE)
  ELSE To(z, v, "finishWrite")

setCompressionDone(z, v) ==
  IF z.vio[v].status = "POST" THEN z
  ELSE [z EXCEPT !.vio[v].status = "POST", !.vio[v].mayNotCompress = TRUE]

NextStatus == [PRE |-> "COMPRESSING", COMPRESSING |-> "PACKING", PACKING |-> "POST"]

advanceStatus(x) ==
  IF x.status = "POST" \/ x.mayNotCompress THEN "POST" ELSE NextStatus[x.status]

cancelCompression(z, v) ==
  IF z.vio[v].status = "POST" THEN z ELSE [z EXCEPT !.vio[v].mayNotCompress = TRUE]

\* compressData() with mayCompressDataVIO()
compressData(z, v) ==
  LET next == advanceStatus(z.vio[v])
  IN IF z.vio[v].allocation = None \/ ~Compression
     THEN abortDeduplication(setCompressionDone(z, v), v)
     ELSE IF z.vio[v].hashLock = None THEN abortDeduplication(z, v)
     ELSE IF next = "COMPRESSING"
          THEN [z EXCEPT !.vio[v].status = next, !.vio[v].pc = "compress"]
          ELSE abortDeduplication([z EXCEPT !.vio[v].status = next], v)

-----------------------------------------------------------------------------
(* The hash lock (hashLock.c).                                             *)

\* The DataVIOs that share a hash lock (its reference count is their number).
Holders(z, l) == {v \in DataVIOs : z.vio[v].hashLock = l}

setDuplicateLocation(z, v, loc) ==
  [z EXCEPT !.vio[v].duplicate = loc, !.vio[v].isDuplicate = TRUE]

\* releaseHashLock() with returnHashLockToZone()
releaseHashLock(z, v) ==
  LET l == z.vio[v].hashLock
      released == [z EXCEPT !.vio[v].hashLock = None]
  IN IF l = None THEN z
     ELSE IF Holders(released, l) # {} THEN released
     ELSE [released EXCEPT !.hashLocks[l] = FreeLock]

exitHashLock(z, v) == finishDataVIO(releaseHashLock(z, v), v, FALSE)

\* A wait on a hash lock whose agent is writing takes the agent out of the packer.
waitOnHashLock(z, l, v) ==
  LET waiting == [To(z, v, "wait") EXCEPT !.hashLocks[l].waiters = Append(@, v)]
  IN IF z.hashLocks[l].state = "WRITING"
     THEN cancelCompression(waiting, z.hashLocks[l].agent) ELSE waiting

compressWaiter(z, v) == compressData([z EXCEPT !.vio[v].isDuplicate = FALSE], v)

startBypassing(z, l, agent) ==
  Then(FoldLeft(compressWaiter,
                [z EXCEPT !.hashLocks[l].state = "BYPASSING",
                          !.hashLocks[l].updateAdvice = FALSE,
                          !.hashLocks[l].waiters = <<>>],
                z.hashLocks[l].waiters),
       LAMBDA w :
         IF agent = None THEN w
         ELSE IF w.hashLocks[l].duplicateLock # None
         THEN [To(w, agent, "unlockDuplicate")
                 EXCEPT !.vio[agent].duplicate = w.hashLocks[l].duplicate]
         ELSE compressWaiter([w EXCEPT !.hashLocks[l].agent = None], agent))

abortHashLock(z, l, v) ==
  IF z.hashLocks[l].state = "BYPASSING" THEN exitHashLock(z, v)
  ELSE IF v # z.hashLocks[l].agent
          /\ (z.hashLocks[l].agent # None \/ Cardinality(Holders(z, l)) > 1)
  THEN exitHashLock(z, v)
  ELSE startBypassing([z EXCEPT !.hashLocks[l].agent = v], l, v)

startUnlocking(z, l, agent) ==
  [To(z, agent, "unlockDuplicate") EXCEPT !.hashLocks[l].state = "UNLOCKING"]

startUpdating(z, l, agent) ==
  [To(z, agent, "update") EXCEPT !.hashLocks[l].state = "UPDATING"]

startLocking(z, l, agent) ==
  [To(z, agent, "lockDuplicate") EXCEPT !.hashLocks[l].state = "LOCKING"]

startVerifying(z, l, agent) ==
  [To(z, agent, "verify") EXCEPT !.hashLocks[l].state = "VERIFYING"]

\* selectWritingAgent(): the first waiter with an allocation becomes the
\* agent, and the agent the first waiter.
selectWritingAgent(z, l) ==
  LET waiters == z.hashLocks[l].waiters
      able == {i \in DOMAIN waiters : z.vio[waiters[i]].allocation # None}
  IN IF able = {} THEN z
     ELSE [To(z, z.hashLocks[l].agent, "wait")
             EXCEPT !.hashLocks[l].agent = waiters[Min(able)],
                    !.hashLocks[l].waiters = <<z.hashLocks[l].agent>>
                                               \o RemoveAt(waiters, Min(able))]

startWriting(z, l, agent) ==
  Then(LET writing == [z EXCEPT !.hashLocks[l].state = "WRITING"]
       IN IF z.vio[agent].allocation = None THEN selectWritingAgent(writing, l) ELSE writing,
       LAMBDA w :
         LET writer == w.hashLocks[l].agent
         IN IF w.vio[writer].allocation = None THEN startBypassing(w, l, writer)
            ELSE compressData(IF w.hashLocks[l].waiters # <<>>
                              THEN cancelCompression(w, writer) ELSE w, writer))

\* acquireHashLockFromZone(): the lock registered for a chunk name, or a lock
\* of the pool, which is registered in its place if `replace' is it.
RegisteredLock(z, h) ==
  {l \in HashLocks : z.hashLocks[l].registered /\ z.hashLocks[l].hash = h}

PoolLock(z) == CHOOSE l \in HashLocks : z.hashLocks[l].state = "FREE"

RegisterLock(z, l, h) ==
  [z EXCEPT !.hashLocks[l] = [FreeLock EXCEPT !.state = "INITIALIZING", !.hash = h,
                                              !.registered = TRUE]]

forkHashLock(z, old, newAgent) ==
  LET new == PoolLock(z)
      waiters == z.hashLocks[old].waiters
      forked == [RegisterLock(z, new, z.hashLocks[old].hash)
                   EXCEPT !.hashLocks[old].registered = FALSE,
                          !.hashLocks[old].updateAdvice = FALSE,
                          !.hashLocks[old].waiters = <<>>,
                          !.hashLocks[new].updateAdvice = TRUE,
                          !.hashLocks[new].agent = newAgent,
                          !.vio[newAgent].hashLock = new,
                          !.vio[newAgent].isDuplicate = FALSE]
      enterForkedLock(w, v) == waitOnHashLock([w EXCEPT !.vio[v].hashLock = new], new, v)
  IN Then(FoldLeft(enterForkedLock, forked, waiters), LAMBDA w : startWriting(w, new, newAgent))

launchDedupe(z, l, v, hasClaim) ==
  LET p == z.hashLocks[l].duplicateLock
      claimed == IF hasClaim THEN z ELSE Claim(z, p)
  IN IF ~hasClaim /\ ~CanClaim(z, p) THEN forkHashLock(claimed, l, v)
     ELSE To(setDuplicateLocation(claimed, v, z.hashLocks[l].duplicate), v, "shareBlock")

finishDeduping(z, l, v) ==
  IF Cardinality(Holders(z, l)) > 1 THEN exitHashLock(z, v)
  ELSE IF z.hashLocks[l].updateAdvice
  THEN startUpdating([z EXCEPT !.hashLocks[l].agent = v], l, v)
  ELSE startUnlocking([z EXCEPT !.hashLocks[l].agent = v], l, v)

\* Mutant: the DataVIO keeps its lock, too.
transferKeepingLock(z, l, v) ==
  [z EXCEPT !.vio[v].duplicate = z.vio[v].newMapped,
            !.hashLocks[l].duplicate = z.vio[v].newMapped,
            !.hashLocks[l].duplicateLock = z.vio[v].newMapped.pbn]

transferAllocationLock(z, l, v) ==
  [z EXCEPT !.vio[v].allocationLock = FALSE,
            !.vio[v].allocation = None,
            !.vio[v].duplicate = z.vio[v].newMapped,
            !.hashLocks[l].duplicate = z.vio[v].newMapped,
            !.hashLocks[l].duplicateLock = z.vio[v].newMapped.pbn]

startDeduping(z, l, agent, agentIsDone) ==
  LET owned == IF z.hashLocks[l].duplicateLock = None
               THEN transferAllocationLock(z, l, agent) ELSE z
      shared == [owned EXCEPT !.hashLocks[l].state = "DEDUPING", !.hashLocks[l].agent = None]
      \* a waiter that a fork has not taken to another lock
      launchWaiter(w, v) ==
        IF v \notin Range(w.hashLocks[l].waiters) THEN w
        ELSE launchDedupe([w EXCEPT !.hashLocks[l].waiters = Tail(@)], l, v, FALSE)
  IN Then(FoldLeft(launchWaiter,
                   IF agentIsDone THEN shared ELSE launchDedupe(shared, l, agent, TRUE),
                   z.hashLocks[l].waiters),
          LAMBDA w : IF agentIsDone THEN finishDeduping(w, l, agent) ELSE w)

\* The end of a lock that holds no PBN lock: startBypassing(lock, NULL) and exit.
startDestroying(z, l, agent) == exitHashLock(startBypassing(z, l, None), agent)

finishWriting(z, l, agent) ==
  LET loc == z.vio[agent].newMapped
      w == [z EXCEPT !.hashLocks[l].duplicate = loc, !.hashLocks[l].verified = TRUE,
                     !.hashLocks[l].updateAdvice = @ \/ (loc.slot > 0
                                                         /\ z.hashLocks[l].registered)]
  IN IF w.hashLocks[l].waiters # <<>> THEN startDeduping(w, l, agent, TRUE)
     ELSE IF w.hashLocks[l].updateAdvice THEN startUpdating(w, l, agent)
     ELSE IF w.hashLocks[l].duplicateLock # None
     THEN startUnlocking(setDuplicateLocation(w, agent, loc), l, agent)
     ELSE startDestroying(w, l, agent)

finishUpdating(z, l, agent) ==
  LET w == [z EXCEPT !.hashLocks[l].updateAdvice = FALSE]
  IN IF w.hashLocks[l].waiters # <<>> THEN startDeduping(w, l, agent, TRUE)
     ELSE IF w.hashLocks[l].duplicateLock # None THEN startUnlocking(w, l, agent)
     ELSE startDestroying(w, l, agent)

\* finishUnlocking() with retireLockAgent()
finishUnlocking(z, l, agent) ==
  LET waiters == z.hashLocks[l].waiters
      w == [z EXCEPT !.hashLocks[l].verified = FALSE]
  IN IF z.vio[agent].failed THEN abortHashLock(z, l, agent)
     ELSE IF ~z.hashLocks[l].verified THEN startWriting(z, l, agent)
     ELSE IF waiters = <<>> THEN exitHashLock(w, agent)
     ELSE startLocking(setDuplicateLocation(
                         exitHashLock([w EXCEPT !.hashLocks[l].agent = Head(waiters),
                                                !.hashLocks[l].waiters = Tail(@)], agent),
                         Head(waiters), z.hashLocks[l].duplicate),
                       l, Head(waiters))

finishVerifying(z, l, agent) ==
  LET p == z.hashLocks[l].duplicateLock
      claimed == IF z.vio[agent].isDuplicate THEN Claim(z, p) ELSE z
  IN IF z.vio[agent].isDuplicate /\ CanClaim(z, p)
     THEN startDeduping([claimed EXCEPT !.hashLocks[l].verified = TRUE], l, agent, FALSE)
     ELSE startUnlocking([claimed EXCEPT !.vio[agent].isDuplicate = FALSE,
                                         !.hashLocks[l].verified = FALSE,
                                         !.hashLocks[l].updateAdvice = TRUE], l, agent)

\* finishLocking(); a lock being locked is never verified, so its last two
\* branches are not taken.
finishLocking(z, l, agent) ==
  IF ~z.vio[agent].isDuplicate
  THEN startWriting([z EXCEPT !.hashLocks[l].updateAdvice = TRUE], l, agent)
  ELSE IF ~z.hashLocks[l].verified THEN startVerifying(z, l, agent)
  ELSE IF ~CanClaim(z, z.hashLocks[l].duplicateLock)
  THEN startUnlocking([Claim(z, z.hashLocks[l].duplicateLock)
                         EXCEPT !.vio[agent].isDuplicate = FALSE,
                                !.hashLocks[l].verified = FALSE,
                                !.hashLocks[l].updateAdvice = TRUE], l, agent)
  ELSE startDeduping(Claim(z, z.hashLocks[l].duplicateLock), l, agent, FALSE)

finishQuerying(z, l, agent) ==
  IF z.vio[agent].isDuplicate
  THEN startLocking([z EXCEPT !.hashLocks[l].duplicate = z.vio[agent].duplicate], l, agent)
  ELSE startWriting([z EXCEPT !.hashLocks[l].updateAdvice = z.vio[agent].allocation = None],
                    l, agent)

startQuerying(z, l, v) ==
  [To(z, v, "query") EXCEPT !.hashLocks[l].agent = v, !.hashLocks[l].state = "QUERYING"]

enterHashLock(z, l, v) ==
  IF z.hashLocks[l].state = "INITIALIZING" THEN startQuerying(z, l, v)
  ELSE IF z.hashLocks[l].state = "BYPASSING" THEN compressData(z, v)
  ELSE IF z.hashLocks[l].state = "DEDUPING" THEN launchDedupe(z, l, v, FALSE)
  ELSE waitOnHashLock(z, l, v)

\* acquireHashLock(): none on a hash collision
acquireHashLock(z, v) ==
  LET h == HashOf[DataOf[v]]
      found == RegisteredLock(z, h)
      l == CHOOSE m \in found : TRUE
      collides == \E w \in Holders(z, l) : DataOf[w] # DataOf[v]
  IN IF found = {}
     THEN [RegisterLock(z, PoolLock(z), h) EXCEPT !.vio[v].hashLock = PoolLock(z)]
     ELSE IF collides THEN z ELSE [z EXCEPT !.vio[v].hashLock = l]

lockHashInZone(z, v) ==
  Then(acquireHashLock(z, v),
       LAMBDA w : IF w.vio[v].hashLock = None THEN compressData(w, v)
                  ELSE enterHashLock(w, w.vio[v].hashLock, v))

\* continueHashLock()
continueHashLock(z, l, v) ==
  IF z.hashLocks[l].state = "WRITING" THEN finishWriting(z, l, v)
  ELSE IF z.hashLocks[l].state = "DEDUPING" THEN finishDeduping(z, l, v)
  ELSE finishDataVIO(z, v, FALSE)

-----------------------------------------------------------------------------
(* The steps.                                                              *)

ZoneState == [vio |-> vio, hashLocks |-> hashLocks, pbnLocks |-> pbnLocks]

ZoneBecomes(result) ==
  \E z \in {result} : vio' = z.vio /\ hashLocks' = z.hashLocks /\ pbnLocks' = z.pbnLocks

\* A step of a DataVIO that touches the hash locks and the claims only.
HashZoneStep(v, pc, F(_, _, _)) ==
  /\ vio[v].pc = pc
  /\ ZoneBecomes(F(ZoneState, vio[v].hashLock, v))
  /\ UNCHANGED <<refCounts, content, blockMap, stored, bin, readOnly, scenario>>

\* A logical block has one DataVIO at a time (the LBN lock).
launchWriteDataVIO(v) ==
  /\ vio[v].pc = "start"
  /\ \A w \in DataVIOs \ {v} : LBNOf[w] = LBNOf[v] => vio[w].pc \in {"start", "done"}
  /\ vio' = IF readOnly
            THEN [vio EXCEPT ![v].pc = "releaseAllocated", ![v].failed = TRUE]
            ELSE IF DataOf[v] = ZeroData
            THEN [vio EXCEPT ![v].pc = "unmap", ![v].operation = "zero"]
            ELSE [vio EXCEPT ![v].pc = "allocate"]
  /\ UNCHANGED allButVIO

\* A free block is allocated, and locked unless it is "spuriously locked".
SpuriouslyLocked(p) == pbnLocks[p] # None

Allocated(p, type) ==
  /\ refCounts[p] = 0
  /\ refCounts' = [refCounts EXCEPT ![p] = PROVISIONAL]
  /\ pbnLocks' = [pbnLocks EXCEPT ![p] =
                    IF SpuriouslyLocked(p) THEN @
                    ELSE [initializePBNLock(type) EXCEPT !.holderCount = 1,
                                                         !.provisional = TRUE]]

NoFreeBlock == \A p \in PBNs : refCounts[p] # 0

allocateBlockForWrite(v) ==
  /\ vio[v].pc = "allocate"
  /\ \E p \in PBNs :
       /\ Allocated(p, "write")
       /\ vio' = IF SpuriouslyLocked(p)
                 THEN [vio EXCEPT ![v].allocation = p, ![v].failed = TRUE,
                                  ![v].pc = "releaseAllocated"]
                 ELSE [vio EXCEPT ![v].allocation = p,
                                  ![v].allocationLock = TRUE,
                                  ![v].newMapped = [pbn |-> p, slot |-> 0],
                                  ![v].pc = IF Async THEN "lockHash" ELSE "writeBlock"]
  /\ UNCHANGED <<hashLocks, content, blockMap, stored, bin, readOnly, scenario>>

allocateNoBlock(v) ==
  /\ vio[v].pc = "allocate"
  /\ NoFreeBlock
  /\ vio' = [vio EXCEPT ![v].pc = "lockHash"]
  /\ UNCHANGED allButVIO

LockHash(v) == HashZoneStep(v, "lockHash", LAMBDA z, l, x : lockHashInZone(z, x))

\* The answer of UDS: no advice, or any.
Query(v) ==
  \E advice \in Advice \union {None} :
    HashZoneStep(v, "query",
      LAMBDA z, l, x :
        finishQuerying(IF advice = None THEN [z EXCEPT !.vio[x].isDuplicate = FALSE]
                       ELSE setDuplicateLocation(z, x, advice), l, x))

\* lockDuplicatePBN()
LockDuplicatePBN(v) ==
  LET p == vio[v].duplicate.pbn
      lock == attemptPBNLock(p, "read")
      limit == getIncrementLimit(p)
      refused == limit = 0 \/ lock.type # "read"
      acquired == IF lock.holderCount > 0 THEN lock
                  ELSE [lock EXCEPT !.incrementLimit = limit,
                                    !.provisional = refCounts[p] = 0]
  IN /\ vio[v].pc = "lockDuplicate"
     /\ vio' = [vio EXCEPT ![v].pc = "finishLocking",
                           ![v].isDuplicate = @ /\ ~refused]
     /\ IF refused THEN UNCHANGED <<hashLocks, pbnLocks, refCounts, scenario>>
        ELSE /\ pbnLocks' = [pbnLocks EXCEPT ![p] = [acquired EXCEPT !.holderCount = @ + 1]]
             /\ refCounts' = [refCounts EXCEPT ![p] = IF @ = 0 THEN PROVISIONAL ELSE @]
             /\ hashLocks' = [hashLocks EXCEPT ![vio[v].hashLock].duplicateLock = p]
     /\ UNCHANGED <<content, blockMap, stored, bin, readOnly, scenario>>

FinishLocking(v) == HashZoneStep(v, "finishLocking", finishLocking)

\* Mutant: the advice is believed.
VerifyNothing(v) ==
  /\ vio[v].pc = "verify"
  /\ vio' = [vio EXCEPT ![v].pc = "finishVerifying"]
  /\ UNCHANGED allButVIO

\* verifyDuplication(): the layer reads the candidate and compares.
Verify(v) ==
  /\ vio[v].pc = "verify"
  /\ vio' = [vio EXCEPT ![v].pc = "finishVerifying",
                        ![v].isDuplicate = ReadData(vio[v].duplicate) = DataOf[v]]
  /\ UNCHANGED allButVIO

FinishVerifying(v) == HashZoneStep(v, "finishVerifying", finishVerifying)

\* unlockDuplicatePBN()
UnlockDuplicatePBN(v) ==
  LET l == vio[v].hashLock
      p == hashLocks[l].duplicateLock
  IN /\ vio[v].pc = "unlockDuplicate"
     /\ pbnLocks' = [pbnLocks EXCEPT ![p] = ReleasedLock(@)]
     /\ refCounts' = [refCounts EXCEPT ![p] = ReleasedCount(pbnLocks[p], @)]
     /\ hashLocks' = [hashLocks EXCEPT ![l].duplicateLock = None]
     /\ vio' = [vio EXCEPT ![v].pc = IF hashLocks[l].state = "BYPASSING"
                                     THEN "finishBypassing" ELSE "finishUnlocking"]
     /\ UNCHANGED <<content, blockMap, stored, bin, readOnly, scenario>>

FinishUnlocking(v) == HashZoneStep(v, "finishUnlocking", finishUnlocking)

FinishBypassing(v) ==
  HashZoneStep(v, "finishBypassing", LAMBDA z, l, x : exitHashLock(z, x))

\* UDS has the update.
Update(v) == HashZoneStep(v, "update", finishUpdating)

\* finishWriteDataVIO(), also of a DataVIO with an error
FinishWrite(v) ==
  HashZoneStep(v, "finishWrite",
    LAMBDA z, l, x : IF z.vio[x].failed THEN abortHashLock(z, l, x)
                     ELSE continueHashLock(z, l, x))

\* abortOnError(): the DataVIO goes back to its hash lock, if it has one.
Abort(v) ==
  [vio EXCEPT ![v].failed = TRUE,
              ![v].pc = IF vio[v].hashLock # None THEN "finishWrite" ELSE "releaseAllocated"]

\* The steps that journal end this way in read-only mode.
AbortOnError(v) ==
  /\ vio[v].pc \in {"shareBlock", "increment", "unmap", "decrement", "updateMap"}
  /\ readOnly
  /\ vio' = Abort(v)
  /\ UNCHANGED allButVIO

\* writeBlock() with finishBlockWrite(): a write that fails may leave anything.
\* A DataVIO with an earlier error writes, and is aborted then.
WriteBlock(v) ==
  LET p == vio[v].allocation
  IN /\ vio[v].pc = "writeBlock"
     /\ \/ /\ content' = [content EXCEPT ![p] = RawBlock(DataOf[v])]
           /\ vio' = IF vio[v].failed THEN Abort(v)
                     ELSE [vio EXCEPT ![v].pc = "increment", ![v].operation = "write"]
           /\ readOnly' = readOnly
        \/ /\ WriteErrors
           /\ \E d \in {content[p], RawBlock(Garbage), RawBlock(DataOf[v])} :
                content' = [content EXCEPT ![p] = d]
           /\ vio' = Abort(v)
           /\ readOnly' = (readOnly \/ Async)
     /\ UNCHANGED <<hashLocks, pbnLocks, refCounts, blockMap, stored, bin, scenario>>

\* shareBlock() with addRecoveryJournalEntryForDedupe()
ShareBlock(v) ==
  /\ vio[v].pc = "shareBlock"
  /\ vio' = [vio EXCEPT ![v].newMapped = vio[v].duplicate,
                        ![v].operation = "dedupe",
                        ![v].pc = "increment"]
  /\ UNCHANGED allButVIO

\* incrementForWrite(), incrementForDedupe(), incrementForCompression()
Increment(v) ==
  LET p == vio[v].newMapped.pbn
      lock == IF vio[v].operation = "write" THEN downgradePBNWriteLock(pbnLocks[p])
              ELSE pbnLocks[p]
      overflow == refCounts[p] = MaxReferences
  IN /\ vio[v].pc = "increment"
     /\ vio' = IF overflow THEN Abort(v) ELSE [vio EXCEPT ![v].pc = "unmap"]
     /\ pbnLocks' = [pbnLocks EXCEPT ![p] =
                       IF overflow THEN lock ELSE [lock EXCEPT !.provisional = FALSE]]
     /\ refCounts' = [refCounts EXCEPT ![p] = IF overflow THEN @ ELSE IncrementedCount(@)]
     /\ readOnly' = (readOnly \/ overflow)
     /\ UNCHANGED <<hashLocks, content, blockMap, stored, bin, scenario>>

\* Mutant: every DataVIO that deduplicates believes it replaces its own block.
UnmapKnown(v) ==
  LET known == vio[v].operation \in {"dedupe", "compress"}
      mapped == IF known THEN vio[v].mapped ELSE blockMap[LBNOf[v]]
  IN /\ vio[v].pc = "unmap"
     /\ vio' = [vio EXCEPT ![v].mapped = mapped,
                           ![v].pc = IF mapped = None THEN "updateMap" ELSE "decrement"]
     /\ UNCHANGED allButVIO

\* readOldBlockMapping...() and journalUnmapping...(): a synchronous write
\* that deduplicates or compresses knows that it replaces its own block.
Unmap(v) ==
  LET known == vio[v].operation \in {"dedupe", "compress"} /\ ~Async
                 /\ vio[v].allocation # None
      mapped == IF known THEN vio[v].mapped ELSE blockMap[LBNOf[v]]
  IN /\ vio[v].pc = "unmap"
     /\ vio' = [vio EXCEPT ![v].mapped = mapped,
                           ![v].pc = IF mapped = None THEN "updateMap" ELSE "decrement"]
     /\ UNCHANGED allButVIO

\* decrementForWrite(), decrementForDedupe(): the lock on an allocated block
\* whose reference goes is released first.
Decrement(v) ==
  LET p == vio[v].mapped.pbn
      release == /\ vio[v].operation \in {"dedupe", "compress"}
                 /\ vio[v].allocation = p
                 /\ vio[v].allocationLock
      lock == IF release THEN ReleasedLock(pbnLocks[p]) ELSE pbnLocks[p]
      count == IF release THEN ReleasedCount(pbnLocks[p], refCounts[p]) ELSE refCounts[p]
  IN /\ vio[v].pc = "decrement"
     /\ pbnLocks' = [pbnLocks EXCEPT ![p] = DecrementedLock(lock, count)]
     /\ refCounts' = [refCounts EXCEPT ![p] = DecrementedCount(lock, count)]
     /\ vio' = [vio EXCEPT ![v].pc = "updateMap",
                           ![v].allocationLock = @ /\ ~release]
     /\ UNCHANGED <<hashLocks, content, blockMap, stored, bin, readOnly, scenario>>

\* updateBlockMapForWrite() with prepareForDedupe(), updateBlockMapForDedupe()
UpdateBlockMap(v) ==
  LET loc == IF vio[v].operation = "zero" THEN None ELSE vio[v].newMapped
      dedupes == vio[v].operation = "write" /\ ~Async
  IN /\ vio[v].pc = "updateMap"
     /\ blockMap' = [blockMap EXCEPT ![LBNOf[v]] = loc]
     /\ stored' = [stored EXCEPT ![LBNOf[v]] = DataOf[v]]
     /\ vio' = [vio EXCEPT ![v].mapped = IF dedupes THEN loc ELSE @,
                           ![v].pc = IF dedupes THEN "lockHash"
                                     ELSE IF vio[v].hashLock # None THEN "finishWrite"
                                     ELSE "releaseAllocated"]
     /\ UNCHANGED <<hashLocks, pbnLocks, refCounts, content, bin, readOnly, scenario>>

-----------------------------------------------------------------------------
(* The packer, as far as the write path sees it.                           *)

\* packCompressedData() of a DataVIO that may be packed
EnterPacker(v) ==
  /\ vio[v].pc = "compress"
  /\ ~vio[v].mayNotCompress
  /\ vio' = [vio EXCEPT ![v].pc = "packer", ![v].status = "PACKING"]
  /\ UNCHANGED allButVIO

\* ... and of one that was canceled or does not compress; or the DataVIO is
\* taken out of the packer by the one that canceled it, or alone in its batch.
AbortPacking(v) ==
  \E pc \in {"compress", "packer"} :
    HashZoneStep(v, pc, LAMBDA z, l, x : abortDeduplication(setCompressionDone(z, x), x))

\* A batch gets an output bin and a block.
StartBatch(S) ==
  /\ bin = None /\ ~readOnly
  /\ \A v \in S : vio[v].pc = "packer" /\ ~vio[v].mayNotCompress
  /\ \E p \in PBNs :
       /\ Allocated(p, "compressed")
       /\ bin' = [pbn |-> p, fragments |-> SetToSeq(S)]
  /\ vio' = [v \in DataVIOs |-> IF v \in S THEN [vio[v] EXCEPT !.pc = "batch", !.status = "POST"]
                                ELSE vio[v]]
  /\ UNCHANGED <<hashLocks, content, blockMap, stored, readOnly, scenario>>

\* finishCompressedWrite(): every DataVIO gets a share of the lock and claims
\* an increment.
shareCompressedWriteLock(z, v, loc) ==
  [Claim(z, loc.pbn) EXCEPT !.pbnLocks[loc.pbn].holderCount = @ + 1,
                            !.vio[v].newMapped = loc,
                            !.vio[v].duplicate = loc,
                            !.vio[v].operation = "compress",
                            !.vio[v].pc = "increment",
                            !.hashLocks[z.vio[v].hashLock].duplicate = loc,
                            !.hashLocks[z.vio[v].hashLock].duplicateLock = loc.pbn]

FinishCompressedWrite ==
  LET p == bin.pbn
      share(z, i) == shareCompressedWriteLock(z, bin.fragments[i], [pbn |-> p, slot |-> i])
  IN /\ bin # None
     /\ content' = [content EXCEPT ![p] =
                      [s \in Slots |-> IF s \in DOMAIN bin.fragments
                                       THEN DataOf[bin.fragments[s]] ELSE Garbage]]
     /\ ZoneBecomes(FoldLeft(share,
                             [ZoneState EXCEPT !.pbnLocks[p] = downgradePBNWriteLock(@)],
                             [i \in DOMAIN bin.fragments |-> i]))
     /\ bin' = None
     /\ UNCHANGED <<refCounts, blockMap, stored, readOnly, scenario>>

\* ... or the write failed: its block is given back, and nothing is packed.
FailCompressedWrite ==
  LET p == bin.pbn
  IN /\ bin # None /\ WriteErrors
     /\ content' = [content EXCEPT ![p] = RawBlock(Garbage)]
     /\ ZoneBecomes(FoldLeft(abortDeduplication,
                             [ZoneState EXCEPT !.pbnLocks[p] = ReleasedLock(@)],
                             bin.fragments))
     /\ refCounts' = [refCounts EXCEPT ![p] = ReleasedCount(pbnLocks[p], @)]
     /\ bin' = None
     /\ UNCHANGED <<blockMap, stored, readOnly, scenario>>

-----------------------------------------------------------------------------
(* The clean-up, stage by stage.                                           *)

\* releaseAllocatedLock()
ReleaseAllocated(v) ==
  LET p == vio[v].allocation
  IN /\ vio[v].pc = "releaseAllocated"
     /\ vio' = [vio EXCEPT ![v].pc = "releaseHashLock", ![v].allocationLock = FALSE]
     /\ IF ~vio[v].allocationLock THEN UNCHANGED <<pbnLocks, refCounts>>
        ELSE /\ pbnLocks' = [pbnLocks EXCEPT ![p] = ReleasedLock(@)]
             /\ refCounts' = [refCounts EXCEPT ![p] = ReleasedCount(pbnLocks[p], @)]
     /\ UNCHANGED <<hashLocks, content, blockMap, stored, bin, readOnly, scenario>>

\* cleanHashLock(), if there is one, and releaseLogicalLock()
CleanHashLock(v) ==
  HashZoneStep(v, "releaseHashLock", LAMBDA z, l, x : To(releaseHashLock(z, x), x, "done"))

-----------------------------------------------------------------------------

Init ==
  /\ scenario \in Scenarios
  /\ vio = [v \in DataVIOs |-> IF v \in Writers THEN NewVIO ELSE [NewVIO EXCEPT !.pc = "done"]]
  /\ hashLocks = [l \in HashLocks |-> FreeLock]
  /\ pbnLocks = [p \in PBNs |-> None]
  /\ refCounts = [p \in PBNs |-> Cardinality({b \in LBNs : InitialMap[b] = p})]
  /\ content = [p \in PBNs |-> RawBlock(InitialData[p])]
  /\ blockMap = [b \in LBNs |-> IF InitialMap[b] = None THEN None
                                ELSE [pbn |-> InitialMap[b], slot |-> 0]]
  /\ stored = [b \in LBNs |-> IF InitialMap[b] = None THEN ZeroData
                              ELSE InitialData[InitialMap[b]]]
  /\ bin = None
  /\ readOnly = FALSE

\* A DataVIO's own progress; in the packer, only one that was canceled has any.
Progress(v) ==
  \/ launchWriteDataVIO(v) \/ allocateBlockForWrite(v) \/ allocateNoBlock(v)
  \/ LockHash(v) \/ Query(v) \/ LockDuplicatePBN(v) \/ FinishLocking(v)
  \/ Verify(v) \/ FinishVerifying(v) \/ UnlockDuplicatePBN(v) \/ FinishUnlocking(v)
  \/ FinishBypassing(v) \/ Update(v) \/ FinishWrite(v) \/ AbortOnError(v)
  \/ WriteBlock(v) \/ ShareBlock(v) \/ Increment(v) \/ Unmap(v) \/ Decrement(v)
  \/ UpdateBlockMap(v) \/ ReleaseAllocated(v) \/ CleanHashLock(v)

Done == /\ \A v \in DataVIOs : vio[v].pc = "done"
        /\ UNCHANGED vars

Next ==
  \/ \E v \in DataVIOs : Progress(v) \/ EnterPacker(v) \/ AbortPacking(v)
  \/ \E S \in SUBSET DataVIOs : Cardinality(S) \in 2 .. MaxSlots /\ StartBatch(S)
  \/ FinishCompressedWrite
  \/ FailCompressedWrite
  \/ Done

\* A DataVIO has a step of its own to take; in the packer, one that was canceled.
MayProceed(v) ==
  /\ vio[v].pc \notin {"done", "wait", "batch"}
  /\ vio[v].pc = "packer" => vio[v].mayNotCompress

\* The zones' threads run every callback that is due, I/O and UDS answer, and
\* a DataVIO that is canceled is taken out of the packer.  Nothing makes a
\* DataVIO leave the packer that is not canceled.
Fairness ==
  /\ \A v \in DataVIOs : []<>~MayProceed(v) \/ []<><<vio'[v] # vio[v]>>_vars
  /\ []<>(bin = None)

Spec == Init /\ [][Next]_vars /\ Fairness

-----------------------------------------------------------------------------
(* Properties.                                                             *)

ProgramCounters ==
  {"start", "allocate", "lockHash", "query", "lockDuplicate", "finishLocking", "verify",
   "finishVerifying", "unlockDuplicate", "finishUnlocking", "finishBypassing", "update",
   "wait", "compress", "packer", "batch", "writeBlock", "shareBlock", "increment", "unmap",
   "decrement", "updateMap", "finishWrite", "releaseAllocated", "releaseHashLock", "done"}

\* Every component of the state has its type (the C types of DataVIO, HashLock
\* and PBNLock, without the fields that are left out).
TypeOK ==
  /\ vio \in [DataVIOs ->
       [pc : ProgramCounters, operation : {"write", "dedupe", "compress", "zero"},
        allocation : PBNs \union {None}, allocationLock : BOOLEAN,
        mapped : Location \union {None}, newMapped : Location \union {None},
        duplicate : Location \union {None}, isDuplicate : BOOLEAN,
        hashLock : HashLocks \union {None},
        status : {"PRE", "COMPRESSING", "PACKING", "POST"}, mayNotCompress : BOOLEAN,
        failed : BOOLEAN]]
  /\ \A l \in HashLocks :
       /\ hashLocks[l].state \in HashLockStates
       /\ hashLocks[l].agent \in DataVIOs \union {None}
       /\ Range(hashLocks[l].waiters) \subseteq DataVIOs
       /\ hashLocks[l].duplicateLock \in PBNs \union {None}
       /\ hashLocks[l].duplicate \in Location \union {None}
  /\ \A p \in PBNs : pbnLocks[p] # None =>
       /\ pbnLocks[p].type \in {"read", "write", "compressed"}
       /\ pbnLocks[p].holderCount \in 1 .. (2 * Cardinality(DataVIOs))
       /\ pbnLocks[p].incrementLimit \in 0 .. MaxReferences
  /\ refCounts \in [PBNs -> PROVISIONAL .. MaxReferences]
  /\ content \in [PBNs -> [Slots -> Data \union {Garbage}]]
  /\ blockMap \in [LBNs -> Location \union {None}]
  /\ readOnly \in BOOLEAN

\* A DataVIO has dropped the reference of its logical block's old mapping but
\* not yet written the new one; nobody reads the block meanwhile (LBN lock).
Remapping(b) ==
  \E v \in DataVIOs : LBNOf[v] = b /\ vio[v].mapped # None
                       /\ \/ vio[v].pc = "updateMap"
                          \/ vio[v].failed /\ vio[v].pc # "done"

\* Every logical block reads as the data last mapped to it: no block is
\* deduplicated against, freed, reallocated or overwritten so that a mapping
\* would lead to other data (the reason for the verified flag, the PBN locks
\* and the order of the steps of vioWrite.c).  A write that is cleaned up
\* without an error has its data mapped.
MappingsAreSound ==
  /\ \A b \in LBNs : blockMap[b] # None /\ ~Remapping(b) /\ ~readOnly
                     => ReadData(blockMap[b]) = stored[b]
  /\ \A v \in DataVIOs :
       vio[v].pc \in {"releaseAllocated", "releaseHashLock"} /\ ~vio[v].failed
         => stored[LBNOf[v]] = DataOf[v]

\* The reference count of a block is the number of logical blocks mapped to
\* it, give or take the writes between their count update and their block map
\* update; a provisional reference counts for none (refCounts.c, vioWrite.c).
\* The increments claimed through PBN locks fit the counter: none finds it at
\* the maximum, which would put the VDO into read-only mode ("Incrementing a
\* block already having 254 references", claimPBNLockIncrement()).
ReferencesAreExact ==
  LET counted(p) == IF refCounts[p] = PROVISIONAL THEN 0 ELSE refCounts[p]
      mappings(p) == {b \in LBNs : blockMap[b] # None /\ blockMap[b].pbn = p}
      incremented(p) == {v \in DataVIOs : /\ vio[v].pc \in {"unmap", "decrement", "updateMap"}
                                          /\ vio[v].operation # "zero"
                                          /\ vio[v].newMapped.pbn = p}
      decremented(p) == {v \in DataVIOs : vio[v].pc = "updateMap" /\ vio[v].mapped # None
                                          /\ vio[v].mapped.pbn = p}
  IN /\ \A v \in DataVIOs :
          vio[v].pc = "increment" => refCounts[vio[v].newMapped.pbn] < MaxReferences
     /\ ~readOnly =>
          \A p \in PBNs : counted(p) = Cardinality(mappings(p)) + Cardinality(incremented(p))
                                        - Cardinality(decremented(p))

\* The holders of a PBN lock are the DataVIOs, hash locks and writers that
\* refer to it; a lock nobody refers to is gone (no lock leaks, and none is
\* released twice).
LocksAreHeld ==
  \A p \in PBNs :
    LET owners == Cardinality({v \in DataVIOs : vio[v].allocationLock /\ vio[v].allocation = p})
                  + Cardinality({l \in HashLocks : hashLocks[l].duplicateLock = p})
                  + (IF bin # None /\ bin.pbn = p THEN 1 ELSE 0)
    IN IF pbnLocks[p] = None THEN owners = 0 ELSE pbnLocks[p].holderCount = owners

\* The callbacks an agent may be in, in each state of its hash lock.
AgentCallbacks ==
  [QUERYING |-> {"query"}, LOCKING |-> {"lockDuplicate", "finishLocking"},
   VERIFYING |-> {"verify", "finishVerifying"}, UPDATING |-> {"update"},
   UNLOCKING |-> {"unlockDuplicate", "finishUnlocking"},
   WRITING |-> {"compress", "packer", "batch", "writeBlock", "increment", "unmap",
                "decrement", "updateMap", "finishWrite"}]

\* "Every state represents and is held for the duration of an asynchronous
\* operation", performed by the agent; the other holders of the lock wait in
\* its queue.  In DEDUPING there is no agent and nobody waits (hashLock.c).
AgentOwnsTheLock ==
  \A l \in HashLocks :
    LET lock == hashLocks[l]
        holders == Holders(ZoneState, l)
    IN /\ lock.state = "FREE" <=> holders = {}
       /\ lock.state \in DOMAIN AgentCallbacks =>
            /\ lock.agent \in holders
            /\ vio[lock.agent].pc \in AgentCallbacks[lock.state]
            /\ Range(lock.waiters) = holders \ {lock.agent}
            /\ Len(lock.waiters) = Cardinality(holders) - 1
       /\ lock.state = "DEDUPING" => lock.agent = None /\ lock.waiters = <<>>
       /\ \A w \in Range(lock.waiters) : vio[w].pc = "wait"

\* "Hash lock returned to zone must not reference a PBN lock" (hashZone.c,
\* returnHashLockToZone()).
ReturnedLockHoldsNoPBNLock ==
  [][\A l \in HashLocks :
       hashLocks[l].state # "FREE" /\ hashLocks'[l].state = "FREE"
         => hashLocks[l].duplicateLock = None]_vars

=============================================================================
