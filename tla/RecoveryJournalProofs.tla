------------------------ MODULE RecoveryJournalProofs ------------------------
(***************************************************************************)
(* The recovery journal never runs out of room for a decrement: proof of   *)
(* DecrementAlwaysFits for any number of DataVIOs, any size of the journal *)
(* and of its blocks and any number of tail blocks, with every failure and *)
(* every drain.                                                            *)
(*                                                                         *)
(* DecrementAlwaysFits only looks at the step that finds no room; what is  *)
(* inductive is the promise behind it.  Each data increment which has its  *)
(* entry, and each waiting decrement, is counted in pendingDecrementCount, *)
(* and the free entries cover that count.  That the count follows the      *)
(* DataVIOs depends on where they wait: in one place at a time, and not    *)
(* released while they do.                                                 *)
(***************************************************************************)
EXTENDS RecoveryJournal, TLAPS

(* The DataVIOs in the queues of the journal, and those of a block.        *)
Queued == Range(incrementWaiters) \cup Range(decrementWaiters)
Held(b) == Range(b.commitWaiters) \cup Range(b.entryWaiters)
Separate(b) == Range(b.commitWaiters) \cap Range(b.entryWaiters) = {}

(* The DataVIOs a decrement is still to come from: those whose data        *)
(* increment has its entry, and those whose decrement waits for one.       *)
Owing ==
  {v \in DataVIOs : /\ vio[v].operation = "DATA_INCREMENT"
                    /\ vio[v].state \in {"journal", "committed", "referenced"}
                    /\ v \notin Range(incrementWaiters)}
    \cup Range(decrementWaiters)

Block == [sequenceNumber : Nat, entryCount : Nat, entriesInCommit : Nat,
          committing : BOOLEAN, heads : Nat,
          entryWaiters : Seq(DataVIOs), commitWaiters : Seq(DataVIOs)]
VIO == [state : {"ready", "journal", "committed", "referenced", "aborted"},
        operation : Operations, point : Points, lock : Nat]

(* The types of the variables the promise is about.                        *)
RoomTypes ==
  /\ incrementWaiters \in Seq(DataVIOs) /\ decrementWaiters \in Seq(DataVIOs)
  /\ blocks \in Seq(Block)
  /\ tail \in Nat /\ written \in Nat /\ lastWriteAcknowledged \in Nat
  /\ head \in [HeadTypes -> Nat] /\ reapHead \in [HeadTypes -> Nat]
  /\ availableSpace \in Nat /\ pendingDecrementCount \in Nat
  /\ vio \in [DataVIOs -> VIO]
  /\ scenario \in Scenarios

(* A DataVIO waits at most once in a queue, with the operation the queue   *)
(* is for, and has not been released.                                      *)
QueuesInOrder ==
  /\ IsInjective(incrementWaiters) /\ IsInjective(decrementWaiters)
  /\ \A v \in Range(incrementWaiters) :
       vio[v].state = "journal" /\ vio[v].operation \in Increments
  /\ \A v \in Range(decrementWaiters) :
       vio[v].state = "journal" /\ vio[v].operation = "DATA_DECREMENT"

(* A DataVIO waits in one block at most, once, and not in a queue as well. *)
BlocksInOrder ==
  /\ \A i \in DOMAIN blocks :
       /\ Separate(blocks[i])
       /\ \A v \in Held(blocks[i]) : vio[v].state = "journal" /\ v \notin Queued
  /\ \A i, j \in DOMAIN blocks : i # j => Held(blocks[i]) \cap Held(blocks[j]) = {}

(* S has at most n elements.  (Said with a function rather than with       *)
(* Cardinality: nothing here depends on how many DataVIOs there are.)      *)
Fits(S, n) == \E f \in [S -> 1 .. n] : IsInjective(f)

(* The promise of checkForEntrySpace: the free entries cover the decrement *)
(* which each counted DataVIO will ask for, and all of them are counted.   *)
SpaceIsPromised ==
  /\ pendingDecrementCount <= availableSpace
  /\ Fits(Owing, pendingDecrementCount)

(* Reaping never moves a head back, so that it never takes room away.      *)
HeadsInOrder == \A t \in HeadTypes : head[t] <= reapHead[t]

(* The inductive invariant.                                                *)
RoomInv == /\ RoomTypes /\ QueuesInOrder /\ BlocksInOrder /\ SpaceIsPromised
           /\ HeadsInOrder /\ DecrementAlwaysFits

-----------------------------------------------------------------------------
(* Sequences, minima and finite sets.                                      *)

(* A waiter joins a queue at its end.                                      *)
LEMMA RangeAppend ==
  ASSUME NEW S, NEW s \in Seq(S), NEW e \in S
  PROVE  /\ Append(s, e) \in Seq(S)
         /\ Range(Append(s, e)) = Range(s) \cup {e}
         /\ IsInjective(s) /\ e \notin Range(s) => IsInjective(Append(s, e))
<1>1. /\ Append(s, e) \in Seq(S) /\ Len(Append(s, e)) = Len(s) + 1
      /\ DOMAIN s = 1 .. Len(s) /\ DOMAIN Append(s, e) = 1 .. Len(s) + 1
      /\ \A i \in 1 .. Len(s) : Append(s, e)[i] = s[i]
      /\ Append(s, e)[Len(s) + 1] = e
  OBVIOUS
<1>2. Range(Append(s, e)) = Range(s) \cup {e}
  BY <1>1 DEF Range
<1>3. ASSUME IsInjective(s), e \notin Range(s)
      PROVE  IsInjective(Append(s, e))
  BY <1>1, <1>3 DEF Range, IsInjective
<1>. QED  BY <1>1, <1>2, <1>3

(* assignEntries() takes the first waiter of a queue.                      *)
LEMMA RangeTail ==
  ASSUME NEW S, NEW s \in Seq(S), s # <<>>, IsInjective(s)
  PROVE  /\ Head(s) \in Range(s) /\ Head(s) \in S
         /\ Tail(s) \in Seq(S) /\ IsInjective(Tail(s))
         /\ Range(Tail(s)) = Range(s) \ {Head(s)}
<1>1. /\ Len(s) \in Nat /\ Len(s) > 0 /\ Head(s) = s[1] /\ Head(s) \in S
      /\ Tail(s) \in Seq(S) /\ Len(Tail(s)) = Len(s) - 1
      /\ DOMAIN s = 1 .. Len(s) /\ DOMAIN Tail(s) = 1 .. Len(s) - 1
      /\ \A i \in 1 .. Len(s) - 1 : Tail(s)[i] = s[i + 1]
  OBVIOUS
<1>2. Head(s) \in Range(s)
  BY <1>1 DEF Range
<1>3. IsInjective(Tail(s))
  BY <1>1 DEF IsInjective
<1>4. ASSUME NEW v \in Range(Tail(s))
      PROVE  v \in Range(s) \ {Head(s)}
  <2>1. PICK i \in 1 .. Len(s) - 1 : v = s[i + 1]
    BY <1>1 DEF Range
  <2>2. i + 1 \in 1 .. Len(s) /\ 1 \in 1 .. Len(s) /\ i + 1 # 1
    BY <1>1
  <2>. QED  BY <1>1, <2>1, <2>2 DEF Range, IsInjective
<1>5. ASSUME NEW v \in Range(s), v # Head(s)
      PROVE  v \in Range(Tail(s))
  <2>1. PICK i \in 1 .. Len(s) : v = s[i]
    BY <1>1 DEF Range
  <2>2. i - 1 \in 1 .. Len(s) - 1 /\ (i - 1) + 1 = i
    BY <1>1, <1>5, <2>1
  <2>. QED  BY <1>1, <2>1, <2>2, Zenon DEF Range
<1>. QED  BY <1>1, <1>2, <1>3, <1>4, <1>5

(* A block's new entries join those which are being committed.             *)
LEMMA RangeConcat ==
  ASSUME NEW S, NEW s \in Seq(S), NEW t \in Seq(S)
  PROVE  s \o t \in Seq(S) /\ Range(s \o t) = Range(s) \cup Range(t)
<1>1. /\ s \o t \in Seq(S) /\ Len(s) \in Nat /\ Len(t) \in Nat
      /\ DOMAIN s = 1 .. Len(s) /\ DOMAIN t = 1 .. Len(t)
      /\ DOMAIN (s \o t) = 1 .. Len(s) + Len(t)
      /\ \A i \in 1 .. Len(s) + Len(t) :
           (s \o t)[i] = IF i <= Len(s) THEN s[i] ELSE t[i - Len(s)]
  OBVIOUS
<1>2. ASSUME NEW v \in Range(s \o t)
      PROVE  v \in Range(s) \cup Range(t)
  BY <1>1 DEF Range
<1>3. ASSUME NEW v \in Range(s)
      PROVE  v \in Range(s \o t)
  BY <1>1 DEF Range
<1>4. ASSUME NEW v \in Range(t)
      PROVE  v \in Range(s \o t)
  <2>1. PICK i \in 1 .. Len(t) : v = t[i]
    BY <1>1 DEF Range
  <2>2. /\ Len(s) + i \in 1 .. Len(s) + Len(t)
        /\ ~(Len(s) + i <= Len(s)) /\ (Len(s) + i) - Len(s) = i
    BY <1>1
  <2>. QED  BY <1>1, <2>1, <2>2 DEF Range
<1>. QED  BY <1>1, <1>2, <1>3, <1>4

(* The DataVIOs of a queue are DataVIOs.                                   *)
LEMMA RangeType ==
  ASSUME NEW S, NEW s \in Seq(S)
  PROVE  Range(s) \subseteq S
  BY DEF Range

(* An emptied queue holds nobody.                                          *)
LEMMA RangeEmpty ==
  /\ <<>> \in Seq(DataVIOs)
  /\ Range(<<>>) = {} /\ IsInjective(<<>>)
  BY DEF Range, IsInjective

(* Counting without finite sets: part of what fits fits as well.           *)
LEMMA FitsSubset ==
  ASSUME NEW S, NEW n \in Nat, NEW T, Fits(S, n), T \subseteq S
  PROVE  Fits(T, n)
<1>1. PICK f \in [S -> 1 .. n] : IsInjective(f)
  BY DEF Fits
<1> DEFINE g == [x \in T |-> f[x]]
<1>2. g \in [T -> 1 .. n] /\ IsInjective(g)
  BY <1>1 DEF IsInjective
<1>. QED  BY <1>2, Zenon DEF Fits

(* A data increment which gets its entry is one more to count.             *)
LEMMA FitsAdd ==
  ASSUME NEW S, NEW n \in Nat, NEW v, Fits(S, n)
  PROVE  Fits(S \cup {v}, n + 1)
<1>1. PICK f \in [S -> 1 .. n] : IsInjective(f)
  BY DEF Fits
<1> DEFINE g == [x \in S \cup {v} |-> IF x \in S THEN f[x] ELSE n + 1]
<1>2. \A x \in S : f[x] \in 1 .. n /\ f[x] \in 1 .. n + 1 /\ f[x] # n + 1
  BY <1>1
<1>3. g \in [S \cup {v} -> 1 .. n + 1]
  BY <1>2
<1>4. IsInjective(g)
  BY <1>1, <1>2 DEF IsInjective
<1>. QED  BY <1>3, <1>4, Zenon DEF Fits

(* A decrement which gets its entry was counted, so the count goes down by *)
(* one and was not zero.                                                   *)
LEMMA FitsRemove ==
  ASSUME NEW S, NEW n \in Nat, NEW v \in S, Fits(S, n)
  PROVE  0 < n /\ Fits(S \ {v}, n - 1)
<1>1. PICK f \in [S -> 1 .. n] : IsInjective(f)
  BY DEF Fits
<1>2. f[v] \in 1 .. n /\ \A x \in S : f[x] \in 1 .. n
  BY <1>1
<1> DEFINE g == [x \in S \ {v} |-> IF f[x] = n THEN f[v] ELSE f[x]]
<1>3. \A x \in S \ {v} : f[x] # f[v]
  BY <1>1 DEF IsInjective
<1>4. g \in [S \ {v} -> 1 .. n - 1]
  BY <1>2, <1>3
<1>5. IsInjective(g)
  BY <1>1, <1>3 DEF IsInjective
<1>6. Fits(S \ {v}, n - 1)
  BY <1>4, <1>5, Zenon DEF Fits
<1>. QED  BY <1>2, <1>6

(* Of a journal just started, nobody is owed an entry.                     *)
LEMMA FitsEmpty == Fits({}, 0)
<1> DEFINE g == [x \in {} |-> 0]
<1>1. g \in [{} -> 1 .. 0] /\ IsInjective(g)
  BY DEF IsInjective
<1>. QED  BY <1>1, Zenon DEF Fits

(* The number of entries of a journal block is that of the scenario.       *)
LEMMA EntriesPerBlockType ==
  ASSUME RoomTypes
  PROVE  EntriesPerBlock \in Nat
  BY RecoveryJournalConstants DEF RoomTypes, EntriesPerBlock

-----------------------------------------------------------------------------
(* The tail blocks.                                                        *)

(* Writing a block moves its waiters within the block.                     *)
LEMMA WriteBlockKeeps ==
  ASSUME NEW bs \in Seq(Block), NEW i \in 0 .. Len(bs), head \in [HeadTypes -> Nat]
  PROVE  /\ writeBlock(bs, i) \in Seq(Block)
         /\ Len(writeBlock(bs, i)) = Len(bs)
         /\ \A j \in 1 .. Len(bs) :
              /\ Held(writeBlock(bs, i)[j]) = Held(bs[j])
              /\ Separate(bs[j]) => Separate(writeBlock(bs, i)[j])
<1>1. CASE shouldCommit(bs, i)
  <2> DEFINE b == bs[i]
             c == [sequenceNumber |-> b.sequenceNumber, entryCount |-> b.entryCount,
                   entriesInCommit |-> Len(b.entryWaiters), committing |-> TRUE,
                   heads |-> getRecoveryJournalHead(head), entryWaiters |-> <<>>,
                   commitWaiters |-> b.commitWaiters \o b.entryWaiters]
  <2>1. i \in 1 .. Len(bs) /\ b \in Block
    BY <1>1 DEF shouldCommit
  <2>2. /\ b.commitWaiters \in Seq(DataVIOs) /\ b.entryWaiters \in Seq(DataVIOs)
        /\ b.sequenceNumber \in Nat /\ b.entryCount \in Nat
    BY <2>1, Zenon DEF Block
  <2>3. Len(b.entryWaiters) \in Nat /\ getRecoveryJournalHead(head) \in Nat
    BY <2>2 DEF getRecoveryJournalHead, Minimum, HeadTypes
  <2>4. /\ b.commitWaiters \o b.entryWaiters \in Seq(DataVIOs)
        /\ Range(b.commitWaiters \o b.entryWaiters) = Held(b)
    BY <2>2, RangeConcat DEF Held
  <2>5. c \in Block /\ Held(c) = Held(b) /\ Separate(c)
    <3>1. <<>> \in Seq(DataVIOs)
      OBVIOUS
    <3>2. c \in Block
      BY <2>2, <2>3, <2>4, <3>1, Zenon DEF Block
    <3>. QED  BY <2>4, <3>2, RangeEmpty DEF Held, Separate
  <2>6. writeBlock(bs, i) = [bs EXCEPT ![i] = c]
    BY <1>1, Zenon DEF writeBlock
  <2>. HIDE DEF b, c
  <2>7. /\ [bs EXCEPT ![i] = c] \in Seq(Block)
        /\ Len([bs EXCEPT ![i] = c]) = Len(bs)
        /\ \A j \in 1 .. Len(bs) : [bs EXCEPT ![i] = c][j] = IF j = i THEN c ELSE bs[j]
    BY <2>1, <2>5
  <2>. QED  BY <2>1, <2>5, <2>6, <2>7 DEF b
<1>2. CASE ~shouldCommit(bs, i)
  BY <1>2 DEF writeBlock
<1>. QED  BY <1>1, <1>2

(* After a step which lets blocks go at the oldest end, lets their waiters *)
(* go or moves them within a block, everybody still waits in one place.    *)
LEMMA BlocksStayInOrder ==
  ASSUME NEW n \in Nat, blocks \in Seq(Block), blocks' \in Seq(Block),
         BlocksInOrder, n + Len(blocks') <= Len(blocks),
         \A j \in 1 .. Len(blocks') :
           /\ Held(blocks'[j]) \subseteq Held(blocks[n + j])
           /\ Separate(blocks'[j])
           /\ \A v \in Held(blocks'[j]) : vio'[v].state = "journal" /\ v \notin Queued'
  PROVE  BlocksInOrder'
<1>1. /\ Len(blocks) \in Nat /\ DOMAIN blocks = 1 .. Len(blocks)
      /\ Len(blocks') \in Nat /\ DOMAIN blocks' = 1 .. Len(blocks')
  OBVIOUS
<1>2. ASSUME NEW i \in 1 .. Len(blocks'), NEW j \in 1 .. Len(blocks'), i # j
      PROVE  Held(blocks'[i]) \cap Held(blocks'[j]) = {}
  <2>1. n + i \in 1 .. Len(blocks) /\ n + j \in 1 .. Len(blocks) /\ n + i # n + j
    BY <1>1, <1>2
  <2>2. Held(blocks[n + i]) \cap Held(blocks[n + j]) = {}
    BY <1>1, <2>1, Zenon DEF BlocksInOrder
  <2>. QED  BY <2>2, Zenon
<1>. QED  BY <1>1, <1>2, Zenon DEF BlocksInOrder

(* The promise is kept when nobody new owes a decrement and no room is     *)
(* used.                                                                   *)
LEMMA PromiseKept ==
  ASSUME RoomTypes, SpaceIsPromised, Owing' \subseteq Owing,
         pendingDecrementCount' = pendingDecrementCount,
         availableSpace' \in Nat, availableSpace <= availableSpace'
  PROVE  SpaceIsPromised'
<1>1. pendingDecrementCount \in Nat /\ Fits(Owing, pendingDecrementCount)
  BY DEF RoomTypes, SpaceIsPromised
<1>2. Fits(Owing', pendingDecrementCount')
  BY <1>1, FitsSubset
<1>3. pendingDecrementCount' <= availableSpace'
  BY DEF SpaceIsPromised, RoomTypes
<1>. QED  BY <1>2, <1>3, Zenon DEF SpaceIsPromised, Fits

-----------------------------------------------------------------------------
(* Steps which nobody who waits or owes a decrement notices.               *)

(* A journal just made keeps its promise: nothing waits and nothing is     *)
(* owed.                                                                   *)
LEMMA RoomInit == Init => RoomInv
<1> SUFFICES ASSUME Init
             PROVE  RoomInv
  OBVIOUS
<1>1. scenario \in Scenarios /\ EntriesPerBlock \in Nat
  BY RecoveryJournalConstants DEF Init, EntriesPerBlock
<1>2. getRecoveryJournalLength \in Nat
  BY RecoveryJournalConstants DEF getRecoveryJournalLength, Minimum
<1>3. availableSpace \in Nat /\ pendingDecrementCount = 0
  BY <1>1, <1>2 DEF Init
<1>4. NewVIO \in VIO
  BY DEF NewVIO, VIO, Operations, Points
<1>5. RoomTypes
  BY <1>1, <1>3, <1>4 DEF Init, RoomTypes, HeadTypes
<1>6. incrementWaiters = <<>> /\ decrementWaiters = <<>> /\ blocks = <<>>
  BY DEF Init
<1>7. QueuesInOrder
  BY <1>6, RangeEmpty DEF QueuesInOrder
<1>8. BlocksInOrder
  BY <1>6 DEF BlocksInOrder
<1>9. Owing = {}
  <2>1. \A v \in DataVIOs : vio[v].operation = "DATA_DECREMENT"
    BY DEF Init, NewVIO
  <2>. QED  BY <1>6, <2>1, RangeEmpty DEF Owing
<1>10. SpaceIsPromised
  BY <1>3, <1>9, FitsEmpty DEF SpaceIsPromised
<1>11. HeadsInOrder /\ DecrementAlwaysFits
  BY DEF Init, HeadsInOrder, DecrementAlwaysFits
<1>. QED  BY <1>5, <1>7, <1>8, <1>10, <1>11 DEF RoomInv

(* Queues and DataVIOs stay as they are.                                   *)
LEMMA SameWaiters ==
  ASSUME RoomInv, RoomTypes', BlocksInOrder', HeadsInOrder', DecrementAlwaysFits',
         incrementWaiters' = incrementWaiters, decrementWaiters' = decrementWaiters,
         vio' = vio, pendingDecrementCount' = pendingDecrementCount,
         availableSpace <= availableSpace'
  PROVE  RoomInv'
<1>1. QueuesInOrder'
  BY Zenon DEF RoomInv, QueuesInOrder
<1>2. Owing' \subseteq Owing
  BY Zenon DEF Owing
<1>3. availableSpace' \in Nat
  BY DEF RoomTypes
<1>4. SpaceIsPromised'
  BY <1>2, <1>3, PromiseKept DEF RoomInv
<1>. QED  BY <1>1, <1>4 DEF RoomInv

(* So do the blocks.                                                       *)
LEMMA SameBlocks ==
  ASSUME RoomInv, RoomTypes', HeadsInOrder', DecrementAlwaysFits',
         incrementWaiters' = incrementWaiters, decrementWaiters' = decrementWaiters,
         blocks' = blocks,
         vio' = vio, pendingDecrementCount' = pendingDecrementCount,
         availableSpace <= availableSpace'
  PROVE  RoomInv'
<1>1. BlocksInOrder'
  BY Zenon DEF RoomInv, BlocksInOrder, Queued
<1>. QED  BY <1>1, SameWaiters

(* Each of these steps leaves the waiters and the space alone.             *)
LEMMA QuietStep ==
  ASSUME RoomInv,
         \/ ReapRecoveryJournalCallback \/ NotifyOfReadOnlyMode
         \/ \E i \in DOMAIN blocks : WriteDone(i) \/ WriteError(i)
         \/ FlushError \/ EnterReadOnlyMode
         \/ \E o \in AdminOperations : DrainRecoveryJournal(o)
         \/ \E t \in HeadTypes, l \in Locks : ReleaseZoneLock(t, l)
         \/ UNCHANGED vars
  PROVE  RoomInv'
<1>1. /\ incrementWaiters' = incrementWaiters /\ decrementWaiters' = decrementWaiters
      /\ blocks' = blocks /\ vio' = vio /\ tail' = tail /\ head' = head
      /\ reapHead' = reapHead /\ lastWriteAcknowledged' = lastWriteAcknowledged
      /\ availableSpace' = availableSpace
      /\ pendingDecrementCount' = pendingDecrementCount /\ scenario' = scenario
  BY Zenon DEF ReapRecoveryJournalCallback, NotifyOfReadOnlyMode, WriteDone, WriteError,
     FlushError, EnterReadOnlyMode, DrainRecoveryJournal, ReleaseZoneLock, vars,
     queueVars, spaceVars
<1>2. readOnly' \in {readOnly, "write", "flush", "other"}
  BY Zenon DEF ReapRecoveryJournalCallback, NotifyOfReadOnlyMode, WriteDone, WriteError,
     FlushError, EnterReadOnlyMode, DrainRecoveryJournal, ReleaseZoneLock, vars,
     modeVars
<1>3. written' = written \/ \E i \in DOMAIN blocks : written' = blocks[i].sequenceNumber
  BY Zenon DEF ReapRecoveryJournalCallback, NotifyOfReadOnlyMode, WriteDone, WriteError,
     FlushError, EnterReadOnlyMode, DrainRecoveryJournal, ReleaseZoneLock, vars
<1>4. written' \in Nat
  <2>1. blocks \in Seq(Block) /\ written \in Nat
    BY DEF RoomInv, RoomTypes
  <2>2. \A i \in DOMAIN blocks : blocks[i] \in Block
    BY <2>1
  <2>. QED  BY <1>3, <2>1, <2>2, Zenon DEF Block
<1>5. RoomTypes'
  BY <1>1, <1>4, Zenon DEF RoomInv, RoomTypes, Block, VIO
<1>6. HeadsInOrder' /\ DecrementAlwaysFits'
  BY <1>1, <1>2 DEF RoomInv, HeadsInOrder, DecrementAlwaysFits
<1>7. availableSpace <= availableSpace'
  BY <1>1 DEF RoomInv, RoomTypes
<1>. QED  BY <1>1, <1>5, <1>6, <1>7, SameBlocks

-----------------------------------------------------------------------------
(* Reaping and resuming.                                                   *)

(* A reap head never moves backwards.                                      *)
LEMMA ReapToAdvances ==
  ASSUME RoomTypes, NEW t \in HeadTypes
  PROVE  reapTo(t) \in Nat /\ reapHead[t] <= reapTo(t)
<1> DEFINE stops == {n \in reapHead[t] .. lastWriteAcknowledged :
                       /\ n = lastWriteAcknowledged \/ isLocked(n, t)
                       /\ \A m \in reapHead[t] .. n - 1 : ~isLocked(m, t)}
<1>1. reapHead[t] \in Nat /\ lastWriteAcknowledged \in Nat
  BY DEF RoomTypes
<1>2. stops \in SUBSET Nat /\ \A n \in stops : reapHead[t] <= n
  BY <1>1
<1>3. reapTo(t) = IF stops = {} THEN reapHead[t] ELSE CHOOSE n \in stops : TRUE
  BY Zenon DEF reapTo
<1>. HIDE DEF stops
<1>4. stops # {} => (CHOOSE n \in stops : TRUE) \in stops
  BY Zenon
<1>5. CASE stops = {}
  BY <1>1, <1>3, <1>5
<1>6. CASE stops # {}
  <2>1. reapTo(t) \in stops
    BY <1>3, <1>4, <1>6
  <2>. QED  BY <1>2, <2>1, Zenon
<1>. QED  BY <1>5, <1>6

(* Reaping only makes room.                                                *)
LEMMA FinishReapingMakesRoom ==
  ASSUME RoomTypes, NEW heads \in [HeadTypes -> Nat],
         \A t \in HeadTypes : head[t] <= heads[t], FinishReaping(heads)
  PROVE  availableSpace' \in Nat /\ availableSpace <= availableSpace'
<1> DEFINE more == getRecoveryJournalHead(heads) - getRecoveryJournalHead(head)
<1>1. /\ "blockMap" \in HeadTypes /\ "slabJournal" \in HeadTypes
      /\ head \in [HeadTypes -> Nat] /\ availableSpace \in Nat
  BY DEF RoomTypes, HeadTypes
<1>2. more \in Nat
  BY <1>1 DEF getRecoveryJournalHead, Minimum
<1>3. EntriesPerBlock \in Nat
  BY EntriesPerBlockType
<1>4. availableSpace' = availableSpace + more * EntriesPerBlock
  BY Zenon DEF FinishReaping
<1>. HIDE DEF more
<1>5. more * EntriesPerBlock \in Nat
  BY <1>2, <1>3
<1>. QED  BY <1>1, <1>4, <1>5

(* Reaping (reapRecoveryJournal, completeReaping, the resume that starts   *)
(* it) only moves the heads forward and only adds room.                    *)
LEMMA ReapStep ==
  ASSUME RoomInv, ReapRecoveryJournal \/ CompleteReaping \/ ResumeRecoveryJournal
  PROVE  RoomInv'
<1>1. /\ incrementWaiters' = incrementWaiters /\ decrementWaiters' = decrementWaiters
      /\ blocks' = blocks /\ vio' = vio /\ tail' = tail /\ written' = written
      /\ pendingDecrementCount' = pendingDecrementCount /\ scenario' = scenario
      /\ readOnly' = readOnly
  BY Zenon DEF ReapRecoveryJournal, CompleteReaping, ResumeRecoveryJournal, queueVars,
     modeVars
<1>2. /\ head \in [HeadTypes -> Nat] /\ reapHead \in [HeadTypes -> Nat]
      /\ availableSpace \in Nat /\ tail \in Nat /\ lastWriteAcknowledged \in Nat
      /\ \A t \in HeadTypes : head[t] <= reapHead[t]
  BY DEF RoomInv, RoomTypes, HeadsInOrder
<1>3. SUFFICES /\ lastWriteAcknowledged' \in Nat
               /\ head' \in [HeadTypes -> Nat] /\ reapHead' \in [HeadTypes -> Nat]
               /\ \A t \in HeadTypes : head'[t] <= reapHead'[t]
               /\ availableSpace' \in Nat /\ availableSpace <= availableSpace'
  <2>1. RoomTypes'
    BY <1>1, <1>3, Zenon DEF RoomInv, RoomTypes, Block, VIO
  <2>2. HeadsInOrder' /\ DecrementAlwaysFits'
    BY <1>1, <1>3 DEF RoomInv, HeadsInOrder, DecrementAlwaysFits
  <2>. QED  BY <1>1, <1>3, <2>1, <2>2, SameBlocks
<1>4. CASE ReapRecoveryJournal
  <2> DEFINE heads == [t \in HeadTypes |-> reapTo(t)]
  <2>1. /\ heads \in [HeadTypes -> Nat]
        /\ \A t \in HeadTypes : head[t] <= heads[t]
    <3>1. ASSUME NEW t \in HeadTypes
          PROVE  reapTo(t) \in Nat /\ head[t] <= reapTo(t)
      <4>1. reapTo(t) \in Nat /\ reapHead[t] <= reapTo(t)
        BY ReapToAdvances DEF RoomInv
      <4>2. head[t] \in Nat /\ reapHead[t] \in Nat /\ head[t] <= reapHead[t]
        BY <1>2
      <4>. QED  BY <4>1, <4>2
    <3>. QED  BY <3>1
  <2>2. lastWriteAcknowledged' = lastWriteAcknowledged
    BY <1>4 DEF ReapRecoveryJournal
  <2>3. \/ head' = head /\ availableSpace' = availableSpace /\ reapHead' = reapHead
        \/ head' = head /\ availableSpace' = availableSpace /\ reapHead' = heads
        \/ FinishReaping(heads) /\ reapHead' = heads
    BY <1>4, Zenon DEF ReapRecoveryJournal
  <2>. HIDE DEF heads
  <2>4. CASE head' = head /\ availableSpace' = availableSpace /\ reapHead' = reapHead
    BY <1>2, <2>2, <2>4
  <2>5. CASE head' = head /\ availableSpace' = availableSpace /\ reapHead' = heads
    BY <1>2, <2>1, <2>2, <2>5
  <2>6. CASE FinishReaping(heads) /\ reapHead' = heads
    <3>1. availableSpace' \in Nat /\ availableSpace <= availableSpace'
      BY <2>1, <2>6, FinishReapingMakesRoom DEF RoomInv
    <3>2. head' = heads
      BY <2>6 DEF FinishReaping
    <3>. QED  BY <1>2, <2>1, <2>2, <2>6, <3>1, <3>2
  <2>. QED  BY <2>3, <2>4, <2>5, <2>6
<1>5. CASE CompleteReaping
  <2>1. /\ lastWriteAcknowledged' = lastWriteAcknowledged /\ reapHead' = reapHead
        /\ head' = reapHead /\ FinishReaping(reapHead)
    BY <1>5, Zenon DEF CompleteReaping, FinishReaping
  <2>2. availableSpace' \in Nat /\ availableSpace <= availableSpace'
    BY <1>2, <2>1, FinishReapingMakesRoom DEF RoomInv
  <2>. QED  BY <1>2, <2>1, <2>2
<1>6. CASE ResumeRecoveryJournal
  <2>1. availableSpace' = availableSpace
    BY <1>6 DEF ResumeRecoveryJournal
  <2>2. \/ /\ lastWriteAcknowledged' = tail
           /\ head' = [t \in HeadTypes |-> tail] /\ reapHead' = [t \in HeadTypes |-> tail]
        \/ /\ lastWriteAcknowledged' = lastWriteAcknowledged
           /\ head' = head /\ reapHead' = reapHead
    BY <1>6, Zenon DEF ResumeRecoveryJournal
  <2>. QED  BY <1>2, <2>1, <2>2
<1>. QED  BY <1>4, <1>5, <1>6

-----------------------------------------------------------------------------
(* Steps which rearrange the tail blocks.                                  *)

(* The fields of the tail blocks, as the step lemmas use them.             *)
LEMMA BlockTypes ==
  ASSUME RoomTypes
  PROVE  /\ Len(blocks) \in Nat /\ DOMAIN blocks = 1 .. Len(blocks)
         /\ \A i \in 1 .. Len(blocks) :
              /\ blocks[i] \in Block
              /\ blocks[i].sequenceNumber \in Nat /\ blocks[i].entryCount \in Nat
              /\ blocks[i].commitWaiters \in Seq(DataVIOs)
              /\ blocks[i].entryWaiters \in Seq(DataVIOs)
<1>1. blocks \in Seq(Block)
  BY DEF RoomTypes
<1>2. /\ Len(blocks) \in Nat /\ DOMAIN blocks = 1 .. Len(blocks)
      /\ \A i \in 1 .. Len(blocks) : blocks[i] \in Block
  BY <1>1
<1>. QED  BY <1>2, Zenon DEF Block

(* A step after which every block has the waiters it had.                  *)
LEMMA SameHolders ==
  ASSUME RoomInv, blocks' \in Seq(Block), Len(blocks') = Len(blocks),
         \A j \in 1 .. Len(blocks) :
           Held(blocks'[j]) = Held(blocks[j]) /\ Separate(blocks'[j]),
         incrementWaiters' = incrementWaiters, decrementWaiters' = decrementWaiters,
         vio' = vio, tail' = tail, head' = head, reapHead' = reapHead,
         availableSpace' = availableSpace,
         pendingDecrementCount' = pendingDecrementCount,
         written' \in Nat, lastWriteAcknowledged' \in Nat, scenario' = scenario,
         readOnly' = readOnly
  PROVE  RoomInv'
<1>1. RoomTypes'
  BY Zenon DEF RoomInv, RoomTypes, Block, VIO
<1>2. HeadsInOrder' /\ DecrementAlwaysFits' /\ Queued' = Queued
  BY Zenon DEF RoomInv, HeadsInOrder, DecrementAlwaysFits, Queued
<1>3. blocks \in Seq(Block) /\ Len(blocks) \in Nat /\ DOMAIN blocks = 1 .. Len(blocks)
  BY BlockTypes DEF RoomInv, RoomTypes
<1>4. \A j \in 1 .. Len(blocks) : \A v \in Held(blocks[j]) :
        vio[v].state = "journal" /\ v \notin Queued
  BY <1>3, Zenon DEF RoomInv, BlocksInOrder
<1>5. 0 + Len(blocks') <= Len(blocks) /\ \A j \in 1 .. Len(blocks) : 0 + j = j
  BY <1>3
<1>6. \A j \in 1 .. Len(blocks') :
        /\ Held(blocks'[j]) \subseteq Held(blocks[0 + j])
        /\ Separate(blocks'[j])
        /\ \A v \in Held(blocks'[j]) : vio'[v].state = "journal" /\ v \notin Queued'
  BY <1>2, <1>4, <1>5, Zenon
<1>7. BlocksInOrder'
  <2>1. 0 \in Nat /\ BlocksInOrder
    BY DEF RoomInv
  <2>. QED  BY <1>3, <1>5, <1>6, <2>1, BlocksStayInOrder, Zenon
<1>8. availableSpace <= availableSpace'
  BY DEF RoomInv, RoomTypes
<1>. QED  BY <1>1, <1>2, <1>7, <1>8, SameWaiters

(* advanceTail opens an empty block at the next sequence number; no        *)
(* DataVIO moves.                                                          *)
LEMMA AdvanceTailStep ==
  ASSUME RoomInv, AdvanceTail
  PROVE  RoomInv'
<1>1. /\ incrementWaiters' = incrementWaiters /\ decrementWaiters' = decrementWaiters
      /\ vio' = vio /\ head' = head /\ reapHead' = reapHead /\ written' = written
      /\ lastWriteAcknowledged' = lastWriteAcknowledged
      /\ availableSpace' = availableSpace
      /\ pendingDecrementCount' = pendingDecrementCount /\ scenario' = scenario
      /\ readOnly' = readOnly
      /\ blocks' = Append(blocks, NewBlock) /\ tail' = tail + 1
  BY Zenon DEF AdvanceTail, queueVars, modeVars
<1>2. tail \in Nat /\ tail + 1 \in Nat /\ blocks \in Seq(Block)
  BY DEF RoomInv, RoomTypes
<1>3. NewBlock \in Block
  <2>1. 0 \in Nat /\ <<>> \in Seq(DataVIOs)
    OBVIOUS
  <2>. QED  BY <1>2, <2>1, Zenon DEF NewBlock, Block
<1>4. Held(NewBlock) = {} /\ Separate(NewBlock)
  BY RangeEmpty DEF NewBlock, Held, Separate
<1>5. /\ Len(blocks) \in Nat /\ DOMAIN blocks = 1 .. Len(blocks)
      /\ blocks' \in Seq(Block) /\ DOMAIN blocks' = 1 .. Len(blocks) + 1
      /\ \A j \in 1 .. Len(blocks) : blocks'[j] = blocks[j]
      /\ blocks'[Len(blocks) + 1] = NewBlock
  BY <1>1, <1>2, <1>3
<1>6. RoomTypes'
  BY <1>1, <1>2, <1>5, Zenon DEF RoomInv, RoomTypes, Block, VIO
<1>7. HeadsInOrder' /\ DecrementAlwaysFits' /\ Queued' = Queued
  BY <1>1, Zenon DEF RoomInv, HeadsInOrder, DecrementAlwaysFits, Queued
<1>8. BlocksInOrder'
  <2>1. \A j \in DOMAIN blocks' : j \in DOMAIN blocks \/ Held(blocks'[j]) = {}
    BY <1>4, <1>5
  <2>2. \A j \in DOMAIN blocks : blocks'[j] = blocks[j]
    BY <1>5
  <2>3. \A j \in DOMAIN blocks' : Separate(blocks'[j])
    <3>1. \A j \in DOMAIN blocks' : j \in DOMAIN blocks \/ blocks'[j] = NewBlock
      BY <1>5
    <3>. QED  BY <1>4, <2>2, <3>1, Zenon DEF RoomInv, BlocksInOrder
  <2>4. ASSUME NEW j \in DOMAIN blocks', NEW v \in Held(blocks'[j])
        PROVE  vio'[v].state = "journal" /\ v \notin Queued'
    BY <1>1, <1>7, <2>1, <2>2, Zenon DEF RoomInv, BlocksInOrder
  <2>5. ASSUME NEW i \in DOMAIN blocks', NEW j \in DOMAIN blocks', i # j
        PROVE  Held(blocks'[i]) \cap Held(blocks'[j]) = {}
    <3>1. CASE i \in DOMAIN blocks /\ j \in DOMAIN blocks
      BY <2>2, <2>5, <3>1, Zenon DEF RoomInv, BlocksInOrder
    <3>2. CASE Held(blocks'[i]) = {} \/ Held(blocks'[j]) = {}
      BY <3>2
    <3>. QED  BY <2>1, <3>1, <3>2, Zenon
  <2>. QED  BY <2>3, <2>4, <2>5, Zenon DEF BlocksInOrder
<1>9. availableSpace <= availableSpace'
  BY <1>1 DEF RoomInv, RoomTypes
<1>. QED  BY <1>1, <1>6, <1>7, <1>8, <1>9, SameWaiters

(* assignEntries() finds room for every decrement: the first of those that *)
(* wait owes one, and what is owed is covered.                             *)
LEMMA WaitingDecrementHasRoom ==
  ASSUME RoomInv, decrementWaiters # <<>>
  PROVE  /\ Head(decrementWaiters) \in Owing
         /\ 0 < pendingDecrementCount /\ 0 < availableSpace
<1>1. Head(decrementWaiters) \in Owing
  BY RangeTail DEF RoomInv, RoomTypes, QueuesInOrder, Owing
<1>2. /\ pendingDecrementCount \in Nat /\ availableSpace \in Nat
      /\ pendingDecrementCount <= availableSpace /\ Fits(Owing, pendingDecrementCount)
  BY DEF RoomInv, RoomTypes, SpaceIsPromised
<1>3. 0 < pendingDecrementCount
  BY <1>1, <1>2, FitsRemove, Zenon
<1>. QED  BY <1>1, <1>2, <1>3

(* assignEntries stops: the queue it serves is empty or there is no room.  *)
(* With a decrement at the head of its queue the promise excludes the      *)
(* second.                                                                 *)
LEMMA StopAssigningStep ==
  ASSUME RoomInv, StopAssigning
  PROVE  RoomInv'
<1>1. /\ incrementWaiters' = incrementWaiters /\ decrementWaiters' = decrementWaiters
      /\ vio' = vio /\ tail' = tail /\ head' = head /\ reapHead' = reapHead
      /\ lastWriteAcknowledged' = lastWriteAcknowledged /\ written' = written
      /\ availableSpace' = availableSpace
      /\ pendingDecrementCount' = pendingDecrementCount /\ scenario' = scenario
  BY Zenon DEF StopAssigning, queueVars, spaceVars
<1>2. ~(~MayAssign /\ ~ServingIncrements)
  BY WaitingDecrementHasRoom
     DEF RoomInv, RoomTypes, MayAssign, ServingIncrements, Waiting, checkForEntrySpace
<1>3. /\ blocks' = writeBlock(blocks, ActiveIndex(blocks, activeBlock'))
      /\ readOnly' = readOnly
  BY <1>2, Zenon DEF StopAssigning
<1>4. /\ blocks \in Seq(Block) /\ Len(blocks) \in Nat
      /\ DOMAIN blocks = 1 .. Len(blocks) /\ head \in [HeadTypes -> Nat]
  BY BlockTypes DEF RoomInv, RoomTypes
<1>5. ActiveIndex(blocks, activeBlock') \in 0 .. Len(blocks)
  BY <1>4 DEF ActiveIndex
<1>6. /\ blocks' \in Seq(Block) /\ Len(blocks') = Len(blocks)
      /\ \A j \in 1 .. Len(blocks) :
           /\ Held(blocks'[j]) = Held(blocks[j])
           /\ Separate(blocks[j]) => Separate(blocks'[j])
  BY <1>3, <1>4, <1>5, WriteBlockKeeps
<1>7. \A j \in 1 .. Len(blocks) : Separate(blocks[j])
  BY <1>4, Zenon DEF RoomInv, BlocksInOrder
<1>8. written' \in Nat /\ lastWriteAcknowledged' \in Nat
  BY <1>1 DEF RoomInv, RoomTypes
<1>. QED  BY <1>1, <1>3, <1>6, <1>7, <1>8, SameHolders

(* completeWrite marks its block as written and changes no queue.          *)
LEMMA CompleteWriteStep ==
  ASSUME RoomInv, CompleteWrite
  PROVE  RoomInv'
<1>1. /\ incrementWaiters' = incrementWaiters /\ decrementWaiters' = decrementWaiters
      /\ vio' = vio /\ tail' = tail /\ head' = head /\ reapHead' = reapHead
      /\ written' = written /\ availableSpace' = availableSpace
      /\ pendingDecrementCount' = pendingDecrementCount /\ scenario' = scenario
      /\ readOnly' = readOnly
  BY Zenon DEF CompleteWrite, queueVars, modeVars
<1>2. written' \in Nat /\ lastWriteAcknowledged' \in Nat
  BY <1>1, Zenon DEF CompleteWrite, RoomInv, RoomTypes
<1> DEFINE done(i) == [blocks[i] EXCEPT !.committing = FALSE, !.entriesInCommit = 0]
           step(i) == IF blocks[i].sequenceNumber = written THEN done(i) ELSE blocks[i]
<1>3. /\ Len(blocks) \in Nat /\ DOMAIN blocks = 1 .. Len(blocks)
      /\ \A i \in 1 .. Len(blocks) : blocks[i] \in Block
  BY BlockTypes DEF RoomInv
<1>4. blocks' = [i \in 1 .. Len(blocks) |-> step(i)]
  BY <1>3, Zenon DEF CompleteWrite
<1>5. ASSUME NEW i \in 1 .. Len(blocks)
      PROVE  /\ step(i) \in Block
             /\ Held(step(i)) = Held(blocks[i]) /\ Separate(step(i))
  <2>1. Separate(blocks[i])
    BY <1>3, Zenon DEF RoomInv, BlocksInOrder
  <2>2. /\ done(i) \in Block
        /\ done(i).commitWaiters = blocks[i].commitWaiters
        /\ done(i).entryWaiters = blocks[i].entryWaiters
    BY <1>3, Zenon DEF Block
  <2>. HIDE DEF done
  <2>. QED  BY <1>3, <2>1, <2>2, Zenon DEF Held, Separate
<1>. HIDE DEF done, step
<1>6. /\ blocks' \in Seq(Block) /\ Len(blocks') = Len(blocks)
      /\ \A i \in 1 .. Len(blocks) : blocks'[i] = step(i)
  BY <1>3, <1>4, <1>5
<1>7. \A i \in 1 .. Len(blocks) :
        Held(blocks'[i]) = Held(blocks[i]) /\ Separate(blocks'[i])
  BY <1>5, <1>6, Zenon
<1>. QED  BY <1>1, <1>2, <1>6, <1>7, SameHolders

(* The next write of a block (after a partial one) moves its entry waiters *)
(* to its commit waiters: the same DataVIOs, in the same block.            *)
LEMMA RewriteStep ==
  ASSUME RoomInv, Rewrite
  PROVE  RoomInv'
<1>1. /\ incrementWaiters' = incrementWaiters /\ decrementWaiters' = decrementWaiters
      /\ vio' = vio /\ tail' = tail /\ head' = head /\ reapHead' = reapHead
      /\ lastWriteAcknowledged' = lastWriteAcknowledged /\ written' = 0
      /\ availableSpace' = availableSpace
      /\ pendingDecrementCount' = pendingDecrementCount /\ scenario' = scenario
      /\ readOnly' = readOnly
  BY Zenon DEF Rewrite, queueVars, spaceVars, modeVars
<1> DEFINE waiting == {i \in DOMAIN blocks : /\ blocks[i].sequenceNumber = written
                                             /\ blocks[i].entryWaiters # <<>>}
<1>2. blocks' = blocks \/ \E i \in waiting : blocks' = writeBlock(blocks, i)
  BY Zenon DEF Rewrite
<1>3. /\ blocks \in Seq(Block) /\ Len(blocks) \in Nat
      /\ DOMAIN blocks = 1 .. Len(blocks) /\ head \in [HeadTypes -> Nat]
  BY BlockTypes DEF RoomInv, RoomTypes
<1>4. waiting \subseteq 0 .. Len(blocks)
  BY <1>3
<1>5. \A j \in 1 .. Len(blocks) : Separate(blocks[j])
  BY <1>3, Zenon DEF RoomInv, BlocksInOrder
<1>. HIDE DEF waiting
<1>6. /\ blocks' \in Seq(Block) /\ Len(blocks') = Len(blocks)
      /\ \A j \in 1 .. Len(blocks) :
           Held(blocks'[j]) = Held(blocks[j]) /\ Separate(blocks'[j])
  <2>1. CASE blocks' = blocks
    BY <1>3, <1>5, <2>1
  <2>2. ASSUME NEW i \in waiting, blocks' = writeBlock(blocks, i)
        PROVE  /\ blocks' \in Seq(Block) /\ Len(blocks') = Len(blocks)
               /\ \A j \in 1 .. Len(blocks) :
                    Held(blocks'[j]) = Held(blocks[j]) /\ Separate(blocks'[j])
    BY <1>3, <1>4, <1>5, <2>2, WriteBlockKeeps
  <2>. QED  BY <1>2, <2>1, <2>2
<1>7. written' \in Nat /\ lastWriteAcknowledged' \in Nat
  BY <1>1 DEF RoomInv, RoomTypes
<1>. QED  BY <1>1, <1>6, <1>7, SameHolders

-----------------------------------------------------------------------------
(* Steps of one DataVIO.                                                   *)

(* A DataVIO which is not in the journal waits nowhere in it.              *)
LEMMA ElsewhereIsNotWaiting ==
  ASSUME RoomInv, NEW v \in DataVIOs, vio[v].state # "journal"
  PROVE  v \notin Queued /\ \A i \in DOMAIN blocks : v \notin Held(blocks[i])
  BY Zenon DEF RoomInv, QueuesInOrder, BlocksInOrder, Queued

(* One of those moves on, or is aborted: it does not come to owe a         *)
(* decrement it did not owe.                                               *)
LEMMA VIOMovesOn ==
  ASSUME RoomInv, NEW v \in DataVIOs, NEW new \in VIO, vio[v].state # "journal",
         vio' = [vio EXCEPT ![v] = new],
         (/\ new.operation = "DATA_INCREMENT"
          /\ new.state \in {"journal", "committed", "referenced"}) => v \in Owing,
         incrementWaiters' = incrementWaiters, decrementWaiters' = decrementWaiters,
         blocks' = blocks, tail' = tail, head' = head, reapHead' = reapHead,
         lastWriteAcknowledged' = lastWriteAcknowledged, written' = written,
         availableSpace' = availableSpace,
         pendingDecrementCount' = pendingDecrementCount, scenario' = scenario,
         readOnly' = readOnly
  PROVE  RoomInv'
<1>1. vio \in [DataVIOs -> VIO]
  BY DEF RoomInv, RoomTypes
<1>2. /\ vio' \in [DataVIOs -> VIO] /\ vio'[v] = new
      /\ \A w \in DataVIOs : w # v => vio'[w] = vio[w]
  BY <1>1, Zenon
<1>3. RoomTypes'
  BY <1>2, Zenon DEF RoomInv, RoomTypes, Block, VIO
<1>4. HeadsInOrder' /\ DecrementAlwaysFits' /\ Queued' = Queued
  BY Zenon DEF RoomInv, HeadsInOrder, DecrementAlwaysFits, Queued
<1>5. v \notin Queued /\ \A i \in DOMAIN blocks : v \notin Held(blocks[i])
  BY ElsewhereIsNotWaiting
<1>6. /\ Queued \subseteq DataVIOs
      /\ \A i \in DOMAIN blocks : Held(blocks[i]) \subseteq DataVIOs
  <2>1. Queued \subseteq DataVIOs
    BY RangeType DEF RoomInv, RoomTypes, Queued
  <2>2. \A i \in DOMAIN blocks : Held(blocks[i]) \subseteq DataVIOs
    BY BlockTypes, RangeType DEF RoomInv, Held
  <2>. QED  BY <2>1, <2>2
<1>7. QueuesInOrder'
  BY <1>2, <1>5, <1>6, Zenon DEF RoomInv, QueuesInOrder, Queued
<1>8. BlocksInOrder'
  <2>1. \A i \in DOMAIN blocks : \A w \in Held(blocks[i]) : vio'[w] = vio[w]
    BY <1>2, <1>5, <1>6, Zenon
  <2>. QED  BY <1>4, <2>1, ZenonT(30) DEF RoomInv, BlocksInOrder
<1>9. Owing' \subseteq Owing
  <2>1. ASSUME NEW w \in Owing', w # v
        PROVE  w \in Owing
    BY <1>2, <2>1, Zenon DEF Owing
  <2>2. v \in Owing' => v \in Owing
    BY <1>2, <1>5, Zenon DEF Owing, Queued
  <2>. QED  BY <2>1, <2>2, Zenon
<1>10. availableSpace' \in Nat /\ availableSpace <= availableSpace'
  BY DEF RoomInv, RoomTypes
<1>11. SpaceIsPromised'
  BY <1>9, <1>10, PromiseKept DEF RoomInv
<1>. QED  BY <1>3, <1>4, <1>7, <1>8, <1>11 DEF RoomInv

(* The fields of a DataVIO, as the step lemmas use them.                   *)
LEMMA VIOFields ==
  ASSUME RoomInv, NEW v \in DataVIOs
  PROVE  /\ vio \in [DataVIOs -> VIO] /\ vio[v] \in VIO
         /\ vio[v].operation \in Operations /\ vio[v].point \in Points
         /\ vio[v].lock \in Nat
  BY DEF RoomInv, RoomTypes, VIO

(* Beyond the journal (slab journal, block map) a DataVIO waits in no      *)
(* queue of the journal; what it owes does not grow.                       *)
LEMMA AfterCommitStep ==
  ASSUME RoomInv, NEW v \in DataVIOs, MakeSlabJournalEntry(v) \/ UpdateBlockMap(v)
  PROVE  RoomInv'
<1>1. /\ incrementWaiters' = incrementWaiters /\ decrementWaiters' = decrementWaiters
      /\ blocks' = blocks /\ tail' = tail /\ head' = head /\ reapHead' = reapHead
      /\ lastWriteAcknowledged' = lastWriteAcknowledged /\ written' = written
      /\ availableSpace' = availableSpace
      /\ pendingDecrementCount' = pendingDecrementCount /\ scenario' = scenario
      /\ readOnly' = readOnly
  BY Zenon DEF MakeSlabJournalEntry, UpdateBlockMap, ZoneStep, queueVars, spaceVars,
     modeVars
<1>2. CASE MakeSlabJournalEntry(v)
  <2> DEFINE new == [vio[v] EXCEPT !.state = "referenced"]
  <2>1. vio[v].state = "committed" /\ vio' = [vio EXCEPT ![v] = new]
    BY <1>2 DEF MakeSlabJournalEntry
  <2>2. new \in VIO /\ new.operation = vio[v].operation
    BY VIOFields DEF VIO
  <2>. HIDE DEF new
  <2>3. new.operation = "DATA_INCREMENT" => v \in Owing
    <3>1. v \notin Queued
      BY <2>1, ElsewhereIsNotWaiting
    <3>. QED  BY <2>1, <2>2, <3>1, Zenon DEF Owing, Queued
  <2>. QED  BY <1>1, <2>1, <2>2, <2>3, VIOMovesOn, Zenon
<1>3. CASE UpdateBlockMap(v)
  <2>1. vio[v].state = "referenced" /\ vio' = [vio EXCEPT ![v] = NewVIO]
    BY <1>3 DEF UpdateBlockMap
  <2>2. NewVIO \in VIO /\ NewVIO.operation # "DATA_INCREMENT"
    BY DEF NewVIO, VIO, Operations, Points
  <2>. QED  BY <1>1, <2>1, <2>2, VIOMovesOn, Zenon
<1>. QED  BY <1>2, <1>3

(* A DataVIO joins a queue, or is turned away.                             *)
LEMMA EnqueueStep ==
  ASSUME RoomInv, NEW v \in DataVIOs, NEW operation \in Operations,
         Enqueue(v, operation), vio[v].state # "journal",
         operation \notin Increments => v \in Owing,
         blocks' = blocks, tail' = tail, head' = head, reapHead' = reapHead,
         lastWriteAcknowledged' = lastWriteAcknowledged, written' = written,
         availableSpace' = availableSpace,
         pendingDecrementCount' = pendingDecrementCount, scenario' = scenario,
         readOnly' = readOnly
  PROVE  RoomInv'
<1>0. /\ vio \in [DataVIOs -> VIO] /\ vio[v] \in VIO
      /\ v \notin Queued /\ \A i \in DOMAIN blocks : v \notin Held(blocks[i])
  BY VIOFields, ElsewhereIsNotWaiting
<1>1. CASE state # "normal" \/ isReadOnly
  <2> DEFINE new == [vio[v] EXCEPT !.state = "aborted"]
  <2>1. /\ vio' = [vio EXCEPT ![v] = new]
        /\ incrementWaiters' = incrementWaiters /\ decrementWaiters' = decrementWaiters
    BY <1>1 DEF Enqueue, queueVars
  <2>2. new \in VIO /\ new.state = "aborted"
    BY <1>0 DEF VIO
  <2>. HIDE DEF new
  <2>. QED  BY <2>1, <2>2, VIOMovesOn, Zenon
<1>2. CASE ~(state # "normal" \/ isReadOnly)
  <2> DEFINE new == [vio[v] EXCEPT !.state = "journal", !.operation = operation]
  <2>1. /\ vio' = [vio EXCEPT ![v] = new]
        /\ incrementWaiters' = IF operation \in Increments
                               THEN Append(incrementWaiters, v) ELSE incrementWaiters
        /\ decrementWaiters' = IF operation \in Increments
                               THEN decrementWaiters ELSE Append(decrementWaiters, v)
    BY <1>2, Zenon DEF Enqueue
  <2>2. new \in VIO /\ new.state = "journal" /\ new.operation = operation
    BY <1>0, Zenon DEF VIO
  <2>. HIDE DEF new
  <2>3. /\ vio' \in [DataVIOs -> VIO] /\ vio'[v] = new
        /\ \A w \in DataVIOs : w # v => vio'[w] = vio[w]
    BY <1>0, <2>1, <2>2, Zenon
  <2>4. /\ incrementWaiters \in Seq(DataVIOs) /\ decrementWaiters \in Seq(DataVIOs)
        /\ IsInjective(incrementWaiters) /\ IsInjective(decrementWaiters)
        /\ Queued \subseteq DataVIOs
    BY RangeType DEF RoomInv, RoomTypes, QueuesInOrder, Queued
  <2>5. /\ incrementWaiters' \in Seq(DataVIOs) /\ decrementWaiters' \in Seq(DataVIOs)
        /\ IsInjective(incrementWaiters') /\ IsInjective(decrementWaiters')
        /\ Range(incrementWaiters') = IF operation \in Increments
             THEN Range(incrementWaiters) \cup {v} ELSE Range(incrementWaiters)
        /\ Range(decrementWaiters') = IF operation \in Increments
             THEN Range(decrementWaiters) ELSE Range(decrementWaiters) \cup {v}
    <3>1. v \notin Range(incrementWaiters) /\ v \notin Range(decrementWaiters)
      BY <1>0 DEF Queued
    <3>2. /\ Append(incrementWaiters, v) \in Seq(DataVIOs)
          /\ Range(Append(incrementWaiters, v)) = Range(incrementWaiters) \cup {v}
          /\ IsInjective(Append(incrementWaiters, v))
      BY <2>4, <3>1, RangeAppend
    <3>3. /\ Append(decrementWaiters, v) \in Seq(DataVIOs)
          /\ Range(Append(decrementWaiters, v)) = Range(decrementWaiters) \cup {v}
          /\ IsInjective(Append(decrementWaiters, v))
      BY <2>4, <3>1, RangeAppend
    <3>. QED  BY <2>1, <2>4, <3>2, <3>3, Zenon
  <2>6. RoomTypes'
    BY <2>3, <2>5, Zenon DEF RoomInv, RoomTypes, Block, VIO
  <2>7. HeadsInOrder' /\ DecrementAlwaysFits'
    BY Zenon DEF RoomInv, HeadsInOrder, DecrementAlwaysFits
  <2>8. QueuesInOrder'
    <3>1. operation \notin Increments => operation = "DATA_DECREMENT"
      BY DEF Operations
    <3>2. \A w \in Queued : vio'[w] = vio[w]
      BY <1>0, <2>3, <2>4, Zenon
    <3>3. ASSUME NEW w \in Range(incrementWaiters')
          PROVE  vio'[w].state = "journal" /\ vio'[w].operation \in Increments
      <4>1. CASE w \in Range(incrementWaiters)
        BY <3>2, <4>1, Zenon DEF RoomInv, QueuesInOrder, Queued
      <4>2. CASE w = v /\ operation \in Increments
        BY <2>2, <2>3, <4>2, Zenon
      <4>. QED  BY <2>5, <4>1, <4>2, Zenon
    <3>4. ASSUME NEW w \in Range(decrementWaiters')
          PROVE  vio'[w].state = "journal" /\ vio'[w].operation = "DATA_DECREMENT"
      <4>1. CASE w \in Range(decrementWaiters)
        BY <3>2, <4>1, Zenon DEF RoomInv, QueuesInOrder, Queued
      <4>2. CASE w = v /\ operation \notin Increments
        BY <2>2, <2>3, <3>1, <4>2, Zenon
      <4>. QED  BY <2>5, <4>1, <4>2, Zenon
    <3>. QED  BY <2>5, <3>3, <3>4, Zenon DEF QueuesInOrder
  <2>9. BlocksInOrder'
    <3>1. Queued' \subseteq Queued \cup {v}
      BY <2>5, Zenon DEF Queued
    <3>2. \A i \in DOMAIN blocks : Held(blocks[i]) \subseteq DataVIOs
      BY BlockTypes, RangeType DEF RoomInv, Held
    <3>3. \A i \in DOMAIN blocks : \A w \in Held(blocks[i]) :
            vio'[w] = vio[w] /\ w # v
      BY <1>0, <2>3, <3>2, Zenon
    <3>. QED  BY <3>1, <3>3, Zenon DEF RoomInv, BlocksInOrder
  <2>10. Owing' \subseteq Owing
    <3>1. ASSUME NEW w \in Owing', w # v
          PROVE  w \in Owing
      BY <2>3, <2>5, <3>1, Zenon DEF Owing
    <3>2. operation \in Increments => v \notin Owing'
      BY <1>0, <2>5, Zenon DEF Owing, Queued
    <3>. QED  BY <3>1, <3>2, Zenon
  <2>11. availableSpace' \in Nat /\ availableSpace <= availableSpace'
    BY DEF RoomInv, RoomTypes
  <2>12. SpaceIsPromised'
    BY <2>10, <2>11, PromiseKept DEF RoomInv
  <2>. QED  BY <2>6, <2>7, <2>8, <2>9, <2>12 DEF RoomInv
<1>. QED  BY <1>1, <1>2

(* addRecoveryJournalEntry puts a DataVIO which waits nowhere into one of  *)
(* the two queues, or refuses it.                                          *)
LEMMA AddEntryStep ==
  ASSUME RoomInv, NEW v \in DataVIOs,
         AddDecrement(v) \/ \E o \in Increments : AddIncrement(v, o)
  PROVE  RoomInv'
<1>1. /\ blocks' = blocks /\ tail' = tail /\ head' = head /\ reapHead' = reapHead
      /\ lastWriteAcknowledged' = lastWriteAcknowledged /\ written' = written
      /\ availableSpace' = availableSpace
      /\ pendingDecrementCount' = pendingDecrementCount /\ scenario' = scenario
      /\ readOnly' = readOnly
  BY Zenon DEF AddDecrement, AddIncrement, spaceVars, modeVars
<1>2. CASE AddDecrement(v)
  <2>1. /\ vio[v].state = "referenced" /\ vio[v].operation = "DATA_INCREMENT"
        /\ Enqueue(v, "DATA_DECREMENT")
    BY <1>2 DEF AddDecrement
  <2>2. v \in Owing
    BY <2>1, ElsewhereIsNotWaiting DEF Owing, Queued
  <2>3. "DATA_DECREMENT" \in Operations
    BY DEF Operations
  <2>. QED  BY <1>1, <2>1, <2>2, <2>3, EnqueueStep
<1>3. ASSUME NEW o \in Increments, AddIncrement(v, o)
      PROVE  RoomInv'
  <2>1. vio[v].state = "ready" /\ Enqueue(v, o) /\ o \in Operations
    BY <1>3 DEF AddIncrement, Operations
  <2>. QED  BY <1>1, <2>1, EnqueueStep
<1>. QED  BY <1>2, <1>3

-----------------------------------------------------------------------------
(* Making entries.                                                         *)

(* While there is an active block it is one of the tail blocks.            *)
ActiveIsABlock == activeBlock => blocks # <<>>

(* assignEntry() moves the first waiter v of a queue to the newest block.  *)
LEMMA AssignEntryEffect ==
  ASSUME RoomInv, ActiveIsABlock, AssignEntry
  PROVE  \E v \in Queued :
           /\ blocks' \in Seq(Block) /\ Len(blocks') = Len(blocks) /\ blocks # <<>>
           /\ \A j \in 1 .. Len(blocks) :
                /\ Held(blocks'[j]) = IF j = Len(blocks) THEN Held(blocks[j]) \cup {v}
                                                         ELSE Held(blocks[j])
                /\ Separate(blocks'[j])
           /\ v = Head(IF ServingIncrements THEN incrementWaiters ELSE decrementWaiters)
           /\ vio' \in [DataVIOs -> VIO]
           /\ \A w \in DataVIOs : /\ vio'[w].state = vio[w].state
                                  /\ vio'[w].operation = vio[w].operation
           /\ pendingDecrementCount' =
                IF vio[v].operation = "DATA_INCREMENT" THEN pendingDecrementCount + 1
                ELSE IF vio[v].operation = "DATA_DECREMENT"
                THEN pendingDecrementCount - 1 ELSE pendingDecrementCount
<1> DEFINE v == Head(IF ServingIncrements THEN incrementWaiters ELSE decrementWaiters)
           n == Len(blocks)
           b == blocks[n]
           extended == [b EXCEPT !.entryCount = b.entryCount + 1,
                                 !.entryWaiters = Append(b.entryWaiters, v)]
           bs == [blocks EXCEPT ![n] = extended]
           point == [sequenceNumber |-> b.sequenceNumber, entryCount |-> b.entryCount]
<1>1. /\ vio' = [vio EXCEPT ![v].point = point]
      /\ blocks' = (IF isFull(extended) THEN writeBlock(bs, Len(bs)) ELSE bs)
      /\ pendingDecrementCount' =
           IF vio[v].operation = "DATA_INCREMENT" THEN pendingDecrementCount + 1
           ELSE IF vio[v].operation = "DATA_DECREMENT"
           THEN pendingDecrementCount - 1 ELSE pendingDecrementCount
      /\ MayAssign /\ BlockUsable
  BY Zenon DEF AssignEntry, Newest
<1>2. v \in Queued /\ v \in DataVIOs
  BY <1>1, RangeTail DEF MayAssign, Waiting, ServingIncrements, RoomInv, RoomTypes,
     QueuesInOrder, Queued
<1>3. /\ blocks \in Seq(Block) /\ n \in Nat /\ DOMAIN blocks = 1 .. n
      /\ head \in [HeadTypes -> Nat] /\ vio \in [DataVIOs -> VIO]
  BY BlockTypes DEF RoomInv, RoomTypes
<1>4. blocks # <<>>
  BY <1>1, Zenon DEF ActiveIsABlock, BlockUsable, ActiveIsFull
<1>5. n \in 1 .. n
  BY <1>3, <1>4
<1>6. /\ b \in Block /\ b.sequenceNumber \in Nat /\ b.entryCount \in Nat
      /\ b.commitWaiters \in Seq(DataVIOs) /\ b.entryWaiters \in Seq(DataVIOs)
  BY <1>5, BlockTypes DEF RoomInv
<1>7. Separate(b) /\ v \notin Held(b)
  BY <1>2, <1>3, <1>5, Zenon DEF RoomInv, BlocksInOrder
<1>8. \A j \in 1 .. n : Separate(blocks[j])
  BY <1>3, Zenon DEF RoomInv, BlocksInOrder
<1>. HIDE DEF v
<1>9. /\ Append(b.entryWaiters, v) \in Seq(DataVIOs)
      /\ Range(Append(b.entryWaiters, v)) = Range(b.entryWaiters) \cup {v}
  BY <1>2, <1>6, RangeAppend
<1>10. /\ extended \in Block
       /\ extended.commitWaiters = b.commitWaiters
       /\ extended.entryWaiters = Append(b.entryWaiters, v)
  <2>1. b.entryCount + 1 \in Nat
    BY <1>6
  <2>. HIDE DEF b
  <2>. QED  BY <1>6, <1>9, <2>1, ZenonT(30) DEF Block
<1>11. Held(extended) = Held(b) \cup {v} /\ Separate(extended)
  BY <1>7, <1>9, <1>10, Zenon DEF Held, Separate
<1>. HIDE DEF extended
<1>12. /\ bs \in Seq(Block) /\ Len(bs) = n
       /\ \A j \in 1 .. n : bs[j] = IF j = n THEN extended ELSE blocks[j]
  BY <1>3, <1>5, <1>10
<1>13. \A j \in 1 .. n :
         /\ Held(bs[j]) = IF j = n THEN Held(blocks[j]) \cup {v} ELSE Held(blocks[j])
         /\ Separate(bs[j])
  <2>1. ASSUME NEW j \in 1 .. n, j = n
        PROVE  Held(bs[j]) = Held(blocks[j]) \cup {v} /\ Separate(bs[j])
    BY <1>11, <1>12, <2>1, Zenon
  <2>2. ASSUME NEW j \in 1 .. n, j # n
        PROVE  Held(bs[j]) = Held(blocks[j]) /\ Separate(bs[j])
    BY <1>8, <1>12, <2>2, Zenon
  <2>. QED  BY <2>1, <2>2, Zenon
<1>. HIDE DEF bs
<1>14. /\ blocks' \in Seq(Block) /\ Len(blocks') = n
       /\ \A j \in 1 .. n : Held(blocks'[j]) = Held(bs[j]) /\ Separate(blocks'[j])
  <2>1. Len(bs) \in 0 .. Len(bs)
    <3>1. n \in 0 .. n
      BY <1>3
    <3>. QED  BY <1>12, <3>1, Zenon
  <2>2. /\ writeBlock(bs, Len(bs)) \in Seq(Block)
        /\ Len(writeBlock(bs, Len(bs))) = n
        /\ \A j \in 1 .. n : /\ Held(writeBlock(bs, Len(bs))[j]) = Held(bs[j])
                             /\ Separate(writeBlock(bs, Len(bs))[j])
    BY <1>3, <1>12, <1>13, <2>1, WriteBlockKeeps, ZenonT(30)
  <2>. QED  BY <1>1, <1>12, <1>13, <2>2, Zenon
<1>15. /\ vio' \in [DataVIOs -> VIO]
       /\ \A w \in DataVIOs : /\ vio'[w].state = vio[w].state
                              /\ vio'[w].operation = vio[w].operation
  <2>1. point \in Points
    BY <1>6 DEF Points
  <2>. HIDE DEF point
  <2>. QED  BY <1>1, <1>2, <1>3, <2>1 DEF VIO
<1>16. \A j \in 1 .. n :
         /\ Held(blocks'[j]) = IF j = n THEN Held(blocks[j]) \cup {v} ELSE Held(blocks[j])
         /\ Separate(blocks'[j])
  BY <1>13, <1>14, Zenon
<1>. QED  BY <1>1, <1>2, <1>4, <1>14, <1>15, <1>16, ZenonT(30) DEF v

(* An increment is given an entry only while the room that is left covers  *)
(* the decrement that follows it too; a decrement uses the room it was     *)
(* promised.                                                               *)
LEMMA AssignEntryStep ==
  ASSUME RoomInv, ActiveIsABlock, AssignEntry
  PROVE  RoomInv'
<1>1. /\ availableSpace' = availableSpace - 1
      /\ tail' = tail /\ head' = head /\ reapHead' = reapHead /\ written' = written
      /\ lastWriteAcknowledged' = lastWriteAcknowledged /\ scenario' = scenario
      /\ readOnly' = readOnly
      /\ MayAssign
  BY Zenon DEF AssignEntry, modeVars
<1>2. PICK v \in Queued :
        /\ blocks' \in Seq(Block) /\ Len(blocks') = Len(blocks) /\ blocks # <<>>
        /\ \A j \in 1 .. Len(blocks) :
             /\ Held(blocks'[j]) = IF j = Len(blocks) THEN Held(blocks[j]) \cup {v}
                                                      ELSE Held(blocks[j])
             /\ Separate(blocks'[j])
        /\ v = Head(IF ServingIncrements THEN incrementWaiters ELSE decrementWaiters)
        /\ vio' \in [DataVIOs -> VIO]
        /\ \A w \in DataVIOs : /\ vio'[w].state = vio[w].state
                               /\ vio'[w].operation = vio[w].operation
        /\ pendingDecrementCount' =
             IF vio[v].operation = "DATA_INCREMENT" THEN pendingDecrementCount + 1
             ELSE IF vio[v].operation = "DATA_DECREMENT"
             THEN pendingDecrementCount - 1 ELSE pendingDecrementCount
  BY AssignEntryEffect, Zenon
<1>3. /\ incrementWaiters \in Seq(DataVIOs) /\ decrementWaiters \in Seq(DataVIOs)
      /\ IsInjective(incrementWaiters) /\ IsInjective(decrementWaiters)
      /\ Queued \subseteq DataVIOs
  BY RangeType DEF RoomInv, RoomTypes, QueuesInOrder, Queued
<1>4. /\ availableSpace \in Nat /\ pendingDecrementCount \in Nat
      /\ pendingDecrementCount <= availableSpace
      /\ Fits(Owing, pendingDecrementCount)
  BY DEF RoomInv, RoomTypes, SpaceIsPromised
<1> DEFINE Moved ==
      /\ incrementWaiters' \in Seq(DataVIOs) /\ decrementWaiters' \in Seq(DataVIOs)
      /\ IsInjective(incrementWaiters') /\ IsInjective(decrementWaiters')
      /\ Range(incrementWaiters') \subseteq Range(incrementWaiters)
      /\ Range(decrementWaiters') \subseteq Range(decrementWaiters)
      /\ Queued' = Queued \ {v}
      /\ availableSpace' \in Nat /\ pendingDecrementCount' \in Nat
      /\ pendingDecrementCount' <= availableSpace'
      /\ Fits(Owing', pendingDecrementCount')
<1>5. ASSUME ServingIncrements
      PROVE  Moved
  <2>1. /\ decrementWaiters = <<>> /\ incrementWaiters # <<>> /\ v = Head(incrementWaiters)
        /\ incrementWaiters' = Tail(incrementWaiters)
        /\ decrementWaiters' = decrementWaiters
    BY <1>1, <1>2, <1>5, Zenon DEF AssignEntry, ServingIncrements, MayAssign, Waiting
  <2>2. /\ v \in Range(incrementWaiters) /\ incrementWaiters' \in Seq(DataVIOs)
        /\ IsInjective(incrementWaiters')
        /\ Range(incrementWaiters') = Range(incrementWaiters) \ {v}
    BY <1>3, <2>1, RangeTail
  <2>3. vio[v].operation \in Increments
    BY <2>2, Zenon DEF RoomInv, QueuesInOrder
  <2>4. availableSpace - pendingDecrementCount > 1
    BY <1>1, <1>4, <1>5 DEF MayAssign, checkForEntrySpace
  <2>5. Range(decrementWaiters) = {}
    BY <2>1, RangeEmpty
  <2>6. Owing' \subseteq Owing \cup {v}
    BY <1>2, <2>1, <2>2, <2>5, Zenon DEF Owing
  <2>7. vio[v].operation # "DATA_INCREMENT" => Owing' \subseteq Owing
    <3>1. ASSUME vio[v].operation # "DATA_INCREMENT"
          PROVE  v \notin Owing'
      BY <1>2, <1>3, <2>1, <2>5, <3>1, Zenon DEF Owing
    <3>. QED  BY <2>6, <3>1, Zenon
  <2>8. vio[v].operation # "DATA_DECREMENT"
    BY <2>3 DEF Increments
  <2>9. ASSUME vio[v].operation = "DATA_INCREMENT"
        PROVE  /\ availableSpace' \in Nat /\ pendingDecrementCount' \in Nat
               /\ pendingDecrementCount' <= availableSpace'
               /\ Fits(Owing', pendingDecrementCount')
    <3>1. pendingDecrementCount' = pendingDecrementCount + 1
      BY <1>2, <2>9, Zenon
    <3>2. pendingDecrementCount + 1 \in Nat
      BY <1>4
    <3>3. Fits(Owing \cup {v}, pendingDecrementCount + 1)
      BY <1>4, FitsAdd, Zenon
    <3>4. Fits(Owing', pendingDecrementCount + 1)
      BY <2>6, <3>2, <3>3, FitsSubset, Zenon
    <3>. QED  BY <1>1, <1>4, <2>4, <3>1, <3>4
  <2>10. ASSUME vio[v].operation # "DATA_INCREMENT"
        PROVE  /\ availableSpace' \in Nat /\ pendingDecrementCount' \in Nat
               /\ pendingDecrementCount' <= availableSpace'
               /\ Fits(Owing', pendingDecrementCount')
    <3>1. pendingDecrementCount' = pendingDecrementCount
      BY <1>2, <2>8, <2>10, Zenon
    <3>2. Fits(Owing', pendingDecrementCount)
      BY <1>4, <2>7, <2>10, FitsSubset
    <3>. QED  BY <1>1, <1>4, <2>4, <3>1, <3>2
  <2>11. /\ availableSpace' \in Nat /\ pendingDecrementCount' \in Nat
         /\ pendingDecrementCount' <= availableSpace'
         /\ Fits(Owing', pendingDecrementCount')
    BY <2>9, <2>10, Zenon
  <2>12. /\ decrementWaiters' \in Seq(DataVIOs) /\ IsInjective(decrementWaiters')
         /\ Queued' = Queued \ {v}
         /\ Range(incrementWaiters') \subseteq Range(incrementWaiters)
         /\ Range(decrementWaiters') \subseteq Range(decrementWaiters)
    BY <1>3, <2>1, <2>2, <2>5, Zenon DEF Queued
  <2>. QED  BY <2>2, <2>11, <2>12, Zenon
<1>6. ASSUME ~ServingIncrements
      PROVE  Moved
  <2>1. /\ decrementWaiters # <<>> /\ v = Head(decrementWaiters)
        /\ decrementWaiters' = Tail(decrementWaiters)
        /\ incrementWaiters' = incrementWaiters
    BY <1>1, <1>2, <1>6, Zenon DEF AssignEntry, ServingIncrements
  <2>2. /\ v \in Range(decrementWaiters) /\ decrementWaiters' \in Seq(DataVIOs)
        /\ IsInjective(decrementWaiters')
        /\ Range(decrementWaiters') = Range(decrementWaiters) \ {v}
    BY <1>3, <2>1, RangeTail
  <2>3. vio[v].operation = "DATA_DECREMENT" /\ v \notin Range(incrementWaiters)
    BY <2>2 DEF RoomInv, QueuesInOrder, Increments
  <2>4. v \in Owing
    BY <2>2 DEF Owing
  <2>5. Owing' \subseteq Owing \ {v}
    <3>1. ASSUME NEW w \in Owing'
          PROVE  w \in Owing
      BY <1>2, <2>1, <2>2, ZenonT(30) DEF Owing
    <3>2. v \notin Owing'
      BY <1>2, <1>3, <2>2, <2>3, SMTT(20) DEF Owing
    <3>. QED  BY <3>1, <3>2, Zenon
  <2>6. 0 < pendingDecrementCount /\ Fits(Owing \ {v}, pendingDecrementCount - 1)
    BY <1>4, <2>4, FitsRemove
  <2>7. pendingDecrementCount' = pendingDecrementCount - 1
    BY <1>2, <2>3
  <2>8. /\ availableSpace' \in Nat /\ pendingDecrementCount' \in Nat
        /\ pendingDecrementCount' <= availableSpace'
        /\ Fits(Owing', pendingDecrementCount')
    <3>1. pendingDecrementCount - 1 \in Nat
      BY <1>4, <2>6
    <3>2. Fits(Owing', pendingDecrementCount - 1)
      BY <2>5, <2>6, <3>1, FitsSubset
    <3>. QED  BY <1>1, <1>4, <2>6, <2>7, <3>1, <3>2
  <2>9. /\ incrementWaiters' \in Seq(DataVIOs) /\ IsInjective(incrementWaiters')
        /\ Queued' = Queued \ {v}
        /\ Range(incrementWaiters') \subseteq Range(incrementWaiters)
        /\ Range(decrementWaiters') \subseteq Range(decrementWaiters)
    BY <1>3, <2>1, <2>2, <2>3, Zenon DEF Queued
  <2>. QED  BY <2>2, <2>8, <2>9, Zenon
<1>7. Moved
  BY <1>5, <1>6, Zenon
<1>8. RoomTypes'
  BY <1>1, <1>2, <1>7, Zenon DEF RoomInv, RoomTypes, Block, VIO
<1>9. HeadsInOrder' /\ DecrementAlwaysFits' /\ SpaceIsPromised'
  BY <1>1, <1>7, Zenon DEF RoomInv, HeadsInOrder, DecrementAlwaysFits, SpaceIsPromised, Fits
<1>10. QueuesInOrder'
  BY <1>2, <1>3, <1>7, ZenonT(30) DEF RoomInv, QueuesInOrder, Queued
<1>11. BlocksInOrder'
  <2>1. /\ Len(blocks) \in Nat /\ DOMAIN blocks = 1 .. Len(blocks)
        /\ DOMAIN blocks' = 1 .. Len(blocks)
        /\ \A i \in 1 .. Len(blocks) : Held(blocks[i]) \subseteq DataVIOs
    BY <1>2, BlockTypes, RangeType DEF RoomInv, Held
  <2>2. /\ \A i \in 1 .. Len(blocks) : v \notin Held(blocks[i])
        /\ vio[v].state = "journal"
    BY <2>1, Zenon DEF RoomInv, BlocksInOrder, QueuesInOrder, Queued
  <2>3. ASSUME NEW i \in 1 .. Len(blocks), NEW w \in Held(blocks'[i])
        PROVE  vio'[w].state = "journal" /\ w \notin Queued'
    <3>1. CASE w = v
      BY <1>2, <1>3, <1>7, <2>2, <3>1, Zenon
    <3>2. CASE w \in Held(blocks[i])
      BY <1>2, <1>7, <2>1, <3>2, Zenon DEF RoomInv, BlocksInOrder
    <3>3. Held(blocks'[i]) \subseteq Held(blocks[i]) \cup {v}
      BY <1>2, Zenon
    <3>. QED  BY <3>1, <3>2, <3>3, Zenon
  <2>4. ASSUME NEW i \in 1 .. Len(blocks), NEW j \in 1 .. Len(blocks), i # j
        PROVE  Held(blocks'[i]) \cap Held(blocks'[j]) = {}
    <3>1. Held(blocks[i]) \cap Held(blocks[j]) = {}
      BY <2>1, <2>4, Zenon DEF RoomInv, BlocksInOrder
    <3>2. i # Len(blocks) => Held(blocks'[i]) = Held(blocks[i])
      BY <1>2, Zenon
    <3>3. j # Len(blocks) => Held(blocks'[j]) = Held(blocks[j])
      BY <1>2, Zenon
    <3>4. /\ Held(blocks'[i]) \subseteq Held(blocks[i]) \cup {v}
          /\ Held(blocks'[j]) \subseteq Held(blocks[j]) \cup {v}
      BY <1>2, Zenon
    <3>. QED  BY <2>2, <2>4, <3>1, <3>2, <3>3, <3>4, Zenon
  <2>. QED  BY <1>2, <2>1, <2>3, <2>4, Zenon DEF BlocksInOrder
<1>. QED  BY <1>8, <1>9, <1>10, <1>11 DEF RoomInv

-----------------------------------------------------------------------------
(* Releasing DataVIOs.                                                     *)

(* continueCommittedWaiter() commits or aborts those it releases.          *)
LEMMA ContinueEffect ==
  ASSUME RoomInv, NEW ws, NEW w \in DataVIOs
  PROVE  LET done == continueCommittedWaiters(ws)
         IN  /\ done \in [DataVIOs -> VIO]
             /\ done[w].operation = vio[w].operation
             /\ ~(\E i \in DOMAIN ws : w \in Range(ws[i])) => done[w] = vio[w]
             /\ (\E i \in DOMAIN ws : w \in Range(ws[i])) =>
                  done[w].state = IF isReadOnly THEN "aborted" ELSE "committed"
<1> DEFINE released(v) == \E i \in DOMAIN ws : v \in Range(ws[i])
           lock(v) == IF vio[v].operation \in Increments
                      THEN vio[v].point.sequenceNumber ELSE vio[v].lock
           next == IF isReadOnly THEN "aborted" ELSE "committed"
           new(v) == [vio[v] EXCEPT !.state = next, !.lock = lock(v)]
           done == continueCommittedWaiters(ws)
<1>1. done = [v \in DataVIOs |-> IF released(v) THEN new(v) ELSE vio[v]]
  BY Zenon DEF continueCommittedWaiters
<1>2. next \in {"aborted", "committed"}
  OBVIOUS
<1>. HIDE DEF released, next
<1>3. ASSUME NEW v \in DataVIOs
      PROVE  /\ vio[v] \in VIO /\ new(v) \in VIO
             /\ new(v).operation = vio[v].operation /\ new(v).state = next
  <2>1. vio[v] \in VIO /\ vio[v].lock \in Nat /\ vio[v].point \in Points
    BY VIOFields
  <2>2. lock(v) \in Nat
    BY <2>1 DEF Points
  <2>. HIDE DEF lock
  <2>. QED  BY <1>2, <2>1, <2>2, Zenon DEF VIO
<1>. HIDE DEF new, done
<1>4. done \in [DataVIOs -> VIO] /\ done[w] = IF released(w) THEN new(w) ELSE vio[w]
  BY <1>1, <1>3, Zenon
<1>5. /\ done[w].operation = vio[w].operation
      /\ ~released(w) => done[w] = vio[w]
      /\ released(w) => done[w].state = next
  BY <1>3, <1>4, ZenonT(30)
<1>. QED  BY <1>4, <1>5, Zenon DEF done, released, next

(* The DataVIOs in R are released, the blocks up to the nth go, and the    *)
(* others keep only waiters who are not released; or read-only mode has    *)
(* emptied the queues as well.                                             *)
LEMMA Released ==
  ASSUME RoomInv, NEW R, NEW n \in Nat,
         vio' \in [DataVIOs -> VIO],
         \A w \in DataVIOs :
           /\ vio'[w].operation = vio[w].operation
           /\ w \notin R => vio'[w].state = vio[w].state
           /\ w \in R => \/ vio'[w].state = "aborted"
                         \/ /\ vio'[w].state = "committed"
                            /\ vio[w].state = "journal" /\ w \notin Queued,
         \/ /\ incrementWaiters' = incrementWaiters /\ decrementWaiters' = decrementWaiters
            /\ \A w \in Queued : w \notin R
         \/ /\ incrementWaiters' = <<>> /\ decrementWaiters' = <<>>
            /\ \A w \in Queued : vio'[w].state = "aborted",
         blocks' \in Seq(Block), n + Len(blocks') <= Len(blocks),
         \A j \in 1 .. Len(blocks') :
           /\ Held(blocks'[j]) \subseteq Held(blocks[n + j])
           /\ Separate(blocks'[j]) /\ \A w \in Held(blocks'[j]) : w \notin R,
         tail' = tail, head' = head, reapHead' = reapHead,
         lastWriteAcknowledged' = lastWriteAcknowledged, written' = written,
         availableSpace' = availableSpace,
         pendingDecrementCount' = pendingDecrementCount, scenario' = scenario,
         readOnly' = readOnly
  PROVE  RoomInv'
<1>1. /\ incrementWaiters' \in Seq(DataVIOs) /\ decrementWaiters' \in Seq(DataVIOs)
      /\ IsInjective(incrementWaiters') /\ IsInjective(decrementWaiters')
      /\ Range(incrementWaiters') \subseteq Range(incrementWaiters)
      /\ Range(decrementWaiters') \subseteq Range(decrementWaiters)
  <2>. QED  BY RangeEmpty, Zenon DEF RoomInv, RoomTypes, QueuesInOrder
<1>2. Queued' = {} \/ (Queued' = Queued /\ \A w \in Queued : w \notin R)
  BY RangeEmpty, Zenon DEF Queued
<1>3. /\ Queued \subseteq DataVIOs /\ Queued' \subseteq Queued
      /\ \A i \in DOMAIN blocks : Held(blocks[i]) \subseteq DataVIOs
  BY <1>1, BlockTypes, RangeType, Zenon DEF RoomInv, RoomTypes, Queued, Held
<1>4. RoomTypes'
  BY <1>1, Zenon DEF RoomInv, RoomTypes, Block, VIO
<1>5. HeadsInOrder' /\ DecrementAlwaysFits'
  BY Zenon DEF RoomInv, HeadsInOrder, DecrementAlwaysFits
<1>6. QueuesInOrder'
  <2>1. \A w \in Queued' : /\ w \in DataVIOs /\ vio'[w].state = vio[w].state
                           /\ vio'[w].operation = vio[w].operation
    BY <1>2, <1>3, Zenon
  <2>2. ASSUME NEW w \in Range(incrementWaiters')
        PROVE  vio'[w].state = "journal" /\ vio'[w].operation \in Increments
    BY <1>1, <2>1, Zenon DEF RoomInv, QueuesInOrder, Queued
  <2>3. ASSUME NEW w \in Range(decrementWaiters')
        PROVE  vio'[w].state = "journal" /\ vio'[w].operation = "DATA_DECREMENT"
    BY <1>1, <2>1, Zenon DEF RoomInv, QueuesInOrder, Queued
  <2>. QED  BY <1>1, <2>2, <2>3, Zenon DEF QueuesInOrder
<1>7. BlocksInOrder'
  <2>1. /\ blocks \in Seq(Block) /\ Len(blocks) \in Nat
        /\ DOMAIN blocks = 1 .. Len(blocks) /\ BlocksInOrder /\ Len(blocks') \in Nat
    BY BlockTypes DEF RoomInv, RoomTypes
  <2>2. ASSUME NEW j \in 1 .. Len(blocks'), NEW w \in Held(blocks'[j])
        PROVE  vio'[w].state = "journal" /\ w \notin Queued'
    <3>1. n + j \in DOMAIN blocks
      BY <2>1
    <3>2. /\ w \in Held(blocks[n + j]) /\ w \in DataVIOs /\ w \notin R
          /\ vio[w].state = "journal" /\ w \notin Queued
      BY <1>3, <2>1, <3>1, ZenonT(30) DEF BlocksInOrder
    <3>. QED  BY <1>3, <3>2, Zenon
  <2>. QED  BY <2>1, <2>2, BlocksStayInOrder, ZenonT(30)
<1>8. Owing' \subseteq Owing
  <2>1. SUFFICES ASSUME NEW w \in Owing', w \notin Range(decrementWaiters)
                 PROVE  w \in Owing
    BY Zenon DEF Owing
  <2>2. /\ w \in DataVIOs /\ vio'[w].operation = "DATA_INCREMENT"
        /\ vio'[w].state \in {"journal", "committed", "referenced"}
        /\ w \notin Range(incrementWaiters')
    BY <1>1, <2>1, Zenon DEF Owing
  <2>3. w \notin Range(incrementWaiters)
    BY <2>2, SMTT(20) DEF Queued
  <2>4. vio[w].state \in {"journal", "committed", "referenced"}
    BY <2>2, SMTT(20)
  <2>. QED  BY <2>2, <2>3, <2>4, Zenon DEF Owing
<1>9. availableSpace' \in Nat /\ availableSpace <= availableSpace'
  BY DEF RoomInv, RoomTypes
<1>10. SpaceIsPromised'
  BY <1>8, <1>9, PromiseKept DEF RoomInv
<1>. QED  BY <1>4, <1>5, <1>6, <1>7, <1>10 DEF RoomInv

(* Nobody waits in two blocks, and everybody who waits in one is there.    *)
LEMMA HeldInOnePlace ==
  ASSUME RoomInv
  PROVE  /\ blocks \in Seq(Block) /\ Len(blocks) \in Nat
         /\ DOMAIN blocks = 1 .. Len(blocks) /\ head \in [HeadTypes -> Nat]
         /\ \A i \in 1 .. Len(blocks) :
              /\ Separate(blocks[i]) /\ Held(blocks[i]) \subseteq DataVIOs
              /\ \A w \in Held(blocks[i]) : vio[w].state = "journal" /\ w \notin Queued
         /\ \A i, j \in 1 .. Len(blocks) :
              i # j => Held(blocks[i]) \cap Held(blocks[j]) = {}
<1>1. /\ blocks \in Seq(Block) /\ Len(blocks) \in Nat
      /\ DOMAIN blocks = 1 .. Len(blocks) /\ head \in [HeadTypes -> Nat]
      /\ \A i \in 1 .. Len(blocks) : Held(blocks[i]) \subseteq DataVIOs
  BY BlockTypes, RangeType DEF RoomInv, RoomTypes, Held
<1>. QED  BY <1>1, Zenon DEF RoomInv, BlocksInOrder

(* One iteration of notifyCommitWaiters() releases those whose entries the *)
(* oldest block has committed, and nobody else.                            *)
LEMMA NotifyCommitWaitersStep ==
  ASSUME RoomInv, NotifyCommitWaiters
  PROVE  RoomInv'
<1> DEFINE b == Head(blocks)
           rest == Tail(blocks)
           ws == <<b.commitWaiters>>
           R == Range(b.commitWaiters)
           cleared == [b EXCEPT !.commitWaiters = <<>>]
<1>1. /\ incrementWaiters' = incrementWaiters /\ decrementWaiters' = decrementWaiters
      /\ tail' = tail /\ head' = head /\ reapHead' = reapHead
      /\ lastWriteAcknowledged' = lastWriteAcknowledged /\ written' = written
      /\ availableSpace' = availableSpace
      /\ pendingDecrementCount' = pendingDecrementCount /\ scenario' = scenario
      /\ readOnly' = readOnly
      /\ ~isReadOnly /\ blocks # <<>> /\ vio' = continueCommittedWaiters(ws)
      /\ \/ blocks' = writeBlock(rest, ActiveIndex(rest, activeBlock'))
         \/ blocks' = [blocks EXCEPT ![1].commitWaiters = <<>>]
  BY Zenon DEF NotifyCommitWaiters, queueVars, spaceVars, modeVars
<1>2. /\ Len(blocks) \in Nat /\ Len(blocks) > 0 /\ 1 \in 1 .. Len(blocks)
      /\ b = blocks[1] /\ b \in Block
      /\ rest \in Seq(Block) /\ Len(rest) = Len(blocks) - 1
      /\ \A j \in 1 .. Len(rest) : rest[j] = blocks[1 + j]
  BY <1>1, HeldInOnePlace
<1>3. /\ R \subseteq Held(b) /\ R \subseteq DataVIOs
      /\ \A w \in R : vio[w].state = "journal" /\ w \notin Queued
  BY <1>2, HeldInOnePlace, Zenon DEF Held
<1>4. \A w \in DataVIOs : w \in R <=> \E i \in DOMAIN ws : w \in Range(ws[i])
  OBVIOUS
<1>5. /\ vio' \in [DataVIOs -> VIO]
      /\ \A w \in DataVIOs :
           /\ vio'[w].operation = vio[w].operation
           /\ w \notin R => vio'[w].state = vio[w].state
           /\ w \in R => vio'[w].state = "committed"
  <2>1. continueCommittedWaiters(ws) \in [DataVIOs -> VIO]
    BY ContinueEffect, Zenon DEF continueCommittedWaiters
  <2>2. ASSUME NEW w \in DataVIOs
        PROVE  /\ vio'[w].operation = vio[w].operation
               /\ w \notin R => vio'[w].state = vio[w].state
               /\ w \in R => vio'[w].state = "committed"
    BY <1>1, <1>4, ContinueEffect, ZenonT(30)
  <2>. QED  BY <1>1, <2>1, <2>2, Zenon
<1>6. \A i \in 2 .. Len(blocks) : \A w \in Held(blocks[i]) : w \notin R
  <2>1. ASSUME NEW i \in 2 .. Len(blocks)
        PROVE  Held(blocks[i]) \cap Held(blocks[1]) = {}
    <3>1. i \in 1 .. Len(blocks) /\ i # 1
      BY <1>2
    <3>. QED  BY <1>2, <3>1, HeldInOnePlace, Zenon
  <2>. QED  BY <1>2, <1>3, <2>1, Zenon
<1>. HIDE DEF R, ws
<1>7. CASE blocks' = writeBlock(rest, ActiveIndex(rest, activeBlock'))
  <2>1. ActiveIndex(rest, activeBlock') \in 0 .. Len(rest)
    BY <1>2 DEF ActiveIndex
  <2>. HIDE DEF b, rest
  <2>2. /\ blocks' \in Seq(Block) /\ Len(blocks') = Len(rest)
        /\ \A j \in 1 .. Len(rest) : /\ Held(blocks'[j]) = Held(rest[j])
                                     /\ Separate(rest[j]) => Separate(blocks'[j])
    BY <1>2, <1>7, <2>1, HeldInOnePlace, WriteBlockKeeps, SMTT(20)
  <2>3. \A j \in 1 .. Len(rest) : 1 + j \in 2 .. Len(blocks) /\ 1 + j \in 1 .. Len(blocks)
    BY <1>2
  <2>4. \A j \in 1 .. Len(blocks') :
          /\ Held(blocks'[j]) \subseteq Held(blocks[1 + j])
          /\ Separate(blocks'[j]) /\ \A w \in Held(blocks'[j]) : w \notin R
    BY <1>2, <1>6, <2>2, <2>3, HeldInOnePlace, Zenon
  <2>5. 1 \in Nat /\ 1 + Len(blocks') <= Len(blocks)
    BY <1>2, <2>2
  <2>. QED  BY <1>1, <1>3, <1>5, <2>2, <2>4, <2>5, Released, Zenon
<1>8. CASE blocks' = [blocks EXCEPT ![1].commitWaiters = <<>>]
  <2>1. /\ cleared \in Block /\ cleared.entryWaiters = b.entryWaiters
        /\ cleared.commitWaiters = <<>>
    <3>1. <<>> \in Seq(DataVIOs) /\ b \in Block
      BY <1>2
    <3>. HIDE DEF b
    <3>. QED  BY <3>1, Zenon DEF Block
  <2>2. Held(cleared) = Range(b.entryWaiters) /\ Separate(cleared)
    BY <2>1, RangeEmpty DEF Held, Separate
  <2>3. Held(cleared) \subseteq Held(b) /\ \A w \in Held(cleared) : w \notin R
    <3>1. Separate(b)
      BY <1>2, HeldInOnePlace, Zenon
    <3>. QED  BY <2>2, <3>1, Zenon DEF Separate, Held, R
  <2>4. blocks' = [blocks EXCEPT ![1] = cleared]
    BY <1>2, <1>8
  <2>. HIDE DEF cleared, b
  <2>5. /\ blocks' \in Seq(Block) /\ Len(blocks') = Len(blocks)
        /\ \A j \in 1 .. Len(blocks) : blocks'[j] = IF j = 1 THEN cleared ELSE blocks[j]
    BY <1>2, <2>1, <2>4, HeldInOnePlace
  <2>6. \A j \in 1 .. Len(blocks) : 0 + j = j /\ (j # 1 => j \in 2 .. Len(blocks))
    BY <1>2, SMTT(20)
  <2>7. ASSUME NEW j \in 1 .. Len(blocks')
        PROVE  /\ Held(blocks'[j]) \subseteq Held(blocks[0 + j])
               /\ Separate(blocks'[j]) /\ \A w \in Held(blocks'[j]) : w \notin R
    <3>1. CASE j = 1
      BY <1>2, <2>2, <2>3, <2>5, <2>6, <3>1, Zenon
    <3>2. CASE j # 1
      BY <1>6, <2>5, <2>6, <3>2, HeldInOnePlace, Zenon
    <3>. QED  BY <3>1, <3>2
  <2>8. 0 \in Nat /\ 0 + Len(blocks') <= Len(blocks)
    BY <1>2, <2>5
  <2>. QED  BY <1>1, <1>3, <1>5, <2>5, <2>7, <2>8, Released, Zenon
<1>. QED  BY <1>1, <1>7, <1>8

(* The blocks that read-only mode gives up are some of the tail blocks.    *)
LEMMA AbandonedType ==
  ASSUME RoomInv
  PROVE  Abandoned \in 0 .. Len(blocks)
<1> DEFINE busy == {i \in DOMAIN blocks :
                     /\ blocks[i].committing
                     /\ \A j \in 1 .. i - 1 : ~blocks[j].committing}
<1>1. Len(blocks) \in Nat /\ DOMAIN blocks = 1 .. Len(blocks)
  BY HeldInOnePlace
<1>2. \A i \in busy : i \in 1 .. Len(blocks)
  BY <1>1
<1>3. Abandoned = IF busy = {} THEN Len(blocks) ELSE (CHOOSE i \in busy : TRUE) - 1
  BY Zenon DEF Abandoned
<1>. HIDE DEF busy
<1>4. CASE busy = {}
  BY <1>1, <1>3, <1>4
<1>5. CASE busy # {}
  <2>1. (CHOOSE i \in busy : TRUE) \in 1 .. Len(blocks)
    BY <1>2, <1>5, Zenon
  <2>. QED  BY <1>1, <1>3, <1>5, <2>1
<1>. QED  BY <1>4, <1>5

(* Giving up the first n blocks releases all their waiters.                *)
LEMMA GivenUp ==
  ASSUME RoomInv, NEW n \in 0 .. Len(blocks), NEW w
  PROVE  LET ws == WaitersOf(SubSeq(blocks, 1, n))
         IN  (\E i \in DOMAIN ws : w \in Range(ws[i]))
               <=> \E i \in 1 .. n : w \in Held(blocks[i])
<1> DEFINE given == SubSeq(blocks, 1, n)
           ws == WaitersOf(given)
<1>1. /\ n \in Nat /\ DOMAIN given = 1 .. n /\ \A i \in 1 .. n : given[i] = blocks[i]
  BY HeldInOnePlace
<1>. HIDE DEF given
<1>2. /\ DOMAIN ws = 1 .. n
      /\ \A i \in 1 .. n : ws[i] = blocks[i].commitWaiters \o blocks[i].entryWaiters
  BY <1>1, Zenon DEF WaitersOf
<1>3. ASSUME NEW i \in 1 .. n
      PROVE  Range(ws[i]) = Held(blocks[i])
  <2>1. i \in 1 .. Len(blocks)
    BY <1>1, HeldInOnePlace
  <2>2. /\ blocks[i].commitWaiters \in Seq(DataVIOs)
        /\ blocks[i].entryWaiters \in Seq(DataVIOs)
    BY <2>1, BlockTypes DEF RoomInv
  <2>3. Range(blocks[i].commitWaiters \o blocks[i].entryWaiters) = Held(blocks[i])
    BY <2>2, RangeConcat DEF Held
  <2>. QED  BY <1>2, <2>3, Zenon
<1>. HIDE DEF ws
<1>4. (\E i \in DOMAIN ws : w \in Range(ws[i])) <=> \E i \in 1 .. n : w \in Held(blocks[i])
  BY <1>2, <1>3, Zenon
<1>. QED  BY <1>4, Zenon DEF ws, given

(* The blocks that are kept.                                               *)
LEMMA Kept ==
  ASSUME RoomInv, NEW n \in 0 .. Len(blocks)
  PROVE  LET rest == SubSeq(blocks, n + 1, Len(blocks))
         IN  /\ rest \in Seq(Block) /\ Len(rest) = Len(blocks) - n
             /\ \A j \in 1 .. Len(blocks) - n : rest[j] = blocks[n + j]
<1>1. blocks \in Seq(Block) /\ Len(blocks) \in Nat
  BY HeldInOnePlace
<1>. QED  BY <1>1

(* When the first n blocks are given up, those who wait in the others are  *)
(* not released.                                                           *)
LEMMA GivenUpIsApart ==
  ASSUME RoomInv, NEW n \in 0 .. Len(blocks), NEW j \in 1 .. Len(blocks) - n,
         NEW w \in Held(blocks[n + j])
  PROVE  ~\E i \in 1 .. n : w \in Held(blocks[i])
<1>1. Len(blocks) \in Nat
  BY HeldInOnePlace
<1>2. n + j \in 1 .. Len(blocks) /\ \A i \in 1 .. n : i \in 1 .. Len(blocks) /\ i # n + j
  BY <1>1
<1>. QED  BY <1>2, HeldInOnePlace, Zenon

(* notifyCommitWaiters ends: in read-only mode the blocks it can give up   *)
(* go, with all their waiters.                                             *)
LEMMA StopNotifyingStep ==
  ASSUME RoomInv, StopNotifying
  PROVE  RoomInv'
<1> DEFINE n == IF isReadOnly THEN Abandoned ELSE 0
           ws == WaitersOf(SubSeq(blocks, 1, n))
           R == {w \in DataVIOs : \E i \in 1 .. n : w \in Held(blocks[i])}
<1>1. /\ incrementWaiters' = incrementWaiters /\ decrementWaiters' = decrementWaiters
      /\ tail' = tail /\ head' = head /\ reapHead' = reapHead
      /\ lastWriteAcknowledged' = lastWriteAcknowledged /\ written' = written
      /\ availableSpace' = availableSpace
      /\ pendingDecrementCount' = pendingDecrementCount /\ scenario' = scenario
      /\ readOnly' = readOnly
      /\ vio' = continueCommittedWaiters(ws)
      /\ blocks' = SubSeq(blocks, n + 1, Len(blocks))
  BY Zenon DEF StopNotifying, queueVars, spaceVars, modeVars
<1>2. n \in 0 .. Len(blocks) /\ Len(blocks) \in Nat
  BY AbandonedType, HeldInOnePlace
<1>. HIDE DEF n
<1>3. \A w \in DataVIOs : w \in R <=> \E i \in DOMAIN ws : w \in Range(ws[i])
  BY <1>2, GivenUp, Zenon
<1>4. \A w \in R : vio[w].state = "journal" /\ w \notin Queued
  <2>1. \A i \in 1 .. n : i \in 1 .. Len(blocks)
    BY <1>2
  <2>. QED  BY <2>1, HeldInOnePlace, Zenon
<1>5. \A j \in 1 .. Len(blocks) - n : \A w \in Held(blocks[n + j]) : w \notin R
  BY <1>2, GivenUpIsApart, Zenon
<1>. HIDE DEF ws, R
<1>6. /\ vio' \in [DataVIOs -> VIO]
      /\ \A w \in DataVIOs :
           /\ vio'[w].operation = vio[w].operation
           /\ w \notin R => vio'[w].state = vio[w].state
           /\ w \in R => vio'[w].state \in {"aborted", "committed"}
  <2>1. continueCommittedWaiters(ws) \in [DataVIOs -> VIO]
    BY ContinueEffect, Zenon DEF continueCommittedWaiters
  <2>2. ASSUME NEW w \in DataVIOs
        PROVE  /\ vio'[w].operation = vio[w].operation
               /\ w \notin R => vio'[w].state = vio[w].state
               /\ w \in R => vio'[w].state \in {"aborted", "committed"}
    BY <1>1, <1>3, ContinueEffect, Zenon
  <2>. QED  BY <1>1, <2>1, <2>2, Zenon
<1>7. /\ blocks' \in Seq(Block) /\ Len(blocks') = Len(blocks) - n
      /\ \A j \in 1 .. Len(blocks) - n : blocks'[j] = blocks[n + j]
  BY <1>1, <1>2, Kept, Zenon
<1>8. n \in Nat /\ n + Len(blocks') <= Len(blocks)
  BY <1>2, <1>7
<1>9. \A j \in 1 .. Len(blocks) - n : n + j \in 1 .. Len(blocks)
  BY <1>2
<1>10. \A j \in 1 .. Len(blocks') :
         /\ Held(blocks'[j]) \subseteq Held(blocks[n + j])
         /\ Separate(blocks'[j]) /\ \A w \in Held(blocks'[j]) : w \notin R
  BY <1>5, <1>7, <1>9, HeldInOnePlace, Zenon
<1>11. \A w \in DataVIOs :
         /\ vio'[w].operation = vio[w].operation
         /\ w \notin R => vio'[w].state = vio[w].state
         /\ w \in R => \/ vio'[w].state = "aborted"
                       \/ /\ vio'[w].state = "committed"
                          /\ vio[w].state = "journal" /\ w \notin Queued
  BY <1>4, <1>6, Zenon
<1>12. \A w \in Queued : w \notin R
  BY <1>4, Zenon
<1>. QED  BY <1>1, <1>6, <1>7, <1>8, <1>10, <1>11, <1>12, Released, Zenon

(* checkForDrainComplete in read-only mode gives up the queues and the     *)
(* blocks that are not being written, and may recycle the active block.    *)
LEMMA CheckForDrainCompleteStep ==
  ASSUME RoomInv, CheckForDrainComplete
  PROVE  RoomInv'
<1> DEFINE n == IF isReadOnly THEN Abandoned ELSE 0
           ws == WaitersOf(SubSeq(blocks, 1, n))
           rest == SubSeq(blocks, n + 1, Len(blocks))
           done == continueCommittedWaiters(ws)
           aborted == IF isReadOnly THEN Queued ELSE {}
           given == {w \in DataVIOs : \E i \in 1 .. n : w \in Held(blocks[i])}
           R == given \cup aborted
<1>1. /\ tail' = tail /\ head' = head /\ reapHead' = reapHead
      /\ lastWriteAcknowledged' = lastWriteAcknowledged /\ written' = written
      /\ availableSpace' = availableSpace
      /\ pendingDecrementCount' = pendingDecrementCount /\ scenario' = scenario
      /\ readOnly' = readOnly
  BY Zenon DEF CheckForDrainComplete, spaceVars
<1>2. /\ vio' = [w \in DataVIOs |-> IF w \in aborted
                                    THEN [vio[w] EXCEPT !.state = "aborted"] ELSE done[w]]
      /\ \/ blocks' = rest
         \/ rest # <<>> /\ blocks' = SubSeq(rest, 1, Len(rest) - 1)
  <2>1. \A w \in DataVIOs : w \in aborted <=>
          isReadOnly /\ w \in Range(incrementWaiters) \cup Range(decrementWaiters)
    BY Zenon DEF Queued
  <2>. HIDE DEF aborted, done
  <2>2. vio' = [w \in DataVIOs |->
                  IF isReadOnly /\ w \in Range(incrementWaiters) \cup Range(decrementWaiters)
                  THEN [vio[w] EXCEPT !.state = "aborted"] ELSE done[w]]
    BY Zenon DEF CheckForDrainComplete, done
  <2>3. blocks' = rest \/ (rest # <<>> /\ blocks' = SubSeq(rest, 1, Len(rest) - 1))
    BY Zenon DEF CheckForDrainComplete
  <2>. QED  BY <2>1, <2>2, <2>3, Zenon
<1>3. \/ /\ incrementWaiters' = incrementWaiters /\ decrementWaiters' = decrementWaiters
         /\ aborted = {}
      \/ incrementWaiters' = <<>> /\ decrementWaiters' = <<>> /\ aborted = Queued
  BY Zenon DEF CheckForDrainComplete, queueVars
<1>4. n \in 0 .. Len(blocks) /\ Len(blocks) \in Nat
  BY AbandonedType, HeldInOnePlace
<1>5. Queued \subseteq DataVIOs /\ aborted \subseteq Queued
  BY RangeType DEF RoomInv, RoomTypes, Queued
<1>. HIDE DEF n, aborted
<1>6. \A w \in DataVIOs : w \in given <=> \E i \in DOMAIN ws : w \in Range(ws[i])
  BY <1>4, GivenUp, Zenon
<1>7. \A w \in given : vio[w].state = "journal" /\ w \notin Queued
  <2>1. \A i \in 1 .. n : i \in 1 .. Len(blocks)
    BY <1>4
  <2>. QED  BY <2>1, HeldInOnePlace, Zenon
<1>8. \A j \in 1 .. Len(blocks) - n : \A w \in Held(blocks[n + j]) : w \notin given
  BY <1>4, GivenUpIsApart, Zenon
<1>. HIDE DEF given
<1>9. \A j \in 1 .. Len(blocks) - n : n + j \in 1 .. Len(blocks)
  BY <1>4
<1>10. \A j \in 1 .. Len(blocks) - n : \A w \in Held(blocks[n + j]) : w \notin R
  BY <1>5, <1>8, <1>9, HeldInOnePlace, Zenon
<1>11. /\ rest \in Seq(Block) /\ Len(rest) = Len(blocks) - n
       /\ \A j \in 1 .. Len(blocks) - n : rest[j] = blocks[n + j]
  BY <1>4, Kept, Zenon
<1>. HIDE DEF ws, rest
<1>12. /\ blocks' \in Seq(Block) /\ Len(blocks') \in Nat
       /\ Len(blocks') <= Len(blocks) - n
       /\ \A j \in 1 .. Len(blocks') : blocks'[j] = rest[j] /\ j \in 1 .. Len(blocks) - n
  <2>1. CASE blocks' = rest
    BY <1>4, <1>11, <2>1
  <2>2. CASE rest # <<>> /\ blocks' = SubSeq(rest, 1, Len(rest) - 1)
    BY <1>4, <1>11, <2>2
  <2>. QED  BY <1>2, <2>1, <2>2
<1>13. n \in Nat /\ n + Len(blocks') <= Len(blocks)
  BY <1>4, <1>12
<1>14. \A j \in 1 .. Len(blocks') :
         /\ Held(blocks'[j]) \subseteq Held(blocks[n + j])
         /\ Separate(blocks'[j]) /\ \A w \in Held(blocks'[j]) : w \notin R
  BY <1>9, <1>10, <1>11, <1>12, HeldInOnePlace, Zenon
<1>15. done \in [DataVIOs -> VIO]
  BY ContinueEffect, ZenonT(30) DEF continueCommittedWaiters
<1>16. ASSUME NEW w \in DataVIOs
       PROVE  /\ vio'[w] \in VIO /\ vio'[w].operation = vio[w].operation
              /\ w \notin R => vio'[w].state = vio[w].state
              /\ w \in R => \/ vio'[w].state = "aborted"
                            \/ /\ vio'[w].state = "committed"
                               /\ vio[w].state = "journal" /\ w \notin Queued
              /\ w \in aborted => vio'[w].state = "aborted"
  <2>1. CASE w \in aborted
    <3>1. vio'[w] = [vio[w] EXCEPT !.state = "aborted"] /\ vio[w] \in VIO
      BY <1>2, <2>1, VIOFields, Zenon
    <3>2. /\ vio'[w] \in VIO /\ vio'[w].operation = vio[w].operation
          /\ vio'[w].state = "aborted"
      BY <3>1 DEF VIO
    <3>. QED  BY <2>1, <3>2, Zenon
  <2>2. CASE w \notin aborted
    <3>1. vio'[w] = done[w]
      BY <1>2, <2>2, Zenon
    <3>2. /\ done[w].operation = vio[w].operation
          /\ w \notin given => done[w] = vio[w]
          /\ w \in given => done[w].state = IF isReadOnly THEN "aborted" ELSE "committed"
      BY <1>6, ContinueEffect, Zenon
    <3>3. done[w] \in VIO
      BY <1>15, Zenon
    <3>. HIDE DEF done
    <3>. QED  BY <1>7, <2>2, <3>1, <3>2, <3>3, Zenon
  <2>. QED  BY <2>1, <2>2
<1>17. vio' \in [DataVIOs -> VIO]
  <2>1. vio' = [w \in DataVIOs |-> vio'[w]]
    BY <1>2, Zenon
  <2>. QED  BY <1>16, <2>1, Zenon
<1>18. \/ /\ incrementWaiters' = incrementWaiters /\ decrementWaiters' = decrementWaiters
          /\ \A w \in Queued : w \notin R
       \/ /\ incrementWaiters' = <<>> /\ decrementWaiters' = <<>>
          /\ \A w \in Queued : vio'[w].state = "aborted"
  <2>1. CASE /\ incrementWaiters' = incrementWaiters /\ decrementWaiters' = decrementWaiters
             /\ aborted = {}
    BY <1>7, <2>1, Zenon
  <2>2. CASE incrementWaiters' = <<>> /\ decrementWaiters' = <<>> /\ aborted = Queued
    BY <1>5, <1>16, <2>2, Zenon
  <2>. QED  BY <1>3, <2>1, <2>2, Zenon
<1>. HIDE DEF R
<1>19. \A w \in DataVIOs :
         /\ vio'[w].operation = vio[w].operation
         /\ w \notin R => vio'[w].state = vio[w].state
         /\ w \in R => \/ vio'[w].state = "aborted"
                       \/ /\ vio'[w].state = "committed"
                          /\ vio[w].state = "journal" /\ w \notin Queued
  BY <1>16, Zenon
<1>. QED  BY <1>1, <1>12, <1>13, <1>14, <1>17, <1>18, <1>19, Released, Zenon

-----------------------------------------------------------------------------
(* The active block.                                                       *)

(* The active block is given up with the last of the tail blocks.          *)
LEMMA ActiveStep ==
  ASSUME RoomInv, ActiveIsABlock, [Next]_vars
  PROVE  ActiveIsABlock'
<1>1. blocks \in Seq(Block) /\ Len(blocks) \in Nat /\ head \in [HeadTypes -> Nat]
  BY HeldInOnePlace
<1>2. CASE activeBlock' => blocks' # <<>>
  BY <1>2, Zenon DEF ActiveIsABlock
<1>3. CASE blocks' = blocks /\ (activeBlock' => activeBlock)
  BY <1>3, Zenon DEF ActiveIsABlock
<1>4. CASE Len(blocks') = Len(blocks) /\ (activeBlock' => activeBlock)
  <2>1. blocks' = <<>> => Len(blocks') = 0
    OBVIOUS
  <2>2. Len(blocks) = 0 => blocks = <<>>
    BY <1>1
  <2>. QED  BY <1>4, <2>1, <2>2, Zenon DEF ActiveIsABlock
<1>5. CASE AdvanceTail
  <2>1. blocks' = Append(blocks, NewBlock)
    BY <1>5 DEF AdvanceTail
  <2>2. blocks' # <<>>
    BY <1>1, <2>1
  <2>. QED  BY <1>2, <2>2
<1>6. CASE AssignEntry
  <2>1. Len(blocks') = Len(blocks)
    BY <1>6, AssignEntryEffect, Zenon
  <2>2. activeBlock' = activeBlock
    BY <1>6 DEF AssignEntry
  <2>. QED  BY <1>4, <2>1, <2>2
<1>7. CASE StopAssigning
  <2>1. \/ blocks' = blocks /\ activeBlock' = activeBlock
        \/ /\ activeBlock' => activeBlock
           /\ blocks' = writeBlock(blocks, ActiveIndex(blocks, activeBlock'))
    BY <1>7, Zenon DEF StopAssigning
  <2>2. ActiveIndex(blocks, activeBlock') \in 0 .. Len(blocks)
    BY <1>1 DEF ActiveIndex
  <2>3. Len(writeBlock(blocks, ActiveIndex(blocks, activeBlock'))) = Len(blocks)
    BY <1>1, <2>2, WriteBlockKeeps
  <2>. QED  BY <1>3, <1>4, <2>1, <2>3, Zenon
<1>8. CASE CompleteWrite
  <2> DEFINE new(i) == IF blocks[i].sequenceNumber = written
                       THEN [blocks[i] EXCEPT !.committing = FALSE, !.entriesInCommit = 0]
                       ELSE blocks[i]
  <2>1. activeBlock' = activeBlock /\ blocks' = [i \in DOMAIN blocks |-> new(i)]
    BY <1>8, Zenon DEF CompleteWrite
  <2>. HIDE DEF new
  <2>2. Len(blocks') = Len(blocks)
    BY <1>1, <2>1
  <2>. QED  BY <1>4, <2>1, <2>2
<1>9. CASE Rewrite
  <2>1. /\ activeBlock' = activeBlock
        /\ blocks' = blocks \/ \E i \in DOMAIN blocks : blocks' = writeBlock(blocks, i)
    BY <1>9, Zenon DEF Rewrite
  <2>2. \A i \in DOMAIN blocks : i \in 0 .. Len(blocks)
    BY <1>1
  <2>3. \A i \in DOMAIN blocks : Len(writeBlock(blocks, i)) = Len(blocks)
    BY <1>1, <2>2, WriteBlockKeeps
  <2>4. Len(blocks') = Len(blocks)
    <3>1. CASE blocks' = blocks
      BY <3>1
    <3>2. ASSUME NEW i \in DOMAIN blocks, blocks' = writeBlock(blocks, i)
          PROVE  Len(blocks') = Len(blocks)
      BY <2>3, <3>2
    <3>. QED  BY <2>1, <3>1, <3>2
  <2>. QED  BY <1>4, <2>1, <2>4, Zenon
<1>10. CASE NotifyCommitWaiters
  <2> DEFINE rest == Tail(blocks)
             i == ActiveIndex(rest, activeBlock')
  <2>1. /\ blocks # <<>>
        /\ \/ /\ blocks' = writeBlock(rest, i)
              /\ activeBlock' => rest # <<>>
           \/ /\ blocks' = [blocks EXCEPT ![1].commitWaiters = <<>>]
              /\ activeBlock' => activeBlock
    BY <1>10, Zenon DEF NotifyCommitWaiters
  <2>2. Len([blocks EXCEPT ![1].commitWaiters = <<>>]) = Len(blocks)
    BY <1>1
  <2>3. rest \in Seq(Block) /\ i \in 0 .. Len(rest) /\ (Len(rest) = 0 => rest = <<>>)
    <3>1. rest \in Seq(Block)
      BY <1>1, <2>1
    <3>. HIDE DEF rest
    <3>2. Len(rest) \in Nat /\ (Len(rest) = 0 => rest = <<>>)
      BY <3>1
    <3>3. i \in 0 .. Len(rest)
      BY <3>2 DEF ActiveIndex
    <3>. QED  BY <3>1, <3>2, <3>3
  <2>. HIDE DEF rest, i
  <2>4. Len(writeBlock(rest, i)) = Len(rest)
    BY <1>1, <2>3, WriteBlockKeeps
  <2>5. CASE blocks' = writeBlock(rest, i) /\ (activeBlock' => rest # <<>>)
    <3>1. blocks' = <<>> => Len(blocks') = 0
      OBVIOUS
    <3>. QED  BY <1>2, <2>3, <2>4, <2>5, <3>1, Zenon
  <2>. QED  BY <1>4, <2>1, <2>2, <2>5, Zenon
<1>11. CASE StopNotifying
  <2> DEFINE n == IF isReadOnly THEN Abandoned ELSE 0
  <2>1. /\ blocks' = SubSeq(blocks, n + 1, Len(blocks))
        /\ activeBlock' => n < Len(blocks)
    BY <1>11, Zenon DEF StopNotifying
  <2>2. n \in 0 .. Len(blocks)
    BY <1>1, AbandonedType
  <2>. HIDE DEF n
  <2>3. Len(blocks') = Len(blocks) - n
    BY <2>1, <2>2, Kept, Zenon
  <2>4. activeBlock' => Len(blocks') # 0
    BY <1>1, <2>1, <2>2, <2>3
  <2>5. blocks' = <<>> => Len(blocks') = 0
    OBVIOUS
  <2>. QED  BY <1>2, <2>4, <2>5, Zenon
<1>12. CASE CheckForDrainComplete
  <2>1. activeBlock' => blocks' # <<>>
    BY <1>12, Zenon DEF CheckForDrainComplete
  <2>. QED  BY <1>2, <2>1
<1>13. CASE UNCHANGED vars
  BY <1>3, <1>13 DEF vars
<1>14. CASE \/ \E v \in Writers, o \in Increments : AddIncrement(v, o)
            \/ \E v \in DataVIOs :
                 AddDecrement(v) \/ MakeSlabJournalEntry(v) \/ UpdateBlockMap(v)
            \/ ReapRecoveryJournal \/ ReapRecoveryJournalCallback \/ CompleteReaping
            \/ NotifyOfReadOnlyMode
            \/ \E i \in DOMAIN blocks : WriteDone(i) \/ WriteError(i)
            \/ FlushError \/ EnterReadOnlyMode
            \/ \E o \in AdminOperations : DrainRecoveryJournal(o)
            \/ ResumeRecoveryJournal
            \/ \E t \in HeadTypes, l \in Locks : ReleaseZoneLock(t, l)
  <2>1. blocks' = blocks /\ activeBlock' = activeBlock
    BY <1>14, Zenon DEF AddIncrement, AddDecrement, MakeSlabJournalEntry, UpdateBlockMap,
       ZoneStep, ReapRecoveryJournal, ReapRecoveryJournalCallback, CompleteReaping,
       NotifyOfReadOnlyMode, WriteDone, WriteError, FlushError, EnterReadOnlyMode,
       DrainRecoveryJournal, ResumeRecoveryJournal, ReleaseZoneLock
  <2>. QED  BY <1>3, <2>1
<1>. QED  BY <1>5, <1>6, <1>7, <1>8, <1>9, <1>10, <1>11, <1>12, <1>13, <1>14, ZenonT(30)
          DEF Next, JournalStep

-----------------------------------------------------------------------------
(* The theorem.                                                            *)

(* Every step of the journal and of its users keeps the promise.           *)
LEMMA RoomStep ==
  ASSUME RoomInv, ActiveIsABlock, [Next]_vars
  PROVE  RoomInv'
<1>1. ASSUME NEW v \in Writers, NEW o \in Increments, AddIncrement(v, o)
      PROVE  RoomInv'
  <2>1. v \in DataVIOs
    BY RecoveryJournalConstants DEF RoomInv, RoomTypes, Writers
  <2>. QED  BY <1>1, <2>1, AddEntryStep
<1>2. ASSUME NEW v \in DataVIOs, AddDecrement(v)
      PROVE  RoomInv'
  BY <1>2, AddEntryStep
<1>3. ASSUME NEW v \in DataVIOs, MakeSlabJournalEntry(v) \/ UpdateBlockMap(v)
      PROVE  RoomInv'
  BY <1>3, AfterCommitStep
<1>4. CASE AdvanceTail
  BY <1>4, AdvanceTailStep
<1>5. CASE AssignEntry
  BY <1>5, AssignEntryStep
<1>6. CASE StopAssigning
  BY <1>6, StopAssigningStep
<1>7. CASE CompleteWrite
  BY <1>7, CompleteWriteStep
<1>8. CASE NotifyCommitWaiters
  BY <1>8, NotifyCommitWaitersStep
<1>9. CASE StopNotifying
  BY <1>9, StopNotifyingStep
<1>10. CASE Rewrite
  BY <1>10, RewriteStep
<1>11. CASE ReapRecoveryJournal \/ CompleteReaping \/ ResumeRecoveryJournal
  BY <1>11, ReapStep
<1>12. CASE CheckForDrainComplete
  BY <1>12, CheckForDrainCompleteStep
<1>13. CASE \/ ReapRecoveryJournalCallback \/ NotifyOfReadOnlyMode
            \/ \E i \in DOMAIN blocks : WriteDone(i) \/ WriteError(i)
            \/ FlushError \/ EnterReadOnlyMode
            \/ \E o \in AdminOperations : DrainRecoveryJournal(o)
            \/ \E t \in HeadTypes, l \in Locks : ReleaseZoneLock(t, l)
            \/ UNCHANGED vars
  BY <1>13, QuietStep
<1>. QED  BY <1>1, <1>2, <1>3, <1>4, <1>5, <1>6, <1>7, <1>8, <1>9, <1>10, <1>11,
             <1>12, <1>13, Zenon DEF Next, JournalStep

(* "There must always be room to make a decrement entry"                   *)
(* (prepareToAssignEntry()): for any DataVIOs, any journal and any tail    *)
(* blocks, and with every failure and drain, assignEntries() never takes   *)
(* the VDO read-only because a decrement finds the journal full.           *)
THEOREM DecrementsFit == Spec => []DecrementAlwaysFits
<1>1. Init => RoomInv /\ ActiveIsABlock
  <2>1. Init => ActiveIsABlock
    BY Zenon DEF Init, ActiveIsABlock
  <2>. QED  BY <2>1, RoomInit
<1>2. RoomInv /\ ActiveIsABlock /\ [Next]_vars => (RoomInv /\ ActiveIsABlock)'
  BY RoomStep, ActiveStep
<1>3. RoomInv => DecrementAlwaysFits
  BY DEF RoomInv
<1>. QED  BY <1>1, <1>2, <1>3, PTL DEF Spec

=============================================================================
