------------------------------- MODULE Packer -------------------------------
(***************************************************************************)
(* The packer (base/packer.c), which puts the compressed data of DataVIOs  *)
(* into bins until a bin is worth a compressed block, and the compression  *)
(* state of a DataVIO (base/compressionState.c), by which another thread   *)
(* keeps a DataVIO from waiting in a bin or has it taken out.              *)
(*                                                                         *)
(* The packer runs on a thread of its own (shared with the flusher, module *)
(* Flush); each of its callbacks is one step, except that attemptPacking() *)
(* is two: between its compare-and-swap of the compression state and the   *)
(* end another thread may cancel the DataVIO.  A handler is an operator    *)
(* from a state s, a record of the DataVIOs and the packer, to the next.   *)
(*                                                                         *)
(* Data: sizes are small numbers; the statistics are left out.             *)
(***************************************************************************)
EXTENDS Integers, Sequences, FiniteSets, SequencesExt

CONSTANTS DataVIOs,   \* the writes
          Scenarios,  \* the packers and surroundings to consider
          None

VARIABLES vio,        \* the DataVIOs
          packer,     \* the Packer
          call,       \* what the packer thread is in the middle of
          removals,   \* the lock holders removeLockHolderFromPacker() is due for
          readOnly,   \* the VDO is in read-only mode
          scenario    \* which of Scenarios this is, never changed

packerVars == <<vio, packer, call, removals, readOnly, scenario>>

Writers == scenario.writers         \* the DataVIOs that write
Size == scenario.size               \* the compressed size of each
BinDataSize == scenario.binDataSize
MAX_COMPRESSION_SLOTS == scenario.maxSlots \* slots of a compressed block
InputBins == scenario.inputBins     \* how many of them
OutputBins == 1 .. scenario.outputBins

EmptyBin == [vios |-> <<>>, freeSpace |-> BinDataSize]
IdleBin == [vios |-> <<>>, phase |-> "idle"]

NewVIO == [pc |-> "new", generation |-> 0, status |-> "PRE", mayNotCompress |-> FALSE]

NewPacker ==
  [inputBins |-> [i \in 1 .. InputBins |-> EmptyBin], canceledBin |-> <<>>, batched |-> <<>>,
   outputBins |-> [o \in OutputBins |-> IdleBin], flushGeneration |-> 0, state |-> "normal"]

PackerState == [vio |-> vio, packer |-> packer]
PackerBecomes(s) == vio' = s.vio /\ packer' = s.packer

-----------------------------------------------------------------------------
(* The compression state: each operator is one successful compare-and-swap. *)

NextStatus == [PRE |-> "COMPRESSING", COMPRESSING |-> "PACKING", PACKING |-> "POST"]

advanceStatus(x) ==
  IF x.status = "POST" THEN x
  ELSE [x EXCEPT !.status = IF x.mayNotCompress THEN "POST" ELSE NextStatus[x.status]]

setCompressionDone(x) ==
  IF x.status = "POST" THEN x ELSE [x EXCEPT !.status = "POST", !.mayNotCompress = TRUE]

\* cancelCompression(), and its result: the canceler has to go to the packer.
cancelCompression(x) == IF x.status = "POST" THEN x ELSE [x EXCEPT !.mayNotCompress = TRUE]

MustRemove(x) == x.status = "PACKING" /\ ~x.mayNotCompress

-----------------------------------------------------------------------------
(* The bins.                                                               *)

\* abortPacking(): the DataVIO goes on without the packer.
abortPacking(s, v) == [s EXCEPT !.vio[v] = [setCompressionDone(@) EXCEPT !.pc = "leaving"]]

\* insertInSortedList(): the input bins are sorted by free space.
insertInSortedList(bins, i) ==
  LET others == RemoveAt(bins, i)
      larger == {k \in DOMAIN others : others[k].freeSpace > bins[i].freeSpace}
  IN InsertAt(others, IF larger = {} THEN Len(bins)
                      ELSE CHOOSE k \in larger : \A m \in larger : k <= m, bins[i])

\* startNewBatch(): the DataVIOs of a bin are batched, the canceled ones wait
\* for their cancelers in the canceled bin.
startNewBatch(s, i) ==
  LET batchOne(w, v) ==
        LET x == advanceStatus(w.vio[v])
        IN IF x.mayNotCompress
           THEN [w EXCEPT !.vio[v] = x, !.packer.canceledBin = Append(@, v)]
           ELSE [w EXCEPT !.vio[v] = x, !.packer.batched = Append(@, v)]
  IN [FoldLeft(batchOne, s, s.packer.inputBins[i].vios)
        EXCEPT !.packer.inputBins[i] = EmptyBin]

\* getNextBatch(): as many batched DataVIOs as fit a block.
SizeOfAll(vios) == FoldLeft(LAMBDA n, v : n + Size[v], 0, vios)

getNextBatch(batched) ==
  LET fits == {k \in 1 .. Len(batched) :
                 k <= MAX_COMPRESSION_SLOTS /\ SizeOfAll(SubSeq(batched, 1, k)) <= BinDataSize}
  IN SubSeq(batched, 1, CHOOSE k \in fits : \A m \in fits : m <= k)

\* writePendingBatches() with writeNextBatch() and launchCompressedWrite(): a
\* DataVIO that is alone in its batch, and in read-only mode every one, goes on
\* by itself.
RECURSIVE writePendingBatches(_)
writePendingBatches(s) ==
  LET idle == {o \in OutputBins : s.packer.outputBins[o].phase = "idle"}
      batch == getNextBatch(s.packer.batched)
      taken == [s EXCEPT !.packer.batched = SubSeq(@, Len(batch) + 1, Len(@))]
  IN IF s.packer.batched = <<>> \/ idle = {} THEN s
     ELSE writePendingBatches(
            IF Len(batch) = 1 \/ readOnly THEN FoldLeft(abortPacking, taken, batch)
            ELSE [taken EXCEPT !.packer.outputBins[CHOOSE o \in idle : TRUE] =
                                 [vios |-> batch, phase |-> "writing"]])

writeAllNonEmptyBins(s) ==
  writePendingBatches(FoldLeft(startNewBatch, s, [i \in 1 .. InputBins |-> i]))

\* selectInputBin(): the fullest bin with room, or the fullest if it holds more
\* than the DataVIO would put there, or none.
selectInputBin(p, v) ==
  LET fitting == {i \in 1 .. InputBins : p.inputBins[i].freeSpace >= Size[v]}
  IN IF fitting # {} THEN CHOOSE i \in fitting : \A k \in fitting : i <= k
     ELSE IF Size[v] >= BinDataSize - p.inputBins[1].freeSpace THEN None ELSE 1

checkForDrainComplete(s) ==
  IF /\ s.packer.state = "draining"
     /\ s.packer.canceledBin = <<>>
     /\ \A o \in OutputBins : s.packer.outputBins[o].phase = "idle"
  THEN [s EXCEPT !.packer.state = "suspended"] ELSE s

-----------------------------------------------------------------------------
(* The callbacks of the packer thread.                                     *)

\* Mutant: the packer takes DataVIOs of any flush generation.
MayAttemptAnyGeneration(v) == packer.state = "normal"

MayAttempt(v) ==
  packer.state = "normal" /\ vio[v].generation >= packer.flushGeneration

\* packCompressedData() and attemptPacking(), until the DataVIO is in its bin.
AttemptPacking(v) ==
  LET i == selectInputBin(packer, v)
      x == advanceStatus(vio[v])
      full == packer.inputBins[i].freeSpace < Size[v]
      room == IF full THEN startNewBatch(PackerState, i) ELSE PackerState
  IN /\ call = None
     /\ vio[v].pc = "pack"
     /\ IF vio[v].mayNotCompress \/ ~MayAttempt(v) \/ i = None
        THEN /\ PackerBecomes(abortPacking(PackerState, v))
             /\ UNCHANGED call
        ELSE /\ PackerBecomes(
                  [room EXCEPT !.vio[v] = [x EXCEPT !.pc = "packer"],
                               !.packer.inputBins[i].vios = Append(@, v),
                               !.packer.inputBins[i].freeSpace = @ - Size[v]])
             /\ call' = [op |-> "pack", bin |-> i]
     /\ UNCHANGED <<removals, readOnly, scenario>>

\* ... and the rest of addDataVIOToInputBin() and of attemptPacking().
FinishAttempt ==
  LET i == call.bin
      bin == packer.inputBins[i]
      full == Len(bin.vios) = MAX_COMPRESSION_SLOTS \/ bin.freeSpace = 0
      batched == IF full THEN startNewBatch(PackerState, i) ELSE PackerState
      sorted == [batched EXCEPT !.packer.inputBins = insertInSortedList(@, i)]
  IN /\ call # None /\ call.op = "pack"
     /\ PackerBecomes(writePendingBatches(sorted))
     /\ call' = None
     /\ UNCHANGED <<removals, readOnly, scenario>>

\* removeLockHolderFromPacker() with removeFromPacker(): the last DataVIO of
\* the bin takes the place of the one that leaves.
Without(vios, v) ==
  LET i == CHOOSE k \in DOMAIN vios : vios[k] = v
  IN IF i = Len(vios) THEN Front(vios) ELSE ReplaceAt(Front(vios), i, Last(vios))

InBin(v) == {i \in 1 .. InputBins : v \in Range(packer.inputBins[i].vios)}

RemoveLockHolderFromPacker(v) ==
  LET i == CHOOSE k \in InBin(v) : TRUE
      removed ==
        IF InBin(v) # {}
        THEN [PackerState EXCEPT !.packer.inputBins =
                insertInSortedList([@ EXCEPT ![i].vios = Without(@, v),
                                             ![i].freeSpace = @ + Size[v]], i)]
        ELSE [PackerState EXCEPT !.packer.canceledBin = Without(@, v)]
  IN /\ call = None
     /\ v \in removals
     /\ removals' = removals \ {v}
     /\ PackerBecomes(checkForDrainComplete(abortPacking(removed, v)))
     /\ UNCHANGED <<call, readOnly, scenario>>

\* finishCompressedWrite(): the DataVIOs that were written go on; after an
\* error, or without a free block, they wait for completeOutputBin().
FinishCompressedWrite(o) ==
  /\ packer.outputBins[o].phase = "writing"
  /\ \E written \in BOOLEAN :
       /\ packer' = [packer EXCEPT !.outputBins[o].phase = "complete",
                                   !.outputBins[o].vios = IF written THEN <<>> ELSE @]
       /\ vio' = [v \in DataVIOs |->
                    IF written /\ v \in Range(packer.outputBins[o].vios)
                    THEN [vio[v] EXCEPT !.pc = "leaving"] ELSE vio[v]]
  /\ UNCHANGED <<call, removals, readOnly, scenario>>

\* completeOutputBin() with finishOutputBin()
CompleteOutputBin(o) ==
  LET finished == [FoldLeft(abortPacking, PackerState, packer.outputBins[o].vios)
                     EXCEPT !.packer.outputBins[o] = IdleBin]
  IN /\ call = None
     /\ packer.outputBins[o].phase = "complete"
     /\ PackerBecomes(checkForDrainComplete(writePendingBatches(finished)))
     /\ UNCHANGED <<call, removals, readOnly, scenario>>

\* incrementPackerFlushGeneration() with flushPacker()
incrementPackerFlushGeneration(s) ==
  LET next == [s EXCEPT !.packer.flushGeneration = @ + 1]
  IN IF s.packer.state = "normal" THEN writeAllNonEmptyBins(next) ELSE next

drainPacker(s) ==
  checkForDrainComplete(writeAllNonEmptyBins([s EXCEPT !.packer.state = "draining"]))

PackerThread ==
  \/ \E v \in DataVIOs : AttemptPacking(v) \/ RemoveLockHolderFromPacker(v)
  \/ FinishAttempt
  \/ \E o \in OutputBins : FinishCompressedWrite(o) \/ CompleteOutputBin(o)

-----------------------------------------------------------------------------

PackerInit ==
  /\ scenario \in Scenarios
  /\ vio = [v \in DataVIOs |-> IF v \in Writers THEN NewVIO ELSE [NewVIO EXCEPT !.pc = "done"]]
  /\ packer = NewPacker
  /\ call = None
  /\ removals = {}
  /\ readOnly = FALSE

\* Where the packer has DataVIOs.
InPacker ==
  Range(packer.canceledBin) \union Range(packer.batched)
    \union UNION {Range(packer.inputBins[i].vios) : i \in 1 .. InputBins}
    \union UNION {Range(packer.outputBins[o].vios) : o \in OutputBins}

=============================================================================
