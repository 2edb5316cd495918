-------------------------------- MODULE Flush --------------------------------
(***************************************************************************)
(* Flushes (base/flush.c), the logical zones that track which writes they  *)
(* must wait for (base/logicalZone.c) and serialize writes of one logical  *)
(* block (the LBN lock of base/dataVIO.c), together with the packer in     *)
(* which those writes may wait (module Packer), and their suspend.         *)
(*                                                                         *)
(* Every logical zone has a thread; the flusher shares the packer's.  A    *)
(* write joins the current flush generation of its zone.  A flush ends     *)
(* that generation in one zone after the other, then in the packer, and is *)
(* answered when no zone has an older write.  completeFlushes() reads the  *)
(* zones' oldest generations one by one, while the zones go on.            *)
(*                                                                         *)
(* Data: the write path before and after the packer is one step each       *)
(* (modules HashLock, RecoveryJournal); reads are not modelled.            *)
(***************************************************************************)
EXTENDS Packer

CONSTANTS Zones,   \* the number of logical zones
          LBNs, ZoneOf, \* the logical blocks and the zone of each
          LBNOf,   \* the logical block of each write
          MaxFlushes \* bound: no scenario has more flushes

FlushAssumption == Zones \in Nat \ {0} /\ \A b \in LBNs : ZoneOf[b] \in 0 .. (Zones - 1)

VARIABLES zones,    \* the LogicalZones
          lbnLocks, \* the holder of each LBN's lock and, after it, the waiters
          flusher,  \* the Flusher
          admin,    \* the suspend or resume in progress
          covered   \* the writes that were active when an answered flush came

flushVars == <<zones, lbnLocks, flusher, admin, covered>>
vars == <<packerVars, flushVars>>

ZoneNumbers == 0 .. (Zones - 1)
Zone(v) == ZoneOf[LBNOf[v]]

NewZone ==
  [flushGeneration |-> 0, oldestActive |-> 0, notification |-> 0, notifying |-> FALSE,
   completion |-> "idle", writeVIOs |-> <<>>, state |-> "normal"]

-----------------------------------------------------------------------------
(* A logical zone.  Its record holds oldestLockedGeneration, the atomic    *)
(* copy of oldestActiveGeneration, only once: they change together.        *)
(* writeVIOs holds each write with its flush generation.                   *)

ActiveWrites(zone) == {e.vio : e \in Range(zone.writeVIOs)}

updateOldestActiveGeneration(zone) ==
  [zone EXCEPT !.oldestActive = IF zone.writeVIOs = <<>> THEN zone.flushGeneration
                                ELSE Head(zone.writeVIOs).generation]

incrementFlushGeneration(zone) ==
  updateOldestActiveGeneration([zone EXCEPT !.flushGeneration = @ + 1])

zoneDrainCheck(zone) ==
  IF zone.state = "draining" /\ ~zone.notifying /\ zone.writeVIOs = <<>>
  THEN [zone EXCEPT !.state = "suspended"] ELSE zone

attemptGenerationCompleteNotification(zone) ==
  IF zone.oldestActive <= zone.notification
  THEN zoneDrainCheck([zone EXCEPT !.notifying = FALSE, !.completion = "idle"])
  ELSE [zone EXCEPT !.notifying = TRUE, !.completion = "flusher",
                    !.notification = zone.oldestActive]

\* releaseFlushGenerationLock() of a write, if it has the lock
releaseFlushGenerationLock(zone, v) ==
  LET updated == updateOldestActiveGeneration(
                   [zone EXCEPT !.writeVIOs = SelectSeq(@, LAMBDA e : e.vio # v)])
  IN IF v \notin ActiveWrites(zone) THEN zone
     ELSE IF updated.oldestActive = zone.oldestActive \/ zone.notifying THEN updated
     ELSE attemptGenerationCompleteNotification(updated)

\* launchLockedRequest() with launchWriteDataVIO(), acquireFlushGenerationLock()
mayLaunch(zone) == ~readOnly /\ zone.state = "normal"

launchLockedRequest(x, zone) ==
  [x EXCEPT !.pc = IF mayLaunch(zone) THEN "compress" ELSE "leaving",
            !.generation = IF mayLaunch(zone) THEN zone.flushGeneration ELSE @]

acquireFlushGenerationLock(zone, v) ==
  IF mayLaunch(zone)
  THEN [zone EXCEPT !.writeVIOs = Append(@, [vio |-> v, generation |-> zone.flushGeneration])]
  ELSE zone

-----------------------------------------------------------------------------
(* The callbacks of the logical zones' threads.                            *)

\* While it suspends, the layer holds requests back.
MayArrive == scenario.busySuspend \/ admin.phase = "running"

\* attemptLogicalBlockLock(): a write that has to wait keeps the holder of the
\* lock from waiting in the packer.
AttemptLogicalBlockLock(v) ==
  LET b == LBNOf[v]
      z == ZoneOf[b]
      lock == lbnLocks[b]
      holder == Head(lock)
  IN /\ vio[v].pc = "new" /\ MayArrive
     /\ lbnLocks' = [lbnLocks EXCEPT ![b] = Append(@, v)]
     /\ IF lock = <<>>
        THEN /\ vio' = [vio EXCEPT ![v] = launchLockedRequest(@, zones[z])]
             /\ zones' = [zones EXCEPT ![z] = acquireFlushGenerationLock(@, v)]
             /\ UNCHANGED removals
        ELSE /\ vio' = [vio EXCEPT ![v].pc = "lbnWait", ![holder] = cancelCompression(@)]
             /\ removals' = IF MustRemove(vio[holder]) THEN removals \union {holder}
                            ELSE removals
             /\ UNCHANGED zones
     /\ UNCHANGED <<packer, call, readOnly, scenario, flusher, admin, covered>>

\* The write has its block map slot, its allocation and its hash lock:
\* compressData() with mayCompressDataVIO().
CompressData(v) ==
  LET x == advanceStatus(vio[v])
  IN /\ vio[v].pc = "compress"
     /\ vio' = [vio EXCEPT ![v] = [x EXCEPT !.pc = IF x.status = "COMPRESSING" THEN "pack"
                                                   ELSE "leaving"]]
     /\ UNCHANGED <<packer, call, removals, readOnly, scenario, flushVars>>

\* releaseLogicalLock(), the end of a write: releaseLogicalBlockLock() gives the
\* lock to the first waiter, which is launched and, if others wait, is not to
\* wait in the packer; then releaseFlushGenerationLock().
ReleaseLogicalLock(v) ==
  LET b == LBNOf[v]
      z == ZoneOf[b]
      waiters == Tail(lbnLocks[b])
      next == Head(waiters)
      canceled(x) == IF Len(waiters) > 1 THEN cancelCompression(x) ELSE x
  IN /\ vio[v].pc = "leaving"
     /\ lbnLocks' = [lbnLocks EXCEPT ![b] = waiters]
     /\ IF waiters = <<>>
        THEN /\ vio' = [vio EXCEPT ![v].pc = "done"]
             /\ zones' = [zones EXCEPT ![z] = releaseFlushGenerationLock(@, v)]
        ELSE /\ vio' = [vio EXCEPT ![v].pc = "done",
                                   ![next] = launchLockedRequest(canceled(@), zones[z])]
             /\ zones' = [zones EXCEPT ![z] = releaseFlushGenerationLock(
                                                acquireFlushGenerationLock(@, next), v)]
     /\ UNCHANGED <<packer, call, removals, readOnly, scenario, flusher, admin, covered>>

\* waitOnHashLock(): another write of the same data waits for this one.
WaitOnHashLock(v) ==
  /\ scenario.hashWaits
  /\ vio[v].pc \in {"compress", "pack", "packer"} /\ ~vio[v].mayNotCompress
  /\ vio' = [vio EXCEPT ![v] = cancelCompression(@)]
  /\ removals' = IF MustRemove(vio[v]) THEN removals \union {v} ELSE removals
  /\ UNCHANGED <<packer, call, readOnly, scenario, flushVars>>

\* attemptGenerationCompleteNotification() after notifyFlusher()
NotificationReturns(z) ==
  /\ zones[z].completion = "zone"
  /\ zones' = [zones EXCEPT ![z] = attemptGenerationCompleteNotification(@)]
  /\ UNCHANGED <<packerVars, lbnLocks, flusher, admin, covered>>

-----------------------------------------------------------------------------
(* The flusher.                                                            *)

notifyFlush(f) == [f EXCEPT !.at = "zone", !.zone = 0]

\* flush(): the flush remembers the writes it has to cover.
RequestFlush ==
  LET active == {v \in DataVIOs : v \in ActiveWrites(zones[Zone(v)])}
      next == [flusher EXCEPT !.flushGeneration = @ + 1,
                              !.notifiers = Append(@, [generation |-> flusher.flushGeneration,
                                                       covers |-> active])]
  IN /\ call = None
     /\ flusher.flushGeneration < scenario.flushes
     /\ flusher' = IF flusher.notifiers = <<>> THEN notifyFlush(next) ELSE next
     /\ UNCHANGED <<packerVars, zones, lbnLocks, admin, covered>>

\* incrementGeneration(), on the thread of one zone after the other
IncrementGeneration ==
  LET z == flusher.zone
  IN /\ flusher.at = "zone"
     /\ zones' = [zones EXCEPT ![z] = incrementFlushGeneration(@)]
     /\ flusher' = [flusher EXCEPT !.zone = @ + 1,
                                   !.at = IF z + 1 < Zones THEN "zone" ELSE "packer"]
     /\ UNCHANGED <<packerVars, lbnLocks, admin, covered>>

FlushPackerCallback ==
  /\ call = None
  /\ flusher.at = "packer"
  /\ PackerBecomes(incrementPackerFlushGeneration(PackerState))
  /\ flusher' = [flusher EXCEPT !.at = "finish"]
  /\ UNCHANGED <<call, removals, readOnly, scenario, zones, lbnLocks, admin, covered>>

completeFlushes(caller) ==
  [op |-> "completeFlushes", caller |-> caller, zone |-> 0, oldest |-> MaxFlushes + 1]

\* finishNotification(), up to its call of completeFlushes()
FinishNotification ==
  /\ call = None
  /\ flusher.at = "finish"
  /\ flusher' = [flusher EXCEPT !.notifiers = Tail(@),
                                !.pending = Append(@, Head(flusher.notifiers)),
                                !.at = "idle"]
  /\ call' = completeFlushes(None)
  /\ UNCHANGED <<vio, packer, removals, readOnly, scenario, zones, lbnLocks, admin, covered>>

\* notifyFlusher(), up to its call of completeFlushes()
NotifyFlusher(z) ==
  /\ call = None
  /\ zones[z].completion = "flusher"
  /\ call' = completeFlushes(z)
  /\ UNCHANGED <<vio, packer, removals, readOnly, scenario, flushVars>>

\* completeFlushes(): a zone's oldest generation ...
ReadOldestGeneration ==
  /\ call # None /\ call.op = "completeFlushes" /\ call.zone < Zones
  /\ call' = [call EXCEPT !.zone = @ + 1,
                          !.oldest = IF zones[call.zone].oldestActive < @
                                     THEN zones[call.zone].oldestActive ELSE @]
  /\ UNCHANGED <<vio, packer, removals, readOnly, scenario, flushVars>>

\* ... the answers to the flushes that are older than all of them, and the rest
\* of finishNotification() or of notifyFlusher().
MayAnswerEqual(flush, oldest) == flush.generation <= oldest

MayAnswer(flush, oldest) == flush.generation < oldest

AnswerFlushes ==
  LET answered == {i \in DOMAIN flusher.pending : \A k \in 1 .. i :
                     MayAnswer(flusher.pending[k], call.oldest)}
      n == Cardinality(answered)
      next == [flusher EXCEPT !.pending = SubSeq(@, n + 1, Len(@)),
                              !.firstUnacknowledged = @ + n]
  IN /\ call # None /\ call.op = "completeFlushes" /\ call.zone = Zones
     /\ flusher' = IF call.caller = None /\ next.notifiers # <<>> THEN notifyFlush(next)
                   ELSE next
     /\ zones' = IF call.caller = None THEN zones
                 ELSE [zones EXCEPT ![call.caller].completion = "zone"]
     /\ covered' = covered \union UNION {flusher.pending[i].covers : i \in answered}
     /\ call' = None
     /\ UNCHANGED <<vio, packer, removals, readOnly, scenario, lbnLocks, admin>>

-----------------------------------------------------------------------------
(* A suspend drains the packer and then the zones, a resume goes the other *)
(* way (vdoSuspend.c, vdoResume.c).                                        *)

\* The layer suspends a VDO that has no requests; scenario.busySuspend is a
\* suspend that comes while there are some.
Suspend ==
  /\ call = None
  /\ scenario.busySuspend \/ \A v \in DataVIOs : vio[v].pc \in {"new", "done"}
  /\ admin.phase = "running" /\ admin.suspends < scenario.suspends
  /\ admin' = [admin EXCEPT !.phase = "drainPacker", !.suspends = @ + 1]
  /\ PackerBecomes(drainPacker(PackerState))
  /\ UNCHANGED <<call, removals, readOnly, scenario, zones, lbnLocks, flusher, covered>>

\* drainLogicalZones(), one zone after the other
DrainLogicalZone ==
  LET z == admin.zone
  IN /\ \/ admin.phase = "drainPacker" /\ packer.state = "suspended"
        \/ admin.phase = "drainZones" /\ z < Zones /\ zones[z - 1].state = "suspended"
     /\ zones' = [zones EXCEPT ![z] = zoneDrainCheck([@ EXCEPT !.state = "draining"])]
     /\ admin' = [admin EXCEPT !.phase = "drainZones", !.zone = @ + 1]
     /\ UNCHANGED <<packerVars, lbnLocks, flusher, covered>>

FinishSuspend ==
  /\ admin.phase = "drainZones" /\ admin.zone = Zones
  /\ zones[Zones - 1].state = "suspended"
  /\ admin' = [admin EXCEPT !.phase = "suspended", !.zone = 0]
  /\ UNCHANGED <<packerVars, zones, lbnLocks, flusher, covered>>

ResumeLogicalZone ==
  /\ admin.phase = "suspended" /\ admin.zone < Zones
  /\ zones' = [zones EXCEPT ![admin.zone].state = "normal"]
  /\ admin' = [admin EXCEPT !.zone = @ + 1]
  /\ UNCHANGED <<packerVars, lbnLocks, flusher, covered>>

ResumePacker ==
  /\ call = None
  /\ admin.phase = "suspended" /\ admin.zone = Zones
  /\ packer' = [packer EXCEPT !.state = "normal"]
  /\ admin' = [admin EXCEPT !.phase = "running", !.zone = 0]
  /\ UNCHANGED <<vio, call, removals, readOnly, scenario, zones, lbnLocks, flusher, covered>>

EnterReadOnlyMode ==
  /\ scenario.readOnly /\ ~readOnly
  /\ readOnly' = TRUE
  /\ UNCHANGED <<vio, packer, call, removals, scenario, flushVars>>

-----------------------------------------------------------------------------

Init ==
  /\ PackerInit
  /\ zones = [z \in ZoneNumbers |-> NewZone]
  /\ lbnLocks = [b \in LBNs |-> <<>>]
  /\ flusher = [flushGeneration |-> 0, notifiers |-> <<>>, pending |-> <<>>, at |-> "idle",
                zone |-> 0, firstUnacknowledged |-> 0]
  /\ admin = [phase |-> "running", zone |-> 0, suspends |-> 0]
  /\ covered = {}

\* What the threads have to do.
Due ==
  \/ PackerThread /\ UNCHANGED flushVars
  \/ \E v \in DataVIOs : CompressData(v) \/ ReleaseLogicalLock(v)
  \/ \E z \in ZoneNumbers : NotificationReturns(z) \/ NotifyFlusher(z)
  \/ IncrementGeneration \/ FlushPackerCallback \/ FinishNotification
  \/ ReadOldestGeneration \/ AnswerFlushes
  \/ DrainLogicalZone \/ FinishSuspend

Next ==
  \/ Due
  \/ \E v \in DataVIOs : AttemptLogicalBlockLock(v) \/ WaitOnHashLock(v)
  \/ RequestFlush \/ Suspend \/ ResumeLogicalZone \/ ResumePacker \/ EnterReadOnlyMode

\* The threads run what is due.  There is no end to the steps only if requests
\* keep coming, so weak fairness for all of them is weak fairness for each.
\* Nothing makes a client write, flush, suspend or resume.
Spec == Init /\ [][Next]_vars /\ WF_vars(Due)

-----------------------------------------------------------------------------
(* Properties.                                                             *)

\* Every component of the state has its type (the C types of Packer, InputBin,
\* OutputBin, Flusher, LogicalZone), every bin keeps to its space, and the input
\* bins are sorted (insertInSortedList()).
TypeOK ==
  /\ vio \in [DataVIOs ->
       [pc : {"new", "lbnWait", "compress", "pack", "packer", "leaving", "done"},
        generation : 0 .. MaxFlushes, status : {"PRE", "COMPRESSING", "PACKING", "POST"},
        mayNotCompress : BOOLEAN]]
  /\ Len(packer.inputBins) = InputBins
  /\ \A i \in 1 .. InputBins :
       /\ packer.inputBins[i].freeSpace \in 0 .. BinDataSize
       /\ packer.inputBins[i].freeSpace = BinDataSize - SizeOfAll(packer.inputBins[i].vios)
       /\ i > 1 /\ call = None =>
            packer.inputBins[i - 1].freeSpace <= packer.inputBins[i].freeSpace
  /\ \A o \in OutputBins : packer.outputBins[o].phase \in {"idle", "writing", "complete"}
  /\ packer.state \in {"normal", "draining", "suspended"}
  /\ removals \subseteq DataVIOs
  /\ \A z \in ZoneNumbers :
       /\ zones[z].oldestActive \in 0 .. zones[z].flushGeneration
       /\ zones[z].flushGeneration \in 0 .. MaxFlushes
       /\ zones[z].state \in {"normal", "draining", "suspended"}
       /\ ActiveWrites(zones[z]) \subseteq DataVIOs
  /\ flusher.firstUnacknowledged \in 0 .. flusher.flushGeneration

\* "DataVIO in packer has an input bin" (removeFromPacker()): whoever canceled
\* a DataVIO finds it in an input bin or in the canceled bin, in whatever order
\* cancelers, flushes, full bins and the suspend come; and the canceled bin
\* holds only DataVIOs somebody comes for (the comments of struct inputBin and
\* of attemptPacking(), on VDO-2809 and VDO-2826), and every bin keeps to its
\* space.
CancelersMeetTheirHolders ==
  /\ TypeOK
  /\ \A v \in removals : InBin(v) # {} \/ v \in Range(packer.canceledBin)
  /\ \A v \in Range(packer.canceledBin) : v \in removals
  /\ \A v \in DataVIOs : vio[v].pc = "packer" <=> v \in InPacker

\* A flush is answered only when every write that was active when it came is
\* finished, although the zones go on to new generations one by one and are
\* read one by one (completeFlushes()).
FlushCoversWrites == \A v \in covered : vio[v].pc = "done"

\* No flush, suspend or wait for an LBN lock is open.
NothingIsOpen ==
  /\ flusher.firstUnacknowledged = flusher.flushGeneration
  /\ admin.phase # "drainPacker"
  /\ admin.phase = "drainZones" => scenario.busySuspend
  /\ \A v \in DataVIOs : vio[v].pc # "lbnWait"

=============================================================================
