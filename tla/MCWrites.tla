------------------------------- MODULE MCWrites -------------------------------
(***************************************************************************)
(* The path of a write for TLC, in two parts that share no state: the hash *)
(* locks (HashLock), and the packer with the flushes (Flush).  A behaviour *)
(* is one of the one part or of the other; the variables of the part it is *)
(* not of are Unused.                                                      *)
(***************************************************************************)
EXTENDS MCHashLock

CONSTANT FlushScenarios

VARIABLES part, packer, call, removals, zones, lbnLocks, flusher, admin, covered

flush == INSTANCE Flush WITH
  Scenarios <- FlushScenarios, LBNs <- {b1, b2},
  LBNOf <- (v1 :> b1) @@ (v2 :> b1) @@ (v3 :> b2), ZoneOf <- (b1 :> 0) @@ (b2 :> 1),
  Zones <- 2, MaxFlushes <- 2

ASSUME flush!FlushAssumption

\* Two logical zones, three writes, the first two of one logical block.
FlushBase ==
  [writers |-> DataVIOs, size |-> (v1 :> 1) @@ (v2 :> 2) @@ (v3 :> 1), binDataSize |-> 3,
   maxSlots |-> 3, inputBins |-> 1, outputBins |-> 1, hashWaits |-> FALSE,
   readOnly |-> FALSE, busySuspend |-> FALSE, flushes |-> 0, suspends |-> 0]

\* Flushes racing writes, cancelers and suspends; full bins; read-only mode.
MCFlushScenarios ==
  {[FlushBase EXCEPT !.writers = {v3}, !.flushes = 2],
   [FlushBase EXCEPT !.writers = {v1, v2}, !.flushes = 1],
   [FlushBase EXCEPT !.writers = {v1, v3}, !.flushes = 1, !.suspends = 1],
   [FlushBase EXCEPT !.writers = {v1, v3}, !.flushes = 1, !.hashWaits = TRUE],
   [FlushBase EXCEPT !.suspends = 1, !.busySuspend = TRUE, !.maxSlots = 2],
   [FlushBase EXCEPT !.hashWaits = TRUE, !.binDataSize = 2, !.inputBins = 2],
   [FlushBase EXCEPT !.readOnly = TRUE],
   [FlushBase EXCEPT !.readOnly = TRUE, !.writers = {v1, v3}, !.flushes = 1]}

-----------------------------------------------------------------------------
Unused == "unused"

HashLocking == part = "hash locks"
Flushing == part = "flushes"

hashOnly == <<hashLocks, pbnLocks, refCounts, content, blockMap, stored, bin>>
flushOnly == <<packer, call, removals, zones, lbnLocks, flusher, admin, covered>>
allVars == <<part, vars, flushOnly>>

WritesInit ==
  \/ /\ part = "hash locks" /\ Init
     /\ packer = Unused /\ call = Unused /\ removals = Unused /\ zones = Unused
     /\ lbnLocks = Unused /\ flusher = Unused /\ admin = Unused /\ covered = Unused
  \/ /\ part = "flushes" /\ flush!Init
     /\ hashLocks = Unused /\ pbnLocks = Unused /\ refCounts = Unused
     /\ content = Unused /\ blockMap = Unused /\ stored = Unused /\ bin = Unused

WritesNext ==
  \/ HashLocking /\ Next /\ UNCHANGED <<part, flushOnly>>
  \/ Flushing /\ flush!Next /\ UNCHANGED <<part, hashOnly>>
  \/ Flushing /\ UNCHANGED allVars \* there may be nothing to do

\* The fairness of HashLock and of Flush.
WritesFairness ==
  /\ \A v \in DataVIOs :
       []<>~(HashLocking /\ MayProceed(v)) \/ []<><<vio'[v] # vio[v]>>_allVars
  /\ []<>(HashLocking => bin = None)
  /\ WF_allVars(Flushing /\ flush!Due /\ UNCHANGED <<part, hashOnly>>)

WritesSpec == WritesInit /\ [][WritesNext]_allVars /\ WritesFairness

-----------------------------------------------------------------------------
\* Whatever writes are deduplicated, packed or freed meanwhile, every logical
\* block reads as the data last written to it (HashLock's MappingsAreSound).
WritesAreSound == HashLocking => TypeOK /\ MappingsAreSound

\* Reference counts equal the mappings to a block (ReferencesAreExact).
CountsAreExact == HashLocking => ReferencesAreExact

\* PBN locks are held by exactly those who refer to them, and a hash lock is
\* in its agent's hands (LocksAreHeld, AgentOwnsTheLock).
LocksAreOwned == HashLocking => LocksAreHeld /\ AgentOwnsTheLock

\* A canceled DataVIO is where its canceler looks for it in the packer, and a
\* flush is answered after all the writes it covers (CancelersMeetTheirHolders,
\* FlushCoversWrites).
FlushesAreSound ==
  Flushing => flush!CancelersMeetTheirHolders /\ flush!FlushCoversWrites

\* Every write is finished and cleaned up, whoever it waits for; only in the
\* packer may it stay, until another one or a flush comes (waitOnHashLock():
\* "Make sure the agent doesn't block indefinitely in the packer").  Every
\* flush and suspend is answered and every write gets its LBN lock, although
\* writes wait in the packer for others to fill a bin.  Of a suspend that comes
\* while there are writes only the drain of the packer is claimed.
WritesFinish ==
  /\ \A v \in DataVIOs : []<>(HashLocking => vio[v].pc \in {"done", "packer"})
  /\ []<>(Flushing => flush!NothingIsOpen)
=============================================================================
