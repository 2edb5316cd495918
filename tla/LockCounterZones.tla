-------------------------- MODULE LockCounterZones --------------------------
(***************************************************************************)
(* The steps by which the zones' threads release their locks preserve the  *)
(* inductive invariant of the lock counter, and so does every step.        *)
(***************************************************************************)
EXTENDS LockCounterEntries, LockCounterReaping

\* releaseLockCountReference() and attemptNotification() preserve the
\* invariant: a zone gives back only a reference it has.
LEMMA ReleaseStep ==
  ASSUME SetFacts, LockCounterConstants, LockCounterInv, NEW zone \in Zones,
         Release(zone) \/ Notify(zone)
  PROVE  LockCounterInv'
  <1> USE DEF LockCounterInv
  <1> DEFINE ZPC == [at : {"idle", "release", "notify", "entry"},
                     release : Nat, entry : Nat]
             lock == LockOf(zpc[zone].release)
  <1>1. /\ zpc \in [Zones -> ZPC] /\ tail \in Nat
        /\ UNCHANGED <<journalVars, vio, pageLock, slabLock, history, pageZone>>
        /\ UNCHANGED <<journalCounters, journalDecrementCounts>>
    BY DEF TypeOK, Release, Notify, releaseLockCountReference, attemptNotification
  <1>2. /\ zpc' \in [Zones -> ZPC]
        /\ zpc'[zone].entry = zpc[zone].entry /\ zpc'[zone].release = 0
        /\ zpc'[zone].at = "notify" \/ zpc'[zone].at = AfterRelease(zone)
        /\ \A z \in Zones \ {zone} : zpc'[z] = zpc[z]
    <2>1. CASE Release(zone)
      BY <1>1, <2>1 DEF Release, AfterRelease
    <2>2. CASE Notify(zone)
      <3>1. zpc[zone].release = 0
        BY <1>1, <2>2 DEF Notify, ZonesInOrder
      <3> QED
        BY <1>1, <2>2, <3>1 DEF Notify, AfterRelease
    <2> QED
      BY <2>1, <2>2
  <1>defs. lock = LockOf(zpc[zone].release)
    OBVIOUS
  <1> HIDE DEF ZPC, lock
  <1>3. \A s : Writers(s)' = Writers(s) /\ Updaters(s)' = Updaters(s)
    BY <1>1, <1>2 DEF Writers, Updaters
  <1>4. JournalCounted'
    BY <1>1, <1>3, KeepJournal DEF journalVars
  <1>5. /\ JournalInOrder' /\ EntriesInOrder' /\ LocksOldest'
    BY <1>1, Zenon DEF JournalInOrder, EntriesInOrder, LocksOldest, journalVars, history
  <1>6. StaysUnlocked' /\ HeadsAreBehind'
    BY <1>1, <1>2, <1>3, Zenon DEF StaysUnlocked, HeadsAreBehind, journalVars
  <1>7. ZonesInOrder'
    BY <1>1, <1>2 DEF ZonesInOrder, AfterRelease, ZPC, journalVars
  <1>8. \A z \in Zones, l \in Locks : Holders(z, l)' = Holders(z, l)
    BY <1>1, Zenon DEF Holders
  <1>9. notifying' \in BOOLEAN
    BY Zenon DEF TypeOK, Release, Notify, releaseLockCountReference, attemptNotification
  <1>10. /\ ZonesCounted'
         /\ zoneCounters' \in [Zones -> [Locks -> Nat]]
         /\ zoneCounts' \in [ZoneTypes -> [Locks -> Nat]]
    <2>1. CASE Release(zone)
      <3>1. /\ zpc[zone].release # 0 /\ lock \in Locks
            /\ releaseLockCountReference(lock, zone)
        BY <1>1, <2>1, LockOfType DEF Release, ZonesInOrder, ZPC, lock
      <3>2. ASSUME NEW z \in Zones, NEW l \in Locks
            PROVE  /\ References(z, l) = References(z, l)'
                                           + (IF z = zone /\ l = lock THEN 1 ELSE 0)
                   /\ z = zone /\ l = lock => References(z, l) > 0
        <4>1. /\ Releasing(z, l)' \in Nat
              /\ Releasing(z, l) = Releasing(z, l)'
                                     + (IF z = zone /\ l = lock THEN 1 ELSE 0)
          BY <1>defs, <1>2, <3>1 DEF Releasing
        <4>2. Holders(z, l)' = Holders(z, l) /\ Cardinality(Holders(z, l)) \in Nat
          BY <1>8, Finite, CardinalityType
        <4> QED
          BY <4>1, <4>2 DEF References
      <3> QED
        BY <3>1, <3>2, ReleaseCounted
    <2>2. CASE Notify(zone)
      <3>1. UNCHANGED <<zoneCounters, zoneCounts>> /\ zpc[zone].release = 0
        BY <1>1, <2>2 DEF Notify, attemptNotification, ZonesInOrder
      <3>2. \A z \in Zones, l \in Locks : Releasing(z, l)' = Releasing(z, l)
        BY <1>2, <3>1 DEF Releasing
      <3>3. \A z \in Zones, l \in Locks : References(z, l)' = References(z, l)
        BY <1>8, <3>2 DEF References
      <3> QED
        BY <3>1, <3>3, KeepCounted DEF TypeOK
    <2> QED
      BY <2>1, <2>2
  <1>11. TypeOK'
    BY <1>1, <1>2, <1>9, <1>10 DEF TypeOK, ZPC, journalVars, history
  <1> QED
    BY <1>4, <1>5, <1>6, <1>7, <1>10, <1>11

\* releaseJournalZoneReferenceFromOtherZone() preserves the invariant: the
\* block is not yet reaped, so the lock is still its own.
LEMMA ReleaseEntryStep ==
  ASSUME SetFacts, LockCounterConstants, LockCounterInv, NEW zone \in Zones, ReleaseEntry(zone)
  PROVE  LockCounterInv'
  <1> USE DEF LockCounterInv
  <1> DEFINE ZPC == [at : {"idle", "release", "notify", "entry"},
                     release : Nat, entry : Nat]
             entry == zpc[zone].entry
             lock == LockOf(entry)
  <1>1. /\ zpc \in [Zones -> ZPC] /\ tail \in Nat \ {0} /\ Size \in Nat \ {0}
        /\ UNCHANGED <<journalVars, vio, pageLock, slabLock, history, pageZone>>
        /\ UNCHANGED <<notifying, journalCounters, zoneCounts, zoneCounters>>
        /\ entry \in Nat /\ entry # 0 /\ entry < tail /\ zpc[zone].release = 0
    BY DEF TypeOK, LockCounterConstants, ReleaseEntry,
           releaseJournalZoneReferenceFromOtherZone, ZonesInOrder
  <1>2. entry >= tail - Size
    <2>1. reapHead["logical"] \in Nat /\ tail - reapHead["logical"] <= Size
      BY DEF TypeOK, JournalInOrder, ZoneTypes
    <2>2. entry >= reapHead["logical"]
      BY <1>1 DEF HeadsAreBehind, ZoneTypes
    <2> QED
      BY <1>1, <2>1, <2>2
  <1>3. /\ zpc' \in [Zones -> ZPC] /\ zpc'[zone] = Idle
        /\ \A z \in Zones \ {zone} : zpc'[z] = zpc[z]
    BY <1>1 DEF ReleaseEntry, Idle
  <1>4. /\ lock \in Locks
        /\ journalDecrementCounts' \in [Locks -> Nat]
        /\ journalDecrementCounts'[lock] = journalDecrementCounts[lock] + 1
        /\ \A l \in Locks \ {lock} :
             journalDecrementCounts'[l] = journalDecrementCounts[l]
        /\ \A l \in Locks : journalCounters[l] \in Nat /\ journalDecrementCounts[l] \in Nat
    BY <1>1, LockOfType
       DEF ReleaseEntry, releaseJournalZoneReferenceFromOtherZone, TypeOK
  <1>defs. entry = zpc[zone].entry /\ lock = LockOf(entry)
    OBVIOUS
  <1> HIDE DEF ZPC, entry, lock
  <1>5. ASSUME NEW s \in Nat \ {0}
        PROVE  /\ Writers(s)' = Writers(s)
               /\ Updaters(s)' = Updaters(s) \ {zone}
               /\ zone \in Updaters(s) <=> s = entry
    BY <1>defs, <1>1, <1>3 DEF Writers, Updaters, Idle
  <1>6. ASSUME NEW s \in Nat \ {0}
        PROVE  /\ JournalReferences(s)' \in Nat
               /\ JournalReferences(s) = JournalReferences(s)'
                                           + (IF s = entry THEN 1 ELSE 0)
    <2>1. /\ OpenReference(s)' = OpenReference(s) /\ OpenReference(s) \in Nat
          /\ FreeEntries(s)' = FreeEntries(s) /\ FreeEntries(s) \in Nat
      BY <1>1 DEF OpenReference, FreeEntries, journalVars, TypeOK, LockCounterConstants
    <2>2. Cardinality(Writers(s)') = Cardinality(Writers(s)) /\ Cardinality(Writers(s)) \in Nat
      BY <1>5, Finite, CardinalityType
    <2>3. /\ Cardinality(Updaters(s)') \in Nat
          /\ Cardinality(Updaters(s)) = Cardinality(Updaters(s)')
                                          + (IF s = entry THEN 1 ELSE 0)
      <3>1. CASE s = entry
        BY <1>1, <1>5, <3>1, Finite, Lose, Zenon
      <3>2. CASE s # entry
        <4>1. Updaters(s)' = Updaters(s)
          BY <1>5, <3>2
        <4>2. Cardinality(Updaters(s)) \in Nat
          BY Finite, CardinalityType
        <4> QED
          BY <3>2, <4>1, <4>2
      <3> QED
        BY <3>1, <3>2
    <2> QED
      BY <2>1, <2>2, <2>3 DEF JournalReferences
  <1>7. JournalCounted'
    <2>1. UNCHANGED <<tail, journalCounters>>
      BY <1>1 DEF journalVars
    <2>2. ASSUME NEW s \in 1 .. tail - 1, s >= tail - Size
          PROVE  journalCounters[LockOf(s)]
                   = journalDecrementCounts'[LockOf(s)] + JournalReferences(s)'
      <3>1. /\ journalCounters[LockOf(s)]
                 = journalDecrementCounts[LockOf(s)] + JournalReferences(s)
            /\ LockOf(s) \in Locks
        BY <1>1, <2>2, LockOfType DEF JournalCounted
      <3>2. CASE s = entry
        BY <1>defs, <1>4, <1>6, <3>1, <3>2
      <3>3. CASE s # entry
        <4>1. LockOf(s) # lock
          <5>1. CASE s < entry
            BY <1>defs, <1>1, <2>2, <5>1, LockOfUnique
          <5>2. CASE entry < s
            BY <1>defs, <1>1, <1>2, <5>2, LockOfUnique
          <5> QED
            BY <1>1, <3>3, <5>1, <5>2
        <4> QED
          BY <1>4, <1>6, <3>1, <3>3, <4>1
      <3> QED
        BY <3>2, <3>3
    <2>3. ASSUME NEW l \in Locks
          PROVE  journalDecrementCounts'[l] <= journalCounters[l]
      <3>1. CASE l = lock
        BY <1>defs, <1>1, <1>2, <1>4, <1>6, <2>2, <3>1
      <3>2. CASE l # lock
        BY <1>4, <3>2 DEF JournalCounted
      <3> QED
        BY <3>1, <3>2
    <2> QED
      BY <2>1, <2>2, <2>3 DEF JournalCounted
  <1>8. /\ JournalInOrder' /\ EntriesInOrder' /\ LocksOldest'
    BY <1>1, Zenon DEF JournalInOrder, EntriesInOrder, LocksOldest, journalVars, history
  <1>9. ZonesInOrder'
    BY <1>1, <1>3 DEF ZonesInOrder, Idle, journalVars
  <1>10. HeadsAreBehind'
    BY <1>1, <1>3 DEF HeadsAreBehind, Idle, journalVars
  <1>11. StaysUnlocked'
    <2>1. SUFFICES ASSUME jpc.at = "zone" PROVE StaysUnlocked'
      BY <1>1, Zenon DEF StaysUnlocked, journalVars
    <2>2. /\ reapHead[jpc.type] \in Nat \ {0}
          /\ UNCHANGED <<reapHead, jpc, lastWriteAcknowledged>>
      BY <1>1 DEF TypeOK, journalVars
    <2>3. \A s \in Nat \ {0} :
            /\ {w \in DataVIOs : vio'[w].recoverySequenceNumber = s} = Writers(s)
            /\ {z \in Zones : zpc'[z].entry = s} \subseteq Updaters(s)
      BY <1>5 DEF Writers, Updaters
    <2> QED
      BY <2>1, <2>2, <2>3 DEF StaysUnlocked, Writers, Updaters
  <1>12. ZonesCounted'
    <2>1. \A z \in Zones, l \in Locks :
            Holders(z, l)' = Holders(z, l) /\ Releasing(z, l)' = Releasing(z, l)
      BY <1>1, <1>3 DEF Holders, Releasing, Idle
    <2>2. \A z \in Zones, l \in Locks : References(z, l)' = References(z, l)
      BY <2>1 DEF References
    <2> QED
      BY <1>1, <2>2, KeepCounted
  <1>13. TypeOK'
    BY <1>1, <1>3, <1>4 DEF TypeOK, ZPC, journalVars, history
  <1> QED
    BY <1>7, <1>8, <1>9, <1>10, <1>11, <1>12, <1>13

\* Giving up the lock of a page or a slab journal block preserves the
\* invariant when its reference passes to the release its zone will make.
LEMMA GiveUp ==
  ASSUME SetFacts, LockCounterConstants, LockCounterInv, NEW zone \in Zones, NEW old \in Nat \ {0},
         zpc[zone].at = "idle",
         zpc' = [zpc EXCEPT ![zone] = [at |-> "release", release |-> old, entry |-> 0]],
         UNCHANGED <<counterVars, journalVars, vio, pageZone>>,
         \A l \in Locks : Cardinality(Holders(zone, l))
           = Cardinality(Holders(zone, l)') + (IF LockOf(old) = l THEN 1 ELSE 0),
         \A z \in Zones \ {zone}, l \in Locks : Holders(z, l)' = Holders(z, l),
         LocksOldest', HeadsAreBehind',
         pageLock' \in [Pages -> Nat], pageEntries' \in [Pages -> SUBSET Nat],
         slabLock' \in [SlabBlocks -> [state : {"free", "open", "closed"},
                                       recoveryStart : Nat]],
         slabEntries' \in [SlabBlocks -> SUBSET Nat]
  PROVE  LockCounterInv'
  <1> USE DEF LockCounterInv
  <1> DEFINE ZPC == [at : {"idle", "release", "notify", "entry"},
                     release : Nat, entry : Nat]
  <1>1. /\ zpc \in [Zones -> ZPC] /\ tail \in Nat \ {0}
        /\ zpc[zone].entry = 0 /\ zpc[zone].release = 0
    BY DEF TypeOK, ZonesInOrder
  <1>2. /\ zpc' \in [Zones -> ZPC]
        /\ zpc'[zone].at = "release" /\ zpc'[zone].release = old /\ zpc'[zone].entry = 0
        /\ \A z \in Zones \ {zone} : zpc'[z] = zpc[z]
    BY <1>1
  <1> HIDE DEF ZPC
  <1>3. \A s : Writers(s)' = Writers(s) /\ Updaters(s)' = Updaters(s)
    BY <1>1, <1>2 DEF Writers, Updaters
  <1>4. JournalCounted'
    BY <1>1, <1>3, KeepJournal DEF journalVars, counterVars
  <1>5. JournalInOrder' /\ EntriesInOrder' /\ StaysUnlocked'
    BY <1>3, Zenon DEF JournalInOrder, EntriesInOrder, StaysUnlocked, journalVars
  <1>6. ZonesInOrder'
    BY <1>1, <1>2, Zenon DEF ZonesInOrder, journalVars
  <1>7. ASSUME NEW z \in Zones, NEW l \in Locks PROVE References(z, l)' = References(z, l)
    <2>1. CASE z = zone
      <3>1. /\ Releasing(z, l) = 0
            /\ Releasing(z, l)' = IF LockOf(old) = l THEN 1 ELSE 0
        BY <1>1, <1>2, <2>1 DEF Releasing
      <3>2. Cardinality(Holders(z, l)') \in Nat
        BY Finite, CardinalityType
      <3> QED
        BY <2>1, <3>1, <3>2 DEF References
    <2>2. CASE z # zone
      <3>1. Releasing(z, l)' = Releasing(z, l)
        BY <1>2, <2>2 DEF Releasing
      <3> QED
        BY <2>2, <3>1 DEF References
    <2> QED
      BY <2>1, <2>2
  <1>8. ZonesCounted'
    BY <1>7, KeepCounted DEF counterVars
  <1>9. TypeOK'
    BY <1>2 DEF TypeOK, ZPC, journalVars, counterVars
  <1> QED
    BY <1>4, <1>5, <1>6, <1>8, <1>9

\* So does the end of a page's write, handlePageWrite().
LEMMA WritePageStep ==
  ASSUME SetFacts, LockCounterConstants, LockCounterInv, NEW p \in Pages, WritePage(p)
  PROVE  LockCounterInv'
  <1> USE DEF LockCounterInv
  <1> DEFINE zone == pageZone[p]
             old == pageLock[p]
  <1>1. /\ zone \in LogicalZones /\ zone \in Zones
        /\ pageLock \in [Pages -> Nat] /\ pageEntries \in [Pages -> SUBSET Nat]
        /\ zpc \in [Zones -> [at : {"idle", "release", "notify", "entry"},
                              release : Nat, entry : Nat]]
    BY DEF TypeOK, LockCounterConstants, Zones
  <1>2. /\ pageLock' \in [Pages -> Nat] /\ pageLock'[p] = 0 /\ old \in Nat \ {0}
        /\ pageEntries' \in [Pages -> SUBSET Nat] /\ pageEntries'[p] = {}
        /\ \A q \in Pages \ {p} :
             pageLock'[q] = pageLock[q] /\ pageEntries'[q] = pageEntries[q]
        /\ UNCHANGED <<slabLock, slabEntries, counterVars, journalVars, vio, pageZone>>
    BY <1>1 DEF WritePage
  <1>3. /\ zpc[zone].at = "idle"
        /\ zpc' = [zpc EXCEPT ![zone] = [at |-> "release", release |-> old, entry |-> 0]]
        /\ \A z \in Zones : zpc'[z].entry # 0 => zpc'[z].entry = zpc[z].entry
    BY <1>1 DEF WritePage, ZoneIdle
  <1>4. ASSUME NEW l \in Locks
        PROVE  Cardinality(Holders(zone, l))
                 = Cardinality(Holders(zone, l)') + (IF LockOf(old) = l THEN 1 ELSE 0)
    <2>1. /\ Holders(zone, l)' = Holders(zone, l) \ {p}
          /\ p \in Holders(zone, l) <=> LockOf(old) = l
      BY <1>1, <1>2, ZenonT(30) DEF Holders
    <2>2. CASE LockOf(old) = l
      <3>1. IsFiniteSet(Holders(zone, l)) /\ p \in Holders(zone, l)
        BY <2>1, <2>2, Finite, ZenonT(30)
      <3>2. /\ Cardinality(Holders(zone, l)') \in Nat
            /\ Cardinality(Holders(zone, l)) = Cardinality(Holders(zone, l)') + 1
        BY <2>1, <3>1, Lose
      <3> QED
        BY <2>2, <3>2, ZenonT(30)
    <2>3. CASE LockOf(old) # l
      <3>1. Holders(zone, l)' = Holders(zone, l)
        BY <2>1, <2>3
      <3>2. Cardinality(Holders(zone, l)) \in Nat
        BY Finite, CardinalityType
      <3> QED
        BY <2>3, <3>1, <3>2
    <2> QED
      BY <2>2, <2>3
  <1>5. \A z \in Zones \ {zone}, l \in Locks : Holders(z, l)' = Holders(z, l)
    BY <1>2, ZenonT(30) DEF Holders
  <1>6. LocksOldest'
    BY <1>2, Zenon DEF LocksOldest, journalVars
  <1>7. HeadsAreBehind'
    BY <1>2, <1>3 DEF HeadsAreBehind, journalVars
  <1>8. /\ slabLock' \in [SlabBlocks -> [state : {"free", "open", "closed"},
                                         recoveryStart : Nat]]
        /\ slabEntries' \in [SlabBlocks -> SUBSET Nat]
    BY <1>2 DEF TypeOK
  <1>9. /\ zone \in Zones /\ old \in Nat \ {0}
        /\ UNCHANGED <<counterVars, journalVars, vio, pageZone>>
        /\ pageLock' \in [Pages -> Nat] /\ pageEntries' \in [Pages -> SUBSET Nat]
    BY <1>1, <1>2
  <1> QED
    BY <1>3, <1>4, <1>5, <1>6, <1>7, <1>8, <1>9, GiveUp, Zenon

\* So does releaseJournalLocks() for a slab journal block.
LEMMA ReleaseSlabStep ==
  ASSUME SetFacts, LockCounterConstants, LockCounterInv, NEW b \in SlabBlocks, ReleaseSlabBlock(b)
  PROVE  LockCounterInv'
  <1> USE DEF LockCounterInv
  <1> DEFINE Lock == [state : {"free", "open", "closed"}, recoveryStart : Nat]
             zone == SlabZone[b]
             old == slabLock[b].recoveryStart
  <1>1. /\ zone \in PhysicalZones /\ zone \in Zones /\ zone \notin LogicalZones
        /\ slabLock \in [SlabBlocks -> Lock] /\ slabEntries \in [SlabBlocks -> SUBSET Nat]
        /\ zpc \in [Zones -> [at : {"idle", "release", "notify", "entry"},
                              release : Nat, entry : Nat]]
    BY DEF TypeOK, LockCounterConstants, Zones
  <1>2. /\ slabLock[b].state = "closed" /\ old \in Nat \ {0}
        /\ UNCHANGED <<pageLock, pageEntries, counterVars, journalVars, vio, pageZone>>
    BY <1>1 DEF ReleaseSlabBlock, LocksOldest
  <1>3. /\ slabLock' \in [SlabBlocks -> Lock] /\ slabLock'[b].state = "free"
        /\ slabLock'[b].recoveryStart = 0
        /\ slabEntries' \in [SlabBlocks -> SUBSET Nat] /\ slabEntries'[b] = {}
        /\ \A c \in SlabBlocks \ {b} :
             slabLock'[c] = slabLock[c] /\ slabEntries'[c] = slabEntries[c]
    BY <1>1 DEF ReleaseSlabBlock
  <1>4. /\ zpc[zone].at = "idle"
        /\ zpc' = [zpc EXCEPT ![zone] = [at |-> "release", release |-> old, entry |-> 0]]
        /\ \A z \in Zones : zpc'[z].entry # 0 => zpc'[z].entry = zpc[z].entry
    BY <1>1, ZenonT(30) DEF ReleaseSlabBlock, ZoneIdle
  <1>5. ASSUME NEW l \in Locks
        PROVE  Cardinality(Holders(zone, l))
                 = Cardinality(Holders(zone, l)') + (IF LockOf(old) = l THEN 1 ELSE 0)
    <2>1. /\ Holders(zone, l)' = Holders(zone, l) \ {b}
          /\ b \in Holders(zone, l) <=> LockOf(old) = l
      BY <1>1, <1>2, <1>3 DEF Holders
    <2>2. CASE LockOf(old) = l
      <3>1. IsFiniteSet(Holders(zone, l)) /\ b \in Holders(zone, l)
        BY <2>1, <2>2, Finite, ZenonT(30)
      <3>2. /\ Cardinality(Holders(zone, l)') \in Nat
            /\ Cardinality(Holders(zone, l)) = Cardinality(Holders(zone, l)') + 1
        BY <2>1, <3>1, Lose
      <3> QED
        BY <2>2, <3>2, ZenonT(30)
    <2>3. CASE LockOf(old) # l
      <3>1. Holders(zone, l)' = Holders(zone, l)
        BY <2>1, <2>3
      <3>2. Cardinality(Holders(zone, l)) \in Nat
        BY Finite, CardinalityType
      <3> QED
        BY <2>3, <3>1, <3>2
    <2> QED
      BY <2>2, <2>3, SMTT(30)
  <1>6. \A z \in Zones \ {zone}, l \in Locks : Holders(z, l)' = Holders(z, l)
    BY <1>2, <1>3, ZenonT(30) DEF Holders
  <1>7. LocksOldest'
    <2>1. UNCHANGED <<pageLock, pageEntries, vio, lastWriteAcknowledged>>
      BY <1>2 DEF journalVars
    <2>2. /\ slabLock'[b].state = "free" /\ slabLock'[b].recoveryStart = 0
          /\ slabEntries'[b] = {}
          /\ \A c \in SlabBlocks : c # b =>
               slabLock'[c] = slabLock[c] /\ slabEntries'[c] = slabEntries[c]
      BY <1>3
    <2> QED
      BY <2>1, <2>2 DEF LocksOldest
  <1>8. HeadsAreBehind'
    BY <1>2, <1>3, <1>4, Zenon DEF HeadsAreBehind, journalVars
  <1>9. pageLock' \in [Pages -> Nat] /\ pageEntries' \in [Pages -> SUBSET Nat]
    BY <1>2 DEF TypeOK
  <1> QED
    BY <1>1, <1>2, <1>3, <1>4, <1>5, <1>6, <1>7, <1>8, <1>9, GiveUp, ZenonT(30)

\* Closing a slab journal block preserves the invariant: it keeps its lock.
LEMMA CloseSlabStep ==
  ASSUME SetFacts, LockCounterConstants, LockCounterInv, NEW b \in SlabBlocks, CloseSlabBlock(b)
  PROVE  LockCounterInv'
  <1> USE DEF LockCounterInv
  <1> DEFINE Lock == [state : {"free", "open", "closed"}, recoveryStart : Nat]
  <1>1. UNCHANGED <<counterVars, journalVars, vio, zpc, pageLock, history, pageZone>>
    BY DEF CloseSlabBlock
  <1>2. /\ slabLock \in [SlabBlocks -> Lock] /\ slabLock' \in [SlabBlocks -> Lock]
        /\ \A c \in SlabBlocks : /\ slabLock'[c].recoveryStart = slabLock[c].recoveryStart
                                 /\ slabLock'[c].state = "free" <=> slabLock[c].state = "free"
    BY Zenon DEF TypeOK, CloseSlabBlock
  <1>3. \A s : Writers(s)' = Writers(s) /\ Updaters(s)' = Updaters(s)
    BY <1>1, KeepEntries
  <1>4. JournalCounted'
    BY <1>1, <1>3, KeepJournal DEF journalVars, counterVars, TypeOK
  <1>5. JournalInOrder' /\ EntriesInOrder' /\ StaysUnlocked' /\ ZonesInOrder'
    BY <1>1, <1>3, Zenon DEF JournalInOrder, EntriesInOrder, StaysUnlocked, ZonesInOrder,
                              journalVars
  <1>6. \A z, l : Holders(z, l)' = Holders(z, l) /\ Releasing(z, l)' = Releasing(z, l)
    BY <1>1, <1>2, ZenonT(30) DEF Holders, Releasing
  <1>7. \A z, l : References(z, l)' = References(z, l)
    BY <1>6 DEF References
  <1>8. ZonesCounted'
    BY <1>1, <1>7, KeepCounted DEF counterVars
  <1>9. LocksOldest' /\ HeadsAreBehind'
    BY <1>1, <1>2, Zenon DEF LocksOldest, HeadsAreBehind, journalVars, history
  <1>10. TypeOK'
    BY <1>1, <1>2 DEF TypeOK, journalVars, counterVars, history
  <1> QED
    BY <1>4, <1>5, <1>8, <1>9, <1>10

-----------------------------------------------------------------------------
\* Every step preserves the invariant.
LEMMA LockCounterStep ==
  ASSUME SetFacts, LockCounterConstants, LockCounterInv, [Next]_vars PROVE LockCounterInv'
  <1>1. ASSUME NEW v \in DataVIOs, AssignIncrement(v) PROVE LockCounterInv'
    BY <1>1, AssignStep DEF AssignIncrement, Operations
  <1>2. ASSUME NEW v \in DataVIOs, AssignDecrement(v) PROVE LockCounterInv'
    BY <1>2, AssignStep DEF AssignDecrement, Operations
  <1>3. ASSUME NEW v \in DataVIOs, SkipSlabJournal(v) PROVE LockCounterInv'
    BY <1>3, SlabEntryStep
  <1>4. ASSUME NEW v \in DataVIOs, NEW b \in SlabBlocks, MakeSlabJournalEntry(v, b)
        PROVE  LockCounterInv'
    BY <1>4, SlabEntryStep
  <1>5. ASSUME NEW v \in DataVIOs, NEW p \in Pages, UpdateBlockMapPage(v, p)
        PROVE  LockCounterInv'
    BY <1>5, UpdateStep
  <1>6. ASSUME NEW sequence \in open, CompleteWrite(sequence) PROVE LockCounterInv'
    BY <1>6, CompleteWriteStep
  <1>7. CASE ReapCallback \/ ReadJournalCount
    BY <1>7, LookStep
  <1>8. CASE ReadZoneCount
    BY <1>8, ReapStep
  <1>9. ASSUME NEW zone \in Zones, Release(zone) \/ Notify(zone) PROVE LockCounterInv'
    BY <1>9, ReleaseStep
  <1>10. ASSUME NEW zone \in Zones, ReleaseEntry(zone) PROVE LockCounterInv'
    BY <1>10, ReleaseEntryStep
  <1>11. ASSUME NEW p \in Pages, WritePage(p) PROVE LockCounterInv'
    BY <1>11, WritePageStep
  <1>12. ASSUME NEW b \in SlabBlocks, CloseSlabBlock(b) PROVE LockCounterInv'
    BY <1>12, CloseSlabStep
  <1>13. ASSUME NEW b \in SlabBlocks, ReleaseSlabBlock(b) PROVE LockCounterInv'
    BY <1>13, ReleaseSlabStep
  <1>14. CASE UNCHANGED vars
    <2>1. UNCHANGED <<journalCounters, journalDecrementCounts, zoneCounts, zoneCounters,
                      tail, entryCount, open, vio, zpc, pageLock, slabLock, pageZone,
                      pageEntries, slabEntries, notifying, lastWriteAcknowledged,
                      reapHead, jpc>>
      BY <1>14 DEF vars, counterVars, journalVars, history
    <2>2. /\ ZonesCounted' /\ JournalCounted' /\ ZonesInOrder'
          /\ \A s : Writers(s)' = Writers(s) /\ Updaters(s)' = Updaters(s)
      BY <2>1, FrameStep
    <2>3. TypeOK'
      BY <2>1 DEF LockCounterInv, TypeOK
    <2>4. JournalInOrder' /\ EntriesInOrder' /\ LocksOldest' /\ HeadsAreBehind'
      BY <2>1, Zenon DEF LockCounterInv, JournalInOrder, EntriesInOrder, LocksOldest, HeadsAreBehind
    <2>5. StaysUnlocked'
      BY <2>1, <2>2, Zenon DEF LockCounterInv, StaysUnlocked
    <2> QED
      BY <2>2, <2>3, <2>4, <2>5 DEF LockCounterInv
  <1> QED
    BY <1>1, <1>2, <1>3, <1>4, <1>5, <1>6, <1>7, <1>8, <1>9, <1>10, <1>11, <1>12,
       <1>13, <1>14 DEF Next

\* The invariant makes the counts exact: releaseReference() never takes a
\* count below zero.
LEMMA InvImpliesExact ==
  ASSUME SetFacts, LockCounterConstants, LockCounterInv PROVE LocksAreExact
  <1> USE DEF LockCounterInv
  <1>1. ASSUME NEW z \in Zones, zpc[z].release # 0
        PROVE  zoneCounters[z][LockOf(zpc[z].release)] > 0
    <2> DEFINE l == LockOf(zpc[z].release)
    <2>1. l \in Locks
      BY LockOfType DEF TypeOK
    <2>2. Releasing(z, l) = 1 /\ Cardinality(Holders(z, l)) \in Nat
      BY <1>1, Finite, CardinalityType, Zenon DEF Releasing
    <2>3. References(z, l) > 0
      BY <2>2 DEF References
    <2> QED
      BY <2>1, <2>3, Zenon DEF ZonesCounted
  <1> QED
    BY <1>1, Zenon DEF LocksAreExact, JournalCounted, ZonesCounted, CountedZones
=============================================================================
