------------------------- MODULE LockCounterReaping -------------------------
(***************************************************************************)
(* The other steps of the journal's thread preserve the inductive          *)
(* invariant of the lock counter: the recycling of a written block and the *)
(* two reads of isLocked(), between which the zones go on.                 *)
(***************************************************************************)
EXTENDS LockCounterJournal

\* completeWrite() preserves the invariant: the block which is recycled gives
\* up the reference for being open.
LEMMA CompleteWriteStep ==
  ASSUME SetFacts, LockCounterConstants, LockCounterInv, NEW sequence \in open,
         CompleteWrite(sequence)
  PROVE  LockCounterInv'
  <1> USE DEF LockCounterInv
  <1> DEFINE lock == LockOf(sequence)
             VIO == [state : VIOStates, operation : Operations, point : Nat,
                     recoverySequenceNumber : Nat]
  <1>1. /\ EntriesPerBlock \in Nat \ {0} /\ Size \in Nat \ {0}
        /\ tail \in Nat \ {0} /\ entryCount \in 0 .. EntriesPerBlock
        /\ lastWriteAcknowledged \in Nat /\ open \subseteq Nat
        /\ \A type \in ZoneTypes : reapHead[type] \in Nat
    BY DEF LockCounterConstants, TypeOK
  <1>2. /\ sequence \in Nat \ {0} /\ sequence < tail /\ tail > 1
        /\ lastWriteAcknowledged <= sequence
        /\ lock \in Locks
        /\ \A s \in open : sequence <= s
        /\ \A type \in ZoneTypes : reapHead[type] >= 1
    <2>1. /\ sequence \in Nat /\ sequence < tail /\ lastWriteAcknowledged <= sequence
      BY <1>1 DEF JournalInOrder
    <2>2. reapHead["logical"] >= 1 /\ reapHead["logical"] <= lastWriteAcknowledged
      BY <1>1 DEF JournalInOrder, TypeOK, ZoneTypes
    <2>3. \A s \in open : sequence <= s
      BY DEF CompleteWrite
    <2>4. \A type \in ZoneTypes : reapHead[type] >= 1
      BY DEF TypeOK
    <2>5. reapHead["logical"] \in Nat
      BY <1>1 DEF ZoneTypes
    <2> QED
      BY <1>1, <2>1, <2>2, <2>3, <2>4, <2>5, LockOfType
  <1>3. /\ lastWriteAcknowledged' = sequence
        /\ JournalIdle
        /\ UNCHANGED <<tail, entryCount, reapHead, jpc, zpc, pageLock, slabLock,
                       history, pageZone>>
    BY DEF CompleteWrite
  <1>4. /\ vio' \in [DataVIOs -> VIO]
        /\ \A w \in DataVIOs :
             /\ vio'[w].operation = vio[w].operation
             /\ vio'[w].point = vio[w].point
             /\ vio'[w].recoverySequenceNumber = vio[w].recoverySequenceNumber
             /\ IF vio[w].state = "journal" /\ vio[w].point = sequence
                THEN vio'[w].state = "committed" ELSE vio'[w] = vio[w]
    <2>1. vio \in [DataVIOs -> VIO] /\ "committed" \in VIOStates
      BY DEF TypeOK, VIOStates
    <2>2. vio' = [w \in DataVIOs |->
                    IF vio[w].state = "journal" /\ vio[w].point = sequence
                    THEN [vio[w] EXCEPT !.state = "committed"] ELSE vio[w]]
      BY DEF CompleteWrite
    <2> QED
      BY <2>1, <2>2
  <1> HIDE DEF VIO
  <1>5. UNCHANGED <<zoneCounts, zoneCounters, journalDecrementCounts>>
    BY Zenon DEF CompleteWrite, releaseJournalZoneReference, counterVars
  <1>6. \/ /\ sequence < tail - 1 \/ entryCount = EntriesPerBlock
           /\ open' = open \ {sequence}
           /\ journalCounters' = [journalCounters EXCEPT ![lock] = @ - 1]
        \/ open' = open /\ journalCounters' = journalCounters
    BY Zenon DEF CompleteWrite, releaseJournalZoneReference, counterVars
  <1>7. \A s : /\ Writers(s)' = Writers(s) /\ Updaters(s)' = Updaters(s)
               /\ FreeEntries(s)' = FreeEntries(s)
    BY <1>3, <1>4 DEF Writers, Updaters, FreeEntries
  <1>8. JournalCounted' /\ journalCounters' \in [Locks -> Nat]
    <2>1. CASE open' = open /\ journalCounters' = journalCounters
      <3>1. \A s : JournalReferences(s)' = JournalReferences(s)
        BY <1>7, <2>1 DEF JournalReferences, OpenReference
      <3> QED
        BY <1>3, <1>5, <2>1, <3>1 DEF JournalCounted, TypeOK
    <2>2. CASE /\ open' = open \ {sequence}
               /\ journalCounters' = [journalCounters EXCEPT ![lock] = @ - 1]
      <3>1. \A s : JournalReferences(s)' =
              JournalReferences(s) - (IF s = sequence THEN 1 ELSE 0)
        <4>1. \A s : /\ OpenReference(s)' = OpenReference(s)
                                              - (IF s = sequence THEN 1 ELSE 0)
                     /\ OpenReference(s) \in {0, 1}
          BY <2>2 DEF OpenReference
        <4>2. \A s : /\ Cardinality(Writers(s)) \in Nat
                     /\ Cardinality(Updaters(s)) \in Nat
          BY Finite, CardinalityType
        <4>3. \A s : FreeEntries(s) \in Nat
          BY <1>1 DEF FreeEntries
        <4> QED
          BY <1>7, <4>1, <4>2, <4>3 DEF JournalReferences
      <3>2. sequence >= tail - Size
        <4>1. /\ tail - reapHead["logical"] <= Size
              /\ reapHead["logical"] <= lastWriteAcknowledged
              /\ reapHead["logical"] \in Nat
          BY <1>1 DEF JournalInOrder, ZoneTypes
        <4> QED
          BY <1>1, <1>2, <4>1
      <3>3. journalCounters[lock] = journalDecrementCounts[lock]
                                      + JournalReferences(sequence)
        BY <1>1, <1>2, <3>2 DEF JournalCounted
      <3>4. JournalReferences(sequence) \in Nat /\ JournalReferences(sequence) >= 1
        BY JournalReferencesType DEF OpenReference
      <3>5. journalCounters[lock] > journalDecrementCounts[lock]
            /\ journalDecrementCounts[lock] \in Nat /\ journalCounters[lock] \in Nat
        BY <1>2, <3>3, <3>4 DEF TypeOK
      <3>6. journalCounters' \in [Locks -> Nat]
        BY <1>2, <2>2, <3>5 DEF TypeOK
      <3>7. ASSUME NEW s \in 1 .. tail' - 1, s >= tail' - Size
            PROVE  journalCounters'[LockOf(s)] =
                     journalDecrementCounts'[LockOf(s)] + JournalReferences(s)'
        <4>1. CASE s = sequence
          BY <1>2, <1>5, <2>2, <3>1, <3>3, <3>4, <3>5, <4>1 DEF TypeOK
        <4>2. CASE s # sequence
          <5>1. s \in Nat /\ (s < sequence \/ sequence < s)
                /\ s - sequence < Size /\ sequence - s < Size
            BY <1>1, <1>2, <1>3, <3>2, <3>7, <4>2
          <5>2. LockOf(s) # lock /\ LockOf(s) \in Locks
            BY <1>2, <5>1, LockOfUnique, LockOfType
          <5>3. journalCounters[LockOf(s)] =
                  journalDecrementCounts[LockOf(s)] + JournalReferences(s)
            BY <1>3, <3>7 DEF JournalCounted
          <5>4. JournalReferences(s) \in Nat
            BY JournalReferencesType
          <5> QED
            BY <1>5, <2>2, <3>1, <4>2, <5>2, <5>3, <5>4 DEF TypeOK
        <4> QED
          BY <4>1, <4>2
      <3>8. \A l \in Locks : journalDecrementCounts'[l] <= journalCounters'[l]
        BY <1>2, <1>5, <2>2, <3>5, SMTT(30) DEF JournalCounted, TypeOK
      <3> QED
        BY <3>6, <3>7, <3>8 DEF JournalCounted
    <2> QED
      BY <1>6, <2>1, <2>2
  <1>9. TypeOK'
    <2>1. notifying' \in BOOLEAN
      BY Zenon DEF CompleteWrite, releaseJournalZoneReference, counterVars, TypeOK
    <2>2. open' \subseteq Nat /\ lastWriteAcknowledged' \in Nat
      BY <1>1, <1>2, <1>3, <1>6, Zenon
    <2> QED
      BY <1>3, <1>4, <1>5, <1>8, <2>1, <2>2 DEF TypeOK, VIO, history
  <1>10. ZonesCounted'
    BY <1>3, <1>5, SameReferences, KeepCounted
  <1>11. JournalInOrder'
    <2>1. \A type \in ZoneTypes : /\ reapHead'[type] <= lastWriteAcknowledged'
                                 /\ tail' - reapHead'[type] <= Size
      BY <1>1, <1>2, <1>3 DEF JournalInOrder
    <2>2. \A s \in open' : lastWriteAcknowledged' <= s /\ s < tail'
      BY <1>2, <1>3, <1>6, Zenon DEF JournalInOrder
    <2>3. entryCount' < EntriesPerBlock => tail' - 1 \in open'
      BY <1>1, <1>2, <1>3, <1>6, SMTT(30) DEF JournalInOrder
    <2> QED
      BY <1>1, <1>2, <1>3, <2>1, <2>2, <2>3 DEF JournalInOrder
  <1>12. EntriesInOrder'
    <2>1. SUFFICES ASSUME NEW v \in DataVIOs
                   PROVE  /\ vio'[v].state = "idle" => vio'[v] = NewVIO
                          /\ vio'[v].state # "idle" =>
                               /\ vio'[v].recoverySequenceNumber > 0
                               /\ vio'[v].recoverySequenceNumber <= vio'[v].point
                               /\ vio'[v].point < tail'
                          /\ vio'[v].state = "journal" => vio'[v].point \in open'
                          /\ vio'[v].state = "committed" =>
                               vio'[v].point <= lastWriteAcknowledged'
      BY Zenon DEF EntriesInOrder
    <2>2. /\ vio[v].state = "idle" => vio[v] = NewVIO
          /\ vio[v].state # "idle" => /\ vio[v].recoverySequenceNumber > 0
                                      /\ vio[v].recoverySequenceNumber <= vio[v].point
                                      /\ vio[v].point < tail
          /\ vio[v].state = "journal" => vio[v].point \in open
          /\ vio[v].state = "committed" => vio[v].point <= lastWriteAcknowledged
          /\ vio[v].point \in Nat
      BY ZenonT(30) DEF EntriesInOrder, TypeOK
    <2>3. CASE vio[v].state = "journal" /\ vio[v].point = sequence
      BY <1>3, <1>4, <1>2, <2>2, <2>3, ZenonT(30)
    <2>4. CASE vio'[v] = vio[v] /\ ~ (vio[v].state = "journal" /\ vio[v].point = sequence)
      BY <1>1, <1>2, <1>3, <1>6, <2>2, <2>4
    <2> QED
      BY <1>4, <2>3, <2>4
  <1>13. ZonesInOrder'
    BY <1>3, ZenonT(30) DEF ZonesInOrder
  <1>14. LocksOldest'
    <2>1. UNCHANGED <<pageLock, pageEntries, slabLock, slabEntries>>
      BY <1>3 DEF history
    <2>2. \A b \in SlabBlocks : slabLock[b].recoveryStart \in Nat
      BY ZenonT(30) DEF TypeOK
    <2>3. ASSUME NEW b \in SlabBlocks, slabLock[b].state # "free"
          PROVE  /\ slabLock[b].recoveryStart <= lastWriteAcknowledged'
                 /\ \A w \in DataVIOs :
                      /\ vio'[w].state = "committed"
                      /\ BlockZone[w][vio'[w].operation] = SlabZone[b]
                      => slabLock[b].recoveryStart <= vio'[w].point
      <3>1. slabLock[b].recoveryStart <= lastWriteAcknowledged
        BY <2>3, Zenon DEF LocksOldest
      <3>2. slabLock[b].recoveryStart <= sequence
        BY <1>1, <1>2, <2>2, <3>1, SMTT(30)
      <3>3. ASSUME NEW w \in DataVIOs, vio'[w].state = "committed",
                   BlockZone[w][vio'[w].operation] = SlabZone[b]
            PROVE  slabLock[b].recoveryStart <= vio'[w].point
        <4>1. CASE vio[w].state = "journal" /\ vio[w].point = sequence
          BY <1>4, <3>2, <4>1, SMTT(30)
        <4>2. CASE vio'[w] = vio[w]
          BY <2>3, <3>3, <4>2, ZenonT(30) DEF LocksOldest
        <4> QED
          BY <1>4, <4>1, <4>2, ZenonT(30)
      <3> QED
        BY <1>3, <3>2, <3>3
    <2> QED
      BY <2>1, <2>3, ZenonT(30) DEF LocksOldest
  <1>15. StaysUnlocked'
    BY <1>3, Zenon DEF StaysUnlocked, JournalIdle
  <1>16. HeadsAreBehind'
    BY <1>3, <1>4, ZenonT(30) DEF HeadsAreBehind
  <1> QED
    BY <1>8, <1>9, <1>10, <1>11, <1>12, <1>13, <1>14, <1>15, <1>16

-----------------------------------------------------------------------------
\* Steps which change no count, no entry and no lock.
LEMMA FrameStep ==
  ASSUME LockCounterInv,
         UNCHANGED <<journalCounters, journalDecrementCounts, zoneCounts, zoneCounters,
                     tail, entryCount, open, vio, zpc, pageLock, slabLock, pageZone,
                     pageEntries, slabEntries>>
  PROVE  /\ ZonesCounted' /\ JournalCounted' /\ ZonesInOrder'
         /\ \A s : Writers(s)' = Writers(s) /\ Updaters(s)' = Updaters(s)
  <1>1. \A s : Writers(s)' = Writers(s) /\ Updaters(s)' = Updaters(s)
    BY DEF Writers, Updaters
  <1>2. \A s : JournalReferences(s)' = JournalReferences(s)
    BY <1>1 DEF JournalReferences, OpenReference, FreeEntries
  <1>3. JournalCounted'
    BY <1>2 DEF LockCounterInv, JournalCounted
  <1>4. ZonesCounted'
    BY SameReferences, KeepCounted DEF LockCounterInv
  <1>5. ZonesInOrder'
    BY DEF LockCounterInv, ZonesInOrder
  <1> QED
    BY <1>1, <1>3, <1>4, <1>5

\* reapRecoveryJournalCallback() preserves the invariant, and so does the first
\* half of isLocked(): a block whose journal count is zero has no entry on its
\* way to the block map.
LEMMA LookStep ==
  ASSUME SetFacts, LockCounterConstants, LockCounterInv, ReapCallback \/ ReadJournalCount
  PROVE  LockCounterInv'
  <1> USE DEF LockCounterInv
  <1>1. /\ UNCHANGED <<journalCounters, journalDecrementCounts, zoneCounts, zoneCounters,
                       tail, entryCount, open, vio, zpc, pageLock, slabLock, pageZone,
                       pageEntries, slabEntries>>
        /\ UNCHANGED <<lastWriteAcknowledged, reapHead>>
    BY DEF ReapCallback, ReadJournalCount, acknowledgeUnlock, counterVars, history
  <1>2. /\ ZonesCounted' /\ JournalCounted' /\ ZonesInOrder'
        /\ \A s : Writers(s)' = Writers(s) /\ Updaters(s)' = Updaters(s)
    BY <1>1, FrameStep
  <1>3. /\ JournalInOrder' /\ EntriesInOrder' /\ LocksOldest' /\ HeadsAreBehind'
    BY <1>1, Zenon DEF JournalInOrder, EntriesInOrder, LocksOldest, HeadsAreBehind
  <1>4. /\ jpc' \in [type : ZoneTypes, at : {"idle", "journal", "zone"}]
        /\ jpc'.at = "zone" => /\ jpc'.type = jpc.type
                               /\ jpc.type \in ZoneTypes
                               /\ reapHead[jpc.type] < lastWriteAcknowledged
                               /\ ~isJournalZoneLocked(LockOf(reapHead[jpc.type]))
    BY SMTT(30) DEF TypeOK, ReapCallback, ReadJournalCount, NextLoop, ZoneTypes
  <1>5. TypeOK'
    <2>1. notifying' \in BOOLEAN
      BY ZenonT(30) DEF TypeOK, ReapCallback, ReadJournalCount, acknowledgeUnlock, counterVars
    <2> QED
      BY <1>1, <1>4, <2>1 DEF TypeOK
  <1>6. StaysUnlocked'
    <2> SUFFICES ASSUME jpc'.at = "zone"
                 PROVE  /\ reapHead[jpc.type] < lastWriteAcknowledged
                        /\ Writers(reapHead[jpc.type]) = {}
                        /\ Updaters(reapHead[jpc.type]) = {}
      BY <1>1, <1>2, <1>4, ZenonT(30) DEF StaysUnlocked
    <2> DEFINE s == reapHead[jpc.type]
    <2>1. /\ s \in Nat \ {0} /\ s < tail /\ s >= tail - Size
          /\ s < lastWriteAcknowledged
      BY <1>4 DEF JournalInOrder, TypeOK, LockCounterConstants
    <2>2. journalCounters[LockOf(s)] = journalDecrementCounts[LockOf(s)]
      BY <1>4 DEF isJournalZoneLocked
    <2>3. journalCounters[LockOf(s)] = journalDecrementCounts[LockOf(s)]
                                         + JournalReferences(s)
      BY <2>1, SMTT(30) DEF JournalCounted, TypeOK
    <2>4. journalDecrementCounts[LockOf(s)] \in Nat /\ JournalReferences(s) \in Nat
      BY <2>1, LockOfType, JournalReferencesType, SMTT(30) DEF TypeOK
    <2>5. JournalReferences(s) = 0
      BY <2>2, <2>3, <2>4, SMTT(30)
    <2> QED
      BY <2>1, <2>5, JournalReferencesType
  <1> QED
    BY <1>2, <1>3, <1>5, <1>6

\* The second half of isLocked() preserves the invariant: a block without
\* zones of this type, and whose journal count was zero before, is needed by
\* nobody.
LEMMA ReapStep ==
  ASSUME SetFacts, LockCounterConstants, LockCounterInv, ReadZoneCount
  PROVE  LockCounterInv'
  <1> USE DEF LockCounterInv
  <1> DEFINE type == jpc.type
             s == reapHead[type]
             lock == LockOf(s)
  <1>1. /\ UNCHANGED <<journalCounters, journalDecrementCounts, zoneCounts, zoneCounters,
                       tail, entryCount, open, vio, zpc, pageLock, slabLock, pageZone,
                       pageEntries, slabEntries>>
        /\ UNCHANGED <<lastWriteAcknowledged, notifying>>
    BY DEF ReadZoneCount, counterVars, history
  <1>2. /\ ZonesCounted' /\ JournalCounted' /\ ZonesInOrder'
    BY <1>1, FrameStep
  <1>3. /\ type \in ZoneTypes /\ s \in Nat \ {0} /\ s < lastWriteAcknowledged
        /\ \A t \in ZoneTypes : reapHead[t] \in Nat \ {0}
        /\ lastWriteAcknowledged \in Nat /\ tail \in Nat
        /\ \A v \in DataVIOs : vio[v].recoverySequenceNumber # s
        /\ \A z \in Zones : zpc[z].entry # s
    BY DEF ReadZoneCount, StaysUnlocked, Writers, Updaters, TypeOK
  <1>4. /\ jpc' \in [type : ZoneTypes, at : {"idle", "journal", "zone"}]
        /\ jpc'.at # "zone"
        /\ \/ reapHead' = reapHead
           \/ zoneCounts[type][lock] = 0 /\ reapHead' = [reapHead EXCEPT ![type] = s + 1]
    BY SMTT(30) DEF TypeOK, ReadZoneCount, NextLoop, ZoneTypes
  <1>5. TypeOK'
    <2>1. reapHead' \in [ZoneTypes -> Nat \ {0}]
      <3>1. s + 1 \in Nat \ {0} /\ reapHead \in [ZoneTypes -> Nat \ {0}]
        BY <1>3 DEF TypeOK
      <3>2. reapHead' = reapHead \/ reapHead' = [reapHead EXCEPT ![type] = s + 1]
        BY <1>4
      <3> QED
        BY <3>1, <3>2
    <2> QED
      BY <1>1, <1>4, <2>1 DEF TypeOK
  <1>defs. s = reapHead[type] /\ lock = LockOf(s)
    BY ZenonT(30)
  <1> HIDE DEF type, s, lock
  <1>6. StaysUnlocked'
    BY <1>4 DEF StaysUnlocked
  <1>7. EntriesInOrder' /\ LocksOldest'
    BY <1>1, Zenon DEF EntriesInOrder, LocksOldest
  <1>8. CASE reapHead' = reapHead
    <2>1. JournalInOrder' /\ HeadsAreBehind'
      BY <1>1, <1>8, Zenon DEF JournalInOrder, HeadsAreBehind
    <2> QED
      BY <1>2, <1>5, <1>6, <1>7, <2>1
  <1>9. CASE zoneCounts[type][lock] = 0 /\ reapHead' = [reapHead EXCEPT ![type] = s + 1]
    <2>1. \A t \in ZoneTypes :
            reapHead'[t] = IF t = type THEN s + 1 ELSE reapHead[t]
      BY <1>3, <1>9, ZenonT(30) DEF TypeOK
    <2>2. JournalInOrder'
      <3>1. \A t \in ZoneTypes : /\ reapHead'[t] <= lastWriteAcknowledged
                                 /\ tail - reapHead'[t] <= Size
        <4>1. Size \in Nat /\ tail \in Nat /\ lastWriteAcknowledged \in Nat
          BY DEF TypeOK, LockCounterConstants
        <4> QED
          BY <1>defs, <1>3, <2>1, <4>1 DEF JournalInOrder
      <3> QED
        BY <1>1, <3>1 DEF JournalInOrder
    <2>3. lock \in Locks
      BY <1>defs, <1>3, LockOfType
    <2>4. \A z \in Zones : TypeOf(z) = type => Holders(z, lock) = {}
      <3>1. Cardinality(CountedZones(type, lock)) = 0
        BY <1>3, <1>9, <2>3 DEF ZonesCounted
      <3>2. CountedZones(type, lock) = {}
        BY <3>1, Finite, EmptySet
      <3>3. \A z \in Zones : TypeOf(z) = type => ~(zoneCounters[z][lock] > 0)
        BY <3>2 DEF CountedZones
      <3>4. ASSUME NEW z \in Zones, TypeOf(z) = type
            PROVE  Holders(z, lock) = {}
        <4>1. zoneCounters[z][lock] = 0
          BY <2>3, <3>3, <3>4 DEF TypeOK
        <4>2. Cardinality(Holders(z, lock)) + Releasing(z, lock) = 0
          BY <2>3, <4>1, Zenon DEF ZonesCounted, References
        <4>3. /\ IsFiniteSet(Holders(z, lock)) /\ Cardinality(Holders(z, lock)) \in Nat
              /\ Releasing(z, lock) \in Nat
          BY Finite, CardinalityType, Zenon DEF Releasing
        <4>4. Cardinality(Holders(z, lock)) = 0
          BY <4>2, <4>3, SMTT(30)
        <4> QED
          BY <4>3, <4>4, EmptySet, Zenon
      <3> QED
        BY <3>4, ZenonT(30)
    <2>5. ASSUME NEW v \in DataVIOs, vio[v].state # "idle", NEW t \in ZoneTypes
          PROVE  vio[v].recoverySequenceNumber >= reapHead'[t]
      <3>1. vio[v].recoverySequenceNumber \in Nat
        BY DEF TypeOK
      <3>2. vio[v].recoverySequenceNumber >= reapHead[t]
        BY <2>5 DEF HeadsAreBehind
      <3> QED
        BY <1>defs, <1>3, <2>1, <3>1, <3>2
    <2>6. ASSUME NEW z \in Zones, zpc[z].entry # 0, NEW t \in ZoneTypes
          PROVE  zpc[z].entry >= reapHead'[t]
      <3>1. zpc[z].entry \in Nat
        BY DEF TypeOK
      <3>2. zpc[z].entry >= reapHead[t]
        BY <2>6 DEF HeadsAreBehind
      <3> QED
        BY <1>defs, <1>3, <2>1, <3>1, <3>2
    <2>7. ASSUME NEW p \in Pages, pageLock[p] # 0
          PROVE  pageLock[p] >= reapHead'["logical"]
      <3>1. pageZone[p] \in LogicalZones
        BY DEF TypeOK, LockCounterConstants
      <3>2. type = "logical" => pageLock[p] # s
        BY <1>defs, <2>4, <2>7, <3>1 DEF Holders, TypeOf, Zones
      <3>3. pageLock[p] \in Nat /\ pageLock[p] >= reapHead["logical"]
        BY <2>7, ZenonT(30) DEF HeadsAreBehind, TypeOK
      <3> QED
        BY <1>defs, <1>3, <2>1, <3>2, <3>3 DEF ZoneTypes
    <2>8. ASSUME NEW b \in SlabBlocks, slabLock[b].state # "free"
          PROVE  slabLock[b].recoveryStart >= reapHead'["physical"]
      <3>1. SlabZone[b] \in PhysicalZones /\ SlabZone[b] \notin LogicalZones
        BY DEF LockCounterConstants
      <3>2. type = "physical" => slabLock[b].recoveryStart # s
        BY <1>defs, <2>4, <2>8, <3>1 DEF Holders, TypeOf, Zones
      <3>3. /\ slabLock[b].recoveryStart \in Nat
            /\ slabLock[b].recoveryStart >= reapHead["physical"]
        BY <2>8 DEF HeadsAreBehind, TypeOK
      <3> QED
        BY <1>defs, <1>3, <2>1, <3>2, <3>3 DEF ZoneTypes
    <2>9. HeadsAreBehind'
      BY <1>1, <2>5, <2>6, <2>7, <2>8, Zenon DEF HeadsAreBehind
    <2> QED
      BY <1>2, <1>5, <1>6, <1>7, <2>2, <2>9
  <1> QED
    BY <1>4, <1>8, <1>9
=============================================================================
