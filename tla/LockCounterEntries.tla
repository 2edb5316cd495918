------------------------- MODULE LockCounterEntries -------------------------
(***************************************************************************)
(* The steps by which the zones' threads make the entries of the slab      *)
(* journals and the block map preserve the inductive invariant of the lock *)
(* counter, also between the two reads of the journal's thread.            *)
(***************************************************************************)
EXTENDS LockCounterJournal

\* Steps which change neither the journal nor its counts, and keep the sum of
\* the entries on their way to the block map.
LEMMA KeepJournal ==
  ASSUME JournalCounted,
         UNCHANGED <<journalCounters, journalDecrementCounts, tail, entryCount, open>>,
         \A s \in Nat \ {0} :
           Cardinality(Writers(s)') + Cardinality(Updaters(s)')
             = Cardinality(Writers(s)) + Cardinality(Updaters(s)),
         tail \in Nat
  PROVE  JournalCounted'
  <1>1. \A s \in Nat \ {0} : JournalReferences(s)' = JournalReferences(s)
    BY DEF JournalReferences, OpenReference, FreeEntries
  <1> QED
    BY <1>1 DEF JournalCounted

\* A DataVIO which keeps its recovery journal block, or had none and gets none,
\* is the same writer of it.
LEMMA KeepEntries ==
  ASSUME UNCHANGED zpc,
         \A w \in DataVIOs :
           vio'[w].recoverySequenceNumber = vio[w].recoverySequenceNumber
  PROVE  \A s : Writers(s)' = Writers(s) /\ Updaters(s)' = Updaters(s)
  BY DEF Writers, Updaters

\* A slab journal entry, or the skipping of one, preserves the invariant: the
\* slab journal block locks the oldest of its entries, since entries reach a
\* zone in order.
LEMMA SlabEntryStep ==
  ASSUME SetFacts, LockCounterConstants, LockCounterInv, NEW v \in DataVIOs,
         SkipSlabJournal(v) \/ \E b \in SlabBlocks : MakeSlabJournalEntry(v, b)
  PROVE  LockCounterInv'
  <1> USE DEF LockCounterInv
  <1> DEFINE VIO == [state : VIOStates, operation : Operations, point : Nat,
                     recoverySequenceNumber : Nat]
             point == vio[v].point
             lock == LockOf(point)
  <1>1. /\ vio \in [DataVIOs -> VIO] /\ vio[v].state = "committed"
        /\ vio' = [vio EXCEPT ![v].state = "counted"]
        /\ UNCHANGED <<journalVars, zpc, pageLock, pageEntries, pageZone>>
        /\ UNCHANGED <<journalCounters, journalDecrementCounts, notifying>>
    BY Zenon DEF TypeOK, SkipSlabJournal, MakeSlabJournalEntry, acquireLockCountReference,
           counterVars, history
  <1>2. /\ vio' \in [DataVIOs -> VIO]
        /\ \A w \in DataVIOs :
             /\ vio'[w].operation = vio[w].operation /\ vio'[w].point = vio[w].point
             /\ vio'[w].recoverySequenceNumber = vio[w].recoverySequenceNumber
             /\ vio'[w].state = IF w = v THEN "counted" ELSE vio[w].state
             /\ w # v => vio'[w] = vio[w]
    BY <1>1 DEF VIOStates
  <1>3. \A s : Writers(s)' = Writers(s) /\ Updaters(s)' = Updaters(s)
    BY <1>1, <1>2, KeepEntries
  <1>4. JournalCounted'
    BY <1>1, <1>3, KeepJournal DEF journalVars, TypeOK
  <1>5. JournalInOrder' /\ ZonesInOrder' /\ StaysUnlocked'
    BY <1>1, <1>3 DEF JournalInOrder, ZonesInOrder, StaysUnlocked, journalVars
  <1>6. EntriesInOrder'
    BY <1>1, <1>2 DEF EntriesInOrder, journalVars
  <1>7. /\ point \in Nat \ {0} /\ point <= lastWriteAcknowledged
        /\ \A type \in ZoneTypes : point >= reapHead[type]
        /\ lock \in Locks
    <2>1. /\ vio[v].recoverySequenceNumber > 0 /\ point <= lastWriteAcknowledged
          /\ vio[v].recoverySequenceNumber <= point
          /\ \A type \in ZoneTypes : vio[v].recoverySequenceNumber >= reapHead[type]
      BY <1>1 DEF EntriesInOrder, HeadsAreBehind
    <2>2. /\ vio[v].recoverySequenceNumber \in Nat /\ point \in Nat
          /\ \A type \in ZoneTypes : reapHead[type] \in Nat
      BY DEF TypeOK
    <2> QED
      BY <2>1, <2>2, LockOfType
  <1>defs. point = vio[v].point /\ lock = LockOf(point)
    OBVIOUS
  <1> HIDE DEF VIO, point, lock
  <1>8. CASE UNCHANGED <<zoneCounts, zoneCounters, slabLock, slabEntries>>
    <2>1. ZonesCounted'
      BY <1>1, <1>8, SameReferences, KeepCounted
    <2>2. LocksOldest' /\ HeadsAreBehind'
      BY <1>1, <1>2, <1>8 DEF LocksOldest, HeadsAreBehind, journalVars
    <2>3. TypeOK'
      BY <1>1, <1>2, <1>8 DEF TypeOK, VIO, journalVars
    <2> QED
      BY <1>4, <1>5, <1>6, <2>1, <2>2, <2>3
  <1>9. ASSUME NEW b \in SlabBlocks, MakeSlabJournalEntry(v, b)
        PROVE  LockCounterInv'
    <2> DEFINE zone == SlabZone[b]
    <2>1. /\ zone \in PhysicalZones /\ zone \in Zones /\ zone \notin LogicalZones
          /\ BlockZone[v][vio[v].operation] = zone
          /\ \A w \in DataVIOs : /\ vio[w].state = "committed"
                                 /\ BlockZone[w][vio[w].operation] = zone
                                 => ~(vio[w].point < point)
          /\ slabEntries' = [slabEntries EXCEPT ![b] = @ \cup {point}]
      BY <1>defs, <1>9 DEF MakeSlabJournalEntry, LockCounterConstants, Zones
    <2>2. /\ slabLock \in [SlabBlocks -> [state : {"free", "open", "closed"},
                                          recoveryStart : Nat]]
          /\ slabEntries \in [SlabBlocks -> SUBSET Nat]
          /\ slabEntries' \in [SlabBlocks -> SUBSET Nat]
          /\ slabEntries'[b] = slabEntries[b] \cup {point}
          /\ \A c \in SlabBlocks \ {b} : slabEntries'[c] = slabEntries[c]
      BY <1>7, <2>1 DEF TypeOK
    <2>3. CASE slabLock[b].state = "open" /\ UNCHANGED <<slabLock, counterVars>>
      <3>1. ZonesCounted'
        BY <1>1, <2>3, SameReferences, KeepCounted DEF counterVars
      <3>2. TypeOK'
        BY <1>1, <1>2, <2>2, <2>3 DEF TypeOK, VIO, journalVars, counterVars
      <3>3. HeadsAreBehind'
        BY <1>1, <1>2, <2>3 DEF HeadsAreBehind, journalVars
      <3>4. slabLock[b].recoveryStart <= point
        BY <1>defs, <1>1, <2>1, <2>3 DEF LocksOldest
      <3>5. LocksOldest'
        <4>1. \A p \in Pages :
                /\ pageLock'[p] = 0 => pageEntries'[p] = {}
                /\ pageLock'[p] # 0 => pageLock'[p] \in pageEntries'[p]
                /\ \A s \in pageEntries'[p] : pageLock'[p] <= s
          BY <1>1 DEF LocksOldest
        <4>2. \A c \in SlabBlocks :
                /\ slabLock'[c].state = "free" => slabEntries'[c] = {}
                /\ slabLock'[c].state # "free" =>
                     slabLock'[c].recoveryStart \in slabEntries'[c]
                /\ \A s \in slabEntries'[c] : slabLock'[c].recoveryStart <= s
          BY <2>2, <2>3, <3>4 DEF LocksOldest
        <4> QED
          BY <1>1, <1>2, <2>3, <4>1, <4>2 DEF LocksOldest, journalVars
      <3> QED
        BY <1>4, <1>5, <1>6, <3>1, <3>2, <3>3, <3>5
    <2>4. CASE /\ slabLock[b].state = "free"
               /\ slabLock' = [slabLock EXCEPT
                    ![b] = [state |-> "open", recoveryStart |-> point]]
               /\ acquireLockCountReference(lock, zone)
      <3>1. /\ slabLock' \in [SlabBlocks -> [state : {"free", "open", "closed"},
                                             recoveryStart : Nat]]
            /\ slabLock'[b].state = "open" /\ slabLock'[b].recoveryStart = point
            /\ \A c \in SlabBlocks \ {b} : slabLock'[c] = slabLock[c]
        BY <1>7, <2>2, <2>4
      <3>2. ASSUME NEW z \in Zones, NEW l \in Locks
            PROVE  References(z, l)' = References(z, l)
                                         + (IF z = zone /\ l = lock THEN 1 ELSE 0)
        <4>1. Releasing(z, l)' = Releasing(z, l) /\ Releasing(z, l) \in Nat
          BY <1>1 DEF Releasing
        <4>2. CASE z = zone /\ l = lock
          <5>1. Holders(z, l)' = Holders(z, l) \cup {b} /\ b \notin Holders(z, l)
            BY <1>defs, <2>1, <2>4, <3>1, <4>2 DEF Holders
          <5>2. /\ Cardinality(Holders(z, l)') = Cardinality(Holders(z, l)) + 1
                /\ Cardinality(Holders(z, l)) \in Nat
            BY <5>1, Finite, Gain
          <5> QED
            BY <4>1, <4>2, <5>2 DEF References
        <4>3. CASE ~(z = zone /\ l = lock)
          <5>0. \A c \in SlabBlocks :
                  /\ SlabZone[c] = z /\ slabLock'[c].state # "free"
                  /\ LockOf(slabLock'[c].recoveryStart) = l
                  <=> /\ SlabZone[c] = z /\ slabLock[c].state # "free"
                      /\ LockOf(slabLock[c].recoveryStart) = l
            BY <1>defs, <2>4, <3>1, <4>3
          <5>1. Holders(z, l)' = Holders(z, l)
            BY <1>1, <5>0, Zenon DEF Holders
          <5>2. References(z, l)' = References(z, l) /\ References(z, l) \in Nat
            BY <4>1, <5>1, Finite DEF References
          <5> QED
            BY <4>3, <5>2
        <4> QED
          BY <4>2, <4>3
      <3>3. ZonesCounted'
        BY <1>7, <2>1, <2>4, <3>2, AcquireCounted
      <3>4. /\ zoneCounters' \in [Zones -> [Locks -> Nat]]
            /\ zoneCounts' \in [ZoneTypes -> [Locks -> Nat]]
        BY <1>7, <2>1, <2>4 DEF acquireLockCountReference, TypeOK, ZoneTypes, TypeOf
      <3>5. TypeOK'
        BY <1>1, <1>2, <2>2, <3>1, <3>4 DEF TypeOK, VIO, journalVars
      <3>6. HeadsAreBehind'
        <4>1. UNCHANGED <<reapHead, zpc, pageLock>>
          BY <1>1 DEF journalVars
        <4>2. \A w \in DataVIOs : vio'[w].state # "idle" => vio[w].state # "idle"
          BY <1>1, <1>2
        <4>3. \A c \in SlabBlocks : slabLock'[c].state # "free" =>
                slabLock'[c].recoveryStart >= reapHead["physical"]
          BY <1>7, <3>1 DEF HeadsAreBehind, ZoneTypes
        <4> QED
          BY <1>2, <4>1, <4>2, <4>3, Zenon DEF HeadsAreBehind
      <3>7. slabEntries'[b] = {point}
        BY <2>2, <2>4 DEF LocksOldest
      <3>8. \A w \in DataVIOs : vio[w].point \in Nat
        BY DEF TypeOK
      <3>9. LocksOldest'
        <4>1. /\ UNCHANGED <<pageLock, pageEntries, lastWriteAcknowledged>>
              /\ \A w \in DataVIOs : vio'[w].state = "committed" => vio'[w] = vio[w]
          BY <1>1, <1>2 DEF journalVars
        <4>2. \A w \in DataVIOs : /\ vio[w].state = "committed"
                                  /\ BlockZone[w][vio[w].operation] = zone
                                  => point <= vio[w].point
          BY <1>7, <2>1, <3>8
        <4>3. ASSUME NEW c \in SlabBlocks, c # b
              PROVE  slabLock'[c] = slabLock[c] /\ slabEntries'[c] = slabEntries[c]
          BY <2>2, <3>1, <4>3
        <4>4. /\ slabLock'[b].state = "open" /\ slabLock'[b].recoveryStart = point
              /\ slabEntries'[b] = {point} /\ point # 0 /\ point <= lastWriteAcknowledged
              /\ \A s \in slabEntries'[b] : point <= s
          BY <1>7, <3>1, <3>7
        <4> QED
          BY <4>1, <4>2, <4>3, <4>4 DEF LocksOldest
      <3> QED
        BY <1>4, <1>5, <1>6, <3>3, <3>5, <3>6, <3>9
    <2> QED
      BY <1>defs, <1>9, <2>3, <2>4 DEF MakeSlabJournalEntry
  <1> QED
    BY <1>8, <1>9 DEF SkipSlabJournal, counterVars, history

\* updateBlockMapPage() preserves the invariant: the reference of the entry
\* passes from the DataVIO to the zone, and the page's own reference is either
\* new, or exchanged for that of the older block.
LEMMA UpdateStep ==
  ASSUME SetFacts, LockCounterConstants, LockCounterInv, NEW v \in DataVIOs, NEW p \in Pages,
         UpdateBlockMapPage(v, p)
  PROVE  LockCounterInv'
  <1> USE DEF LockCounterInv
  <1> DEFINE VIO == [state : VIOStates, operation : Operations, point : Nat,
                     recoverySequenceNumber : Nat]
             ZPC == [at : {"idle", "release", "notify", "entry"},
                     release : Nat, entry : Nat]
             zone == pageZone[p]
             old == pageLock[p]
             new == vio[v].recoverySequenceNumber
             must == MustLock(old, new)
  <1>1. /\ vio \in [DataVIOs -> VIO] /\ zpc \in [Zones -> ZPC]
        /\ pageLock \in [Pages -> Nat] /\ pageEntries \in [Pages -> SUBSET Nat]
        /\ zone \in LogicalZones /\ zone \in Zones
        /\ old \in Nat /\ new \in Nat /\ vio[v].point \in Nat /\ tail \in Nat
        /\ \A type \in ZoneTypes : reapHead[type] \in Nat
    BY DEF TypeOK, LockCounterConstants, Zones
  <1>2. /\ new > 0 /\ new < tail /\ new # 0
        /\ \A type \in ZoneTypes : new >= reapHead[type]
        /\ zpc[zone].entry = 0 /\ zpc[zone].release = 0
    <2>1. vio[v].state # "idle" /\ zpc[zone].at = "idle"
      BY DEF UpdateBlockMapPage, ZoneIdle
    <2>2. new > 0 /\ new <= vio[v].point /\ vio[v].point < tail
      BY <2>1 DEF EntriesInOrder
    <2>3. \A type \in ZoneTypes : new >= reapHead[type]
      BY <2>1 DEF HeadsAreBehind
    <2>4. zpc[zone].entry = 0 /\ zpc[zone].release = 0
      BY <1>1, <2>1 DEF ZonesInOrder
    <2> QED
      BY <1>1, <2>2, <2>3, <2>4
  <1>3. UNCHANGED <<journalVars, slabLock, slabEntries, pageZone, journalCounters,
                    journalDecrementCounts, notifying>>
    BY DEF UpdateBlockMapPage, acquireLockCountReference, counterVars
  <1>4. /\ vio' \in [DataVIOs -> VIO] /\ vio'[v] = NewVIO
        /\ \A w \in DataVIOs \ {v} : vio'[w] = vio[w]
    <2>1. NewVIO \in VIO
      BY DEF NewVIO, VIOStates, Operations
    <2> QED
      BY <1>1, <2>1 DEF UpdateBlockMapPage
  <1>5. /\ zpc' \in [Zones -> ZPC]
        /\ zpc'[zone].entry = new
        /\ zpc'[zone].release = IF must THEN old ELSE 0
        /\ zpc'[zone].at = IF must /\ old > 0 THEN "release" ELSE "entry"
        /\ \A z \in Zones \ {zone} : zpc'[z] = zpc[z]
    <2>1. zpc' = [zpc EXCEPT ![zone] =
                    [at |-> IF must /\ old > 0 THEN "release" ELSE "entry",
                     release |-> IF must THEN old ELSE 0, entry |-> new]]
      BY DEF UpdateBlockMapPage
    <2> QED
      BY <1>1, <2>1
  <1>6. /\ pageEntries' \in [Pages -> SUBSET Nat]
        /\ pageEntries'[p] = pageEntries[p] \cup {new}
        /\ \A q \in Pages \ {p} : pageEntries'[q] = pageEntries[q]
    BY <1>1 DEF UpdateBlockMapPage
  <1>7. /\ pageLock' \in [Pages -> Nat]
        /\ pageLock'[p] = IF must THEN new ELSE old
        /\ \A q \in Pages \ {p} : pageLock'[q] = pageLock[q]
    BY <1>1 DEF UpdateBlockMapPage
  <1>8. must <=> old = 0 \/ old > new
    BY DEF MustLock
  <1>committed. \A w \in DataVIOs : vio'[w].state # "idle" => vio'[w] = vio[w]
    BY <1>4 DEF NewVIO
  <1>defs. zone = pageZone[p] /\ old = pageLock[p] /\ new = vio[v].recoverySequenceNumber
    OBVIOUS
  <1> HIDE DEF VIO, ZPC, zone, old, new, must
  \* The journal's counts.
  <1>9. ASSUME NEW s \in Nat \ {0}
        PROVE  IF s = new
               THEN /\ Writers(s)' = Writers(s) \ {v} /\ v \in Writers(s)
                    /\ Updaters(s)' = Updaters(s) \cup {zone} /\ zone \notin Updaters(s)
               ELSE Writers(s)' = Writers(s) /\ Updaters(s)' = Updaters(s)
    <2>1. CASE s = new
      <3>1. Writers(s)' = Writers(s) \ {v} /\ v \in Writers(s)
        BY <1>defs, <1>2, <1>4, <2>1 DEF Writers, NewVIO
      <3>2. Updaters(s)' = Updaters(s) \cup {zone} /\ zone \notin Updaters(s)
        BY <1>1, <1>2, <1>5, <2>1 DEF Updaters
      <3> QED
        BY <2>1, <3>1, <3>2
    <2>2. CASE s # new
      <3>1. \A w \in DataVIOs : vio'[w].recoverySequenceNumber = s
                                <=> vio[w].recoverySequenceNumber = s
        BY <1>defs, <1>4, <2>2 DEF NewVIO
      <3>2. \A z \in Zones : zpc'[z].entry = s <=> zpc[z].entry = s
        BY <1>2, <1>5, <2>2
      <3> QED
        BY <2>2, <3>1, <3>2 DEF Writers, Updaters
    <2> QED
      BY <2>1, <2>2
  <1>10. ASSUME NEW s \in Nat \ {0}
         PROVE  Cardinality(Writers(s)') + Cardinality(Updaters(s)')
                  = Cardinality(Writers(s)) + Cardinality(Updaters(s))
    <2>1. CASE s = new
      <3>1. /\ Cardinality(Writers(s)') \in Nat
            /\ Cardinality(Writers(s)) = Cardinality(Writers(s)') + 1
        BY <1>9, <2>1, Finite, Lose
      <3>2. /\ Cardinality(Updaters(s)) \in Nat
            /\ Cardinality(Updaters(s)') = Cardinality(Updaters(s)) + 1
        BY <1>9, <2>1, Finite, Gain
      <3> QED
        BY <3>1, <3>2
    <2>2. CASE s # new
      BY <1>9, <2>2
    <2> QED
      BY <2>1, <2>2
  <1>11. JournalCounted'
    BY <1>1, <1>3, <1>10, KeepJournal DEF journalVars
  <1>12. JournalInOrder'
    BY <1>3, ZenonT(30) DEF JournalInOrder, journalVars
  <1>13. EntriesInOrder'
    BY <1>3, <1>4, <1>committed, ZenonT(30) DEF EntriesInOrder, journalVars, NewVIO
  <1>14. ZonesInOrder'
    <2>1. /\ zpc'[zone].entry = new /\ new < tail /\ new # 0
          /\ zpc'[zone].release # 0 <=> zpc'[zone].at = "release"
          /\ zpc'[zone].at \in {"release", "entry"}
      BY <1>1, <1>2, <1>5, <1>8
    <2> QED
      <3>1. tail' = tail
        BY <1>3, Zenon DEF journalVars
      <3>2. ASSUME NEW z \in Zones, z # zone
            PROVE  /\ zpc'[z].entry < tail'
                   /\ zpc'[z].release # 0 <=> zpc'[z].at = "release"
                   /\ zpc'[z].at = "idle" => zpc'[z].entry = 0
                   /\ zpc'[z].at = "entry" => zpc'[z].entry # 0
        <4>1. zpc'[z] = zpc[z]
          BY <1>5, <3>2, Zenon
        <4> QED
          BY <3>1, <4>1, Zenon DEF ZonesInOrder
      <3> QED
        BY <2>1, <3>1, <3>2, ZenonT(30) DEF ZonesInOrder
  <1>15. StaysUnlocked'
    <2>1. SUFFICES ASSUME jpc.at = "zone" PROVE StaysUnlocked'
      BY <1>3 DEF StaysUnlocked, journalVars
    <2>2. reapHead[jpc.type] \in Nat \ {0}
      BY DEF TypeOK
    <2>3. Writers(reapHead[jpc.type]) = {}
      BY <2>1 DEF StaysUnlocked
    <2>4. reapHead[jpc.type] # new
      BY <1>defs, <2>3 DEF Writers
    <2>5. /\ Writers(reapHead[jpc.type])' = Writers(reapHead[jpc.type])
          /\ Updaters(reapHead[jpc.type])' = Updaters(reapHead[jpc.type])
      <3>1. reapHead' = reapHead /\ jpc' = jpc
        BY <1>3 DEF journalVars
      <3>2. \A s \in Nat \ {0} : s # new =>
              /\ {w \in DataVIOs : vio'[w].recoverySequenceNumber = s} = Writers(s)
              /\ {z \in Zones : zpc'[z].entry = s} = Updaters(s)
        BY <1>9 DEF Writers, Updaters
      <3> QED
        BY <2>2, <2>4, <3>1, <3>2 DEF Writers, Updaters
    <2> QED
      BY <1>3, <2>1, <2>5 DEF StaysUnlocked, journalVars
  <1>16. LocksOldest'
    <2>1. pageLock[p] # 0 => \A s \in pageEntries[p] : pageLock[p] <= s
      BY <1>defs DEF LocksOldest
    <2>2. pageLock[p] = 0 => pageEntries[p] = {}
      BY <1>defs DEF LocksOldest
    <2>3. \A s \in pageEntries[p] : s \in Nat
      BY <1>1
    <2>4. /\ pageLock'[p] # 0 /\ pageLock'[p] \in pageEntries'[p]
          /\ \A s \in pageEntries'[p] : pageLock'[p] <= s
      <3>1. pageLock'[p] # 0 /\ pageLock'[p] \in pageEntries'[p]
        BY <1>defs, <1>1, <1>2, <1>6, <1>7, <1>8 DEF LocksOldest
      <3>2. \A s \in pageEntries'[p] : pageLock'[p] <= s
        BY <1>defs, <1>1, <1>6, <1>7, <1>8, <2>1, <2>2, <2>3, SMTT(30)
      <3> QED
        BY <3>1, <3>2
    <2>5. \A q \in Pages :
            /\ pageLock'[q] = 0 => pageEntries'[q] = {}
            /\ pageLock'[q] # 0 => pageLock'[q] \in pageEntries'[q]
            /\ \A s \in pageEntries'[q] : pageLock'[q] <= s
      BY <1>6, <1>7, <2>4, ZenonT(30) DEF LocksOldest
    <2> QED
      BY <1>3, <1>committed, <2>5 DEF LocksOldest, journalVars
  <1>17. HeadsAreBehind'
    <2>1. UNCHANGED <<reapHead, slabLock>>
      BY <1>3 DEF journalVars
    <2>2. \A type \in ZoneTypes, z \in Zones :
            zpc'[z].entry # 0 => zpc'[z].entry >= reapHead[type]
      BY <1>2, <1>5 DEF HeadsAreBehind
    <2>3. \A q \in Pages : pageLock'[q] # 0 => pageLock'[q] >= reapHead["logical"]
      BY <1>defs, <1>2, <1>7 DEF HeadsAreBehind, ZoneTypes
    <2> QED
      BY <1>committed, <2>1, <2>2, <2>3 DEF HeadsAreBehind
  <1>18. /\ ZonesCounted'
         /\ zoneCounters' \in [Zones -> [Locks -> Nat]]
         /\ zoneCounts' \in [ZoneTypes -> [Locks -> Nat]]
    <2>1. CASE ~must
      <3>1. UNCHANGED <<zoneCounters, zoneCounts>> /\ pageLock' = pageLock
        BY <2>1 DEF UpdateBlockMapPage, counterVars, must, old, new
      <3>2. \A z \in Zones : zpc'[z].release = zpc[z].release
        BY <1>2, <1>5, <2>1
      <3>3. \A z \in Zones, l \in Locks : Releasing(z, l)' = Releasing(z, l)
        BY <3>2 DEF Releasing
      <3>4. \A z \in Zones, l \in Locks : Holders(z, l)' = Holders(z, l)
        BY <1>3, <3>1 DEF Holders
      <3>5. \A z \in Zones, l \in Locks : References(z, l)' = References(z, l)
        BY <3>3, <3>4 DEF References
      <3> QED
        BY <3>1, <3>5, KeepCounted DEF TypeOK
    <2>2. CASE must
      <3> DEFINE lock == LockOf(new)
      <3>1. lock \in Locks /\ acquireLockCountReference(lock, zone)
        BY <1>1, <2>2, LockOfType DEF UpdateBlockMapPage, must, old, new, zone
      <3>2. ASSUME NEW z \in Zones, NEW l \in Locks
            PROVE  References(z, l)' = References(z, l)
                                         + (IF z = zone /\ l = lock THEN 1 ELSE 0)
        <4>1. CASE z # zone
          <5>1. Releasing(z, l)' = Releasing(z, l)
            BY <1>5, <4>1 DEF Releasing
          <5>2. Holders(z, l)' = Holders(z, l)
            BY <1>defs, <1>1, <1>3, <1>7, <4>1, Zenon DEF Holders
          <5>3. References(z, l)' = References(z, l) /\ References(z, l) \in Nat
            BY <5>1, <5>2, Finite DEF References
          <5> QED
            BY <4>1, <5>3
        <4>2. CASE z = zone
          <5>1. /\ Releasing(z, l) = 0
                /\ Releasing(z, l)' = IF old # 0 /\ LockOf(old) = l THEN 1 ELSE 0
            BY <1>2, <1>5, <2>2, <4>2, ZenonT(30) DEF Releasing
          <5>2. p \in Holders(z, l) <=> old # 0 /\ LockOf(old) = l
            BY <1>defs, <1>1, <4>2 DEF Holders
          <5>3. p \in Holders(z, l)' <=> l = lock
            BY <1>defs, <1>1, <1>2, <1>3, <1>7, <2>2, <4>2, ZenonT(30) DEF Holders
          <5>4. Holders(z, l)' \ {p} = Holders(z, l) \ {p}
            BY <1>defs, <1>1, <1>3, <1>7, <4>2, ZenonT(30) DEF Holders
          <5> DEFINE c == Cardinality(Holders(z, l) \ {p})
          <5>5. \A S : IsFiniteSet(S) =>
                  /\ Cardinality(S \ {p}) \in Nat
                  /\ Cardinality(S) = Cardinality(S \ {p}) + (IF p \in S THEN 1 ELSE 0)
            <6> SUFFICES ASSUME NEW S, IsFiniteSet(S)
                         PROVE  /\ Cardinality(S \ {p}) \in Nat
                                /\ Cardinality(S) = Cardinality(S \ {p})
                                                      + (IF p \in S THEN 1 ELSE 0)
              OBVIOUS
            <6>1. CASE p \in S
              BY <6>1, Lose
            <6>2. CASE p \notin S
              <7>1. S \ {p} = S
                BY <6>2
              <7>2. Cardinality(S) \in Nat
                BY CardinalityType
              <7> QED
                BY <6>2, <7>1, <7>2
            <6> QED
              BY <6>1, <6>2
          <5>6. /\ c \in Nat
                /\ Cardinality(Holders(z, l)) = c + (IF p \in Holders(z, l) THEN 1 ELSE 0)
                /\ Cardinality(Holders(z, l)') = c + (IF p \in Holders(z, l)' THEN 1 ELSE 0)
            BY <5>4, <5>5, Finite
          <5> QED
            BY <4>2, <5>1, <5>2, <5>3, <5>6 DEF References
        <4> QED
          BY <4>1, <4>2
      <3>3. ZonesCounted'
        BY <1>1, <3>1, <3>2, AcquireCounted
      <3> QED
        BY <1>1, <3>1, <3>3 DEF acquireLockCountReference, TypeOK, ZoneTypes, TypeOf
    <2> QED
      BY <2>1, <2>2
  <1>19. TypeOK'
    BY <1>3, <1>4, <1>5, <1>6, <1>7, <1>18 DEF TypeOK, VIO, ZPC, journalVars
  <1> QED
    BY <1>11, <1>12, <1>13, <1>14, <1>15, <1>16, <1>17, <1>18, <1>19
=============================================================================
