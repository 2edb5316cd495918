------------------------- MODULE LockCounterJournal -------------------------
(***************************************************************************)
(* What the counts of the lock counter are made of, and two facts of its   *)
(* inductive invariant, LockCounterInv: it holds at first, and assigning   *)
(* an entry preserves it.                                                  *)
(***************************************************************************)
EXTENDS LockCounter, TLAPS

(***************************************************************************)
(* The facts about finite sets which the counting needs.  They are proved  *)
(* from the library's theorems in LockCounterProofs, and are an assumption *)
(* of the lemmas before that, so that these do not have the whole library  *)
(* in view.                                                                *)
(***************************************************************************)
SetFacts ==
  /\ IsFiniteSet({})
  /\ \A S : IsFiniteSet(S) => (Cardinality(S) = 0 <=> S = {})
  /\ \A S : IsFiniteSet(S) => Cardinality(S) \in Nat
  /\ \A S, T : IsFiniteSet(S) /\ T \in SUBSET S => IsFiniteSet(T)
  /\ \A S, T : IsFiniteSet(S) /\ IsFiniteSet(T) => IsFiniteSet(S \cup T)
  /\ \A S, x : IsFiniteSet(S) /\ x \notin S => Cardinality(S \cup {x}) = Cardinality(S) + 1
  /\ \A S, x : IsFiniteSet(S) /\ x \in S => Cardinality(S) = Cardinality(S \ {x}) + 1

\* The number of elements of a finite set is a natural number.
LEMMA CardinalityType ==
  ASSUME SetFacts, NEW S, IsFiniteSet(S) PROVE Cardinality(S) \in Nat
  BY DEF SetFacts

\* Only the empty set has none.
LEMMA EmptySet ==
  ASSUME SetFacts
  PROVE  /\ IsFiniteSet({}) /\ Cardinality({}) = 0
         /\ \A S : IsFiniteSet(S) => (Cardinality(S) = 0 <=> S = {})
  BY DEF SetFacts

\* Subsets of finite sets are finite.
LEMMA FiniteSubset ==
  ASSUME SetFacts, NEW S, NEW T \in SUBSET S, IsFiniteSet(S) PROVE IsFiniteSet(T)
  BY DEF SetFacts

\* Unions of finite sets are finite.
LEMMA FiniteUnion ==
  ASSUME SetFacts, NEW S, NEW T, IsFiniteSet(S), IsFiniteSet(T)
  PROVE  IsFiniteSet(S \cup T)
  BY DEF SetFacts

\* A set that gains an element has one more.
LEMMA Gain ==
  ASSUME SetFacts, NEW S, NEW T, NEW x, IsFiniteSet(S), x \notin S, T = S \cup {x}
  PROVE  /\ Cardinality(S) \in Nat
         /\ Cardinality(T) = Cardinality(S) + 1
  BY DEF SetFacts

\* A set that loses an element has one less.
LEMMA Lose ==
  ASSUME SetFacts, NEW S, NEW T, NEW x, IsFiniteSet(S), x \in S, T = S \ {x}
  PROVE  /\ Cardinality(T) \in Nat
         /\ Cardinality(S) = Cardinality(T) + 1
  <1>1. T \in SUBSET S
    OBVIOUS
  <1>2. IsFiniteSet(T)
    BY <1>1 DEF SetFacts
  <1> QED
    BY <1>2 DEF SetFacts

-----------------------------------------------------------------------------
\* A lock number is a lock of the counter.
LEMMA LockOfType ==
  ASSUME SetFacts, LockCounterConstants, NEW s \in Nat
  PROVE  LockOf(s) \in Locks
  BY DEF LockCounterConstants, LockOf, Locks

\* Sequence numbers less than Size apart have different locks.
LEMMA LockOfUnique ==
  ASSUME SetFacts, LockCounterConstants, NEW a \in Nat, NEW b \in Nat,
         a < b, b - a < Size
  PROVE  LockOf(a) # LockOf(b)
  <1> DEFINE qa == a \div Size
             qb == b \div Size
  <1>1. /\ Size \in Nat /\ Size > 0
        /\ qa \in Int /\ qb \in Int
        /\ a = Size * qa + (a % Size)
        /\ b = Size * qb + (b % Size)
    BY DEF LockCounterConstants
  <1>2. SUFFICES ASSUME a % Size = b % Size PROVE FALSE
    BY DEF LockOf
  <1>3. Size * (qb - qa) > 0 /\ Size * (qb - qa) < Size
    BY <1>1, <1>2
  <1>4. qb - qa >= 1 \/ qb - qa <= 0
    BY <1>1
  <1>5. qb - qa >= 1 => Size * (qb - qa) >= Size
    BY <1>1
  <1>6. qb - qa <= 0 => Size * (qb - qa) <= 0
    BY <1>1
  <1> QED
    BY <1>1, <1>3, <1>4, <1>5, <1>6

\* Everything that is counted is finite, before and after a step.
LEMMA Finite ==
  ASSUME SetFacts, LockCounterConstants
  PROVE  /\ \A z, l : /\ IsFiniteSet(Holders(z, l)) /\ IsFiniteSet(Holders(z, l)')
                      /\ References(z, l) \in Nat /\ References(z, l)' \in Nat
         /\ \A type, l : IsFiniteSet(CountedZones(type, l))
         /\ \A s : /\ IsFiniteSet(Writers(s)) /\ IsFiniteSet(Writers(s)')
                   /\ IsFiniteSet(Updaters(s)) /\ IsFiniteSet(Updaters(s)')
  <1>1. IsFiniteSet(Zones)
    BY FiniteUnion DEF LockCounterConstants, Zones
  <1>2. \A S, T : IsFiniteSet(S) /\ T \in SUBSET S => IsFiniteSet(T)
    BY FiniteSubset
  <1>3. \A z, l : IsFiniteSet(Holders(z, l)) /\ IsFiniteSet(Holders(z, l)')
    <2>1. \A z, l : /\ \/ Holders(z, l) \in SUBSET Pages
                       \/ Holders(z, l) \in SUBSET SlabBlocks
                    /\ \/ Holders(z, l)' \in SUBSET Pages
                       \/ Holders(z, l)' \in SUBSET SlabBlocks
      BY DEF Holders
    <2> QED
      BY <1>2, <2>1 DEF LockCounterConstants
  <1>4. \A type, l : IsFiniteSet(CountedZones(type, l))
    <2>1. \A type, l : CountedZones(type, l) \in SUBSET Zones
      BY DEF CountedZones
    <2> QED
      BY <1>1, <1>2, <2>1
  <1>5. \A s : /\ IsFiniteSet(Writers(s)) /\ IsFiniteSet(Writers(s)')
               /\ IsFiniteSet(Updaters(s)) /\ IsFiniteSet(Updaters(s)')
    <2>1. \A s : /\ Writers(s) \in SUBSET DataVIOs /\ Writers(s)' \in SUBSET DataVIOs
                 /\ Updaters(s) \in SUBSET Zones /\ Updaters(s)' \in SUBSET Zones
      BY DEF Writers, Updaters
    <2> QED
      BY <1>1, <1>2, <2>1 DEF LockCounterConstants
  <1>6. \A z, l : References(z, l) \in Nat /\ References(z, l)' \in Nat
    <2>1. \A S : IsFiniteSet(S) => Cardinality(S) \in Nat
      BY CardinalityType
    <2> QED
      BY <1>3, <2>1 DEF References, Releasing
  <1> QED
    BY <1>3, <1>4, <1>5, <1>6

\* acquireLockCountReference() keeps the counts exact when the zone has one
\* more reference on the lock and everything else as before.
LEMMA AcquireCounted ==
  ASSUME SetFacts, LockCounterConstants, TypeOK, ZonesCounted,
         NEW zone \in Zones, NEW lock \in Locks,
         acquireLockCountReference(lock, zone),
         \A z \in Zones, l \in Locks :
           References(z, l)' = References(z, l)
                                 + (IF z = zone /\ l = lock THEN 1 ELSE 0)
  PROVE  ZonesCounted'
  <1> DEFINE type == TypeOf(zone)
  <1>1. \A z \in Zones, l \in Locks :
          zoneCounters'[z][l] = zoneCounters[z][l]
                                  + (IF z = zone /\ l = lock THEN 1 ELSE 0)
    BY DEF TypeOK, acquireLockCountReference
  <1>2. \A z \in Zones, l \in Locks : zoneCounters'[z][l] = References(z, l)'
    BY <1>1 DEF ZonesCounted
  <1>3. ASSUME NEW t \in ZoneTypes, NEW l \in Locks
        PROVE  zoneCounts'[t][l] = Cardinality(CountedZones(t, l)')
    <2>0. zoneCounts[t][l] = Cardinality(CountedZones(t, l))
      BY DEF ZonesCounted
    <2>1. CASE t = type /\ l = lock /\ zoneCounters[zone][lock] = 0
      <3>1. CountedZones(t, l)' = CountedZones(t, l) \cup {zone}
        BY <1>1, <2>1 DEF CountedZones, TypeOK
      <3>2. zone \notin CountedZones(t, l)
        BY <2>1 DEF CountedZones
      <3>3. Cardinality(CountedZones(t, l)') = Cardinality(CountedZones(t, l)) + 1
        BY <3>1, <3>2, Gain, Finite
      <3>4. zoneCounts'[t][l] = zoneCounts[t][l] + 1
        BY <2>1 DEF acquireLockCountReference, TypeOK
      <3> QED
        BY <2>0, <3>3, <3>4
    <2>2. CASE ~(t = type /\ l = lock /\ zoneCounters[zone][lock] = 0)
      <3>0. \A z \in Zones : TypeOf(z) = t =>
              (zoneCounters'[z][l] > 0 <=> zoneCounters[z][l] > 0)
        BY <1>1, <2>2 DEF TypeOK
      <3>1. CountedZones(t, l)' = CountedZones(t, l)
        BY <3>0 DEF CountedZones
      <3>2. zoneCounts'[t][l] = zoneCounts[t][l]
        BY <2>2 DEF acquireLockCountReference, TypeOK
      <3> QED
        BY <2>0, <3>1, <3>2
    <2> QED
      BY <2>1, <2>2
  <1> QED
    BY <1>2, <1>3 DEF ZonesCounted

\* So does releaseLockCountReference() when it has one reference less.
LEMMA ReleaseCounted ==
  ASSUME SetFacts, LockCounterConstants, TypeOK, ZonesCounted,
         NEW zone \in Zones, NEW lock \in Locks,
         releaseLockCountReference(lock, zone),
         \A z \in Zones, l \in Locks :
           References(z, l) = References(z, l)'
                                + (IF z = zone /\ l = lock THEN 1 ELSE 0),
         References(zone, lock) > 0
  PROVE  /\ ZonesCounted'
         /\ zoneCounters' \in [Zones -> [Locks -> Nat]]
         /\ zoneCounts' \in [ZoneTypes -> [Locks -> Nat]]
  <1> DEFINE type == TypeOf(zone)
  <1>0. zoneCounters[zone][lock] > 0
    BY DEF ZonesCounted
  <1>1. \A z \in Zones, l \in Locks :
          zoneCounters'[z][l] = zoneCounters[z][l]
                                  - (IF z = zone /\ l = lock THEN 1 ELSE 0)
    BY DEF TypeOK, releaseLockCountReference
  <1>2. zoneCounters' \in [Zones -> [Locks -> Nat]]
    BY <1>0 DEF TypeOK, releaseLockCountReference
  <1>3. \A z \in Zones, l \in Locks : zoneCounters'[z][l] = References(z, l)'
    BY <1>1, Finite DEF ZonesCounted
  <1>4. ASSUME NEW t \in ZoneTypes, NEW l \in Locks
        PROVE  /\ zoneCounts'[t][l] = Cardinality(CountedZones(t, l)')
               /\ zoneCounts'[t][l] \in Nat
    <2>0. /\ zoneCounts[t][l] = Cardinality(CountedZones(t, l))
          /\ zoneCounts[t][l] \in Nat
      BY DEF ZonesCounted, TypeOK
    <2>1. CASE t = type /\ l = lock /\ zoneCounters[zone][lock] = 1
      <3>1. CountedZones(t, l)' = CountedZones(t, l) \ {zone}
        BY <1>1, <2>1 DEF CountedZones, TypeOK
      <3>2. zone \in CountedZones(t, l)
        BY <2>1 DEF CountedZones
      <3>3. /\ Cardinality(CountedZones(t, l)') \in Nat
            /\ Cardinality(CountedZones(t, l)) = Cardinality(CountedZones(t, l)') + 1
        BY <3>1, <3>2, Lose, Finite
      <3>4. zoneCounts'[t][l] = zoneCounts[t][l] - 1
        BY <2>1 DEF releaseLockCountReference, TypeOK
      <3> QED
        BY <2>0, <3>3, <3>4
    <2>2. CASE ~(t = type /\ l = lock /\ zoneCounters[zone][lock] = 1)
      <3>1. CountedZones(t, l)' = CountedZones(t, l)
        BY <1>0, <1>1, <2>2 DEF CountedZones, TypeOK
      <3>2. zoneCounts'[t][l] = zoneCounts[t][l]
        BY <2>2 DEF releaseLockCountReference, TypeOK
      <3> QED
        BY <2>0, <3>1, <3>2
    <2> QED
      BY <2>1, <2>2
  <1>5. zoneCounts' \in [ZoneTypes -> [Locks -> Nat]]
    <2>1. zoneCounts' \in [ZoneTypes -> [Locks -> Int]]
      BY DEF TypeOK, releaseLockCountReference, ZoneTypes, TypeOf
    <2> QED
      BY <1>4, <2>1
  <1> QED
    BY <1>2, <1>3, <1>4, <1>5 DEF ZonesCounted

\* Nothing changes when no reference does.
LEMMA KeepCounted ==
  ASSUME ZonesCounted, UNCHANGED <<zoneCounters, zoneCounts>>,
         \A z \in Zones, l \in Locks : References(z, l)' = References(z, l)
  PROVE  ZonesCounted'
  BY DEF ZonesCounted, CountedZones

\* Who references a lock depends on the zones' releases, the pages' and the slab
\* journal blocks' locks only.
LEMMA SameReferences ==
  ASSUME UNCHANGED <<zpc, pageLock, slabLock, pageZone>>
  PROVE  \A z, l : References(z, l)' = References(z, l)
  <1>1. \A z, l : Holders(z, l)' = Holders(z, l) /\ Releasing(z, l)' = Releasing(z, l)
    BY DEF Holders, Releasing
  <1> QED
    BY <1>1 DEF References

-----------------------------------------------------------------------------
\* The counts of a new journal are zero, as are its references.
LEMMA LockCounterInit ==
  ASSUME SetFacts, LockCounterConstants, Init PROVE LockCounterInv
  <1>1. TypeOK
    <2>1. /\ NewVIO \in [state : VIOStates, operation : Operations, point : Nat,
                         recoverySequenceNumber : Nat]
          /\ Idle \in [at : {"idle", "release", "notify", "entry"},
                       release : Nat, entry : Nat]
          /\ jpc \in [type : ZoneTypes, at : {"idle", "journal", "zone"}]
      BY DEF Init, NewVIO, VIOStates, Operations, Idle, ZoneTypes
    <2>2. /\ journalCounters \in [Locks -> Nat]
          /\ journalDecrementCounts \in [Locks -> Nat]
          /\ zoneCounts \in [ZoneTypes -> [Locks -> Nat]]
          /\ zoneCounters \in [Zones -> [Locks -> Nat]]
      BY DEF Init
    <2>3. /\ vio \in [DataVIOs -> [state : VIOStates, operation : Operations,
                                   point : Nat, recoverySequenceNumber : Nat]]
          /\ zpc \in [Zones -> [at : {"idle", "release", "notify", "entry"},
                                release : Nat, entry : Nat]]
      BY <2>1 DEF Init
    <2>4. /\ pageLock \in [Pages -> Nat]
          /\ slabLock \in [SlabBlocks -> [state : {"free", "open", "closed"},
                                          recoveryStart : Nat]]
          /\ pageEntries \in [Pages -> SUBSET Nat]
          /\ slabEntries \in [SlabBlocks -> SUBSET Nat]
      BY DEF Init
    <2>5. entryCount \in 0 .. EntriesPerBlock
      BY DEF LockCounterConstants, Init
    <2>6. notifying \in BOOLEAN
      BY Zenon DEF Init
    <2>7. /\ tail \in Nat \ {0}
          /\ open \subseteq Nat /\ lastWriteAcknowledged \in Nat
          /\ reapHead \in [ZoneTypes -> Nat \ {0}]
          /\ pageZone \in PageZones
      BY DEF Init
    <2> QED
      BY <2>1, <2>2, <2>3, <2>4, <2>5, <2>6, <2>7 DEF TypeOK
  <1>2. ZonesCounted
    <2>1. ASSUME NEW z \in Zones, NEW l \in Locks PROVE References(z, l) = 0
      <3>1. Holders(z, l) = {} /\ Releasing(z, l) = 0
        BY DEF LockCounterConstants, Init, Holders, Releasing, Idle
      <3> QED
        BY <3>1, EmptySet DEF References
    <2>2. ASSUME NEW type, NEW l \in Locks PROVE CountedZones(type, l) = {}
      BY DEF Init, CountedZones
    <2> QED
      BY <2>1, <2>2, EmptySet, Zenon DEF Init, ZonesCounted
  <1>3. JournalCounted /\ JournalInOrder
    BY DEF LockCounterConstants, Init, JournalCounted, JournalInOrder
  <1>4. EntriesInOrder /\ ZonesInOrder
    BY DEF Init, EntriesInOrder, ZonesInOrder, NewVIO, Idle
  <1>5. LocksOldest /\ StaysUnlocked
    BY DEF Init, LocksOldest, StaysUnlocked
  <1>6. HeadsAreBehind
    BY DEF Init, HeadsAreBehind, NewVIO, Idle
  <1> QED
    BY <1>1, <1>2, <1>3, <1>4, <1>5, <1>6 DEF LockCounterInv

\* The invariant keeps every needed block from being reaped.
LEMMA InvImpliesNothingReaped ==
  ASSUME LockCounterInv PROVE NothingNeededIsReaped
  <1> USE DEF LockCounterInv
  <1> SUFFICES ASSUME NEW type \in ZoneTypes, NEW s \in NeededBy(type), s # 0
               PROVE  s >= reapHead[type]
    BY DEF NothingNeededIsReaped
  <1>0. \A t \in ZoneTypes : reapHead[t] \in Nat
    BY DEF TypeOK
  <1>1. CASE s \in open
    BY <1>1 DEF TypeOK, JournalInOrder
  <1>2. ASSUME NEW v \in DataVIOs, s = vio[v].recoverySequenceNumber
        PROVE  s >= reapHead[type]
    BY <1>2 DEF EntriesInOrder, HeadsAreBehind, NewVIO
  <1>3. ASSUME NEW z \in Zones, s = zpc[z].entry PROVE s >= reapHead[type]
    BY <1>3 DEF HeadsAreBehind
  <1>4. ASSUME type = "logical", NEW p \in Pages, s \in pageEntries[p]
        PROVE  s >= reapHead[type]
    <2>1. pageLock[p] # 0 /\ pageLock[p] <= s /\ pageLock[p] >= reapHead[type]
      BY <1>4 DEF LocksOldest, HeadsAreBehind
    <2>2. pageLock[p] \in Nat /\ s \in Nat
      BY <1>4 DEF TypeOK
    <2> QED
      BY <1>0, <2>1, <2>2
  <1>5. ASSUME type = "physical", NEW b \in SlabBlocks, s \in slabEntries[b]
        PROVE  s >= reapHead[type]
    <2>1. /\ slabLock[b].recoveryStart <= s
          /\ slabLock[b].recoveryStart >= reapHead[type]
      BY <1>5 DEF LocksOldest, HeadsAreBehind
    <2>2. slabLock[b].recoveryStart \in Nat /\ s \in Nat
      BY <1>5 DEF TypeOK
    <2> QED
      BY <1>0, <2>1, <2>2
  <1>6. ASSUME NEW v \in DataVIOs, vio[v].state = "committed", s = vio[v].point
        PROVE  s >= reapHead[type]
    <2>1. /\ vio[v].recoverySequenceNumber <= s
          /\ vio[v].recoverySequenceNumber >= reapHead[type]
      BY <1>6 DEF EntriesInOrder, HeadsAreBehind
    <2>2. vio[v].recoverySequenceNumber \in Nat /\ s \in Nat
      BY <1>6 DEF TypeOK
    <2> QED
      BY <1>0, <2>1, <2>2
  <1>7. \/ s \in open
        \/ \E v \in DataVIOs : s = vio[v].recoverySequenceNumber
        \/ \E z \in Zones : s = zpc[z].entry
        \/ type = "logical" /\ \E p \in Pages : s \in pageEntries[p]
        \/ type = "physical" /\ \E b \in SlabBlocks : s \in slabEntries[b]
        \/ \E v \in DataVIOs : vio[v].state = "committed" /\ s = vio[v].point
    BY DEF NeededBy, ZoneTypes
  <1> QED
    BY <1>1, <1>2, <1>3, <1>4, <1>5, <1>6, <1>7

-----------------------------------------------------------------------------
\* The journal's references are numbers.
LEMMA JournalReferencesType ==
  ASSUME SetFacts, LockCounterConstants, TypeOK, NEW s
  PROVE  /\ JournalReferences(s) \in Nat
         /\ JournalReferences(s) >= OpenReference(s)
         /\ Updaters(s) # {} => JournalReferences(s) > 0
         /\ JournalReferences(s) = 0 => Writers(s) = {} /\ Updaters(s) = {}
  <1>1. /\ IsFiniteSet(Writers(s)) /\ Cardinality(Writers(s)) \in Nat
        /\ IsFiniteSet(Updaters(s)) /\ Cardinality(Updaters(s)) \in Nat
    BY Finite, CardinalityType
  <1>2. /\ Cardinality(Writers(s)) = 0 <=> Writers(s) = {}
        /\ Cardinality(Updaters(s)) = 0 <=> Updaters(s) = {}
    BY <1>1, EmptySet
  <1>3. OpenReference(s) \in {0, 1} /\ FreeEntries(s) \in Nat
    BY DEF LockCounterConstants, TypeOK, OpenReference, FreeEntries
  <1> QED
    BY <1>1, <1>2, <1>3 DEF JournalReferences

\* assignEntry() preserves the invariant: the lock of a new block is free, and
\* an entry turns a reference of its block for a free entry into its own.
LEMMA AssignStep ==
  ASSUME SetFacts, LockCounterConstants, LockCounterInv, NEW v \in DataVIOs,
         NEW operation \in Operations, assignEntry(v, operation),
         operation = "increment" => vio[v].state = "idle",
         operation = "decrement" => vio[v].state = "counted"
  PROVE  LockCounterInv'
  <1> USE DEF LockCounterInv
  <1> DEFINE full == isRecoveryBlockFull
             sequence == IF full THEN tail ELSE tail - 1
             lock == LockOf(sequence)
             one == IF operation = "increment" THEN 1 ELSE 0
  <1>1. /\ EntriesPerBlock \in Nat \ {0} /\ Size \in Nat \ {0}
        /\ tail \in Nat \ {0} /\ entryCount \in 0 .. EntriesPerBlock
        /\ lastWriteAcknowledged \in Nat
        /\ \A type \in ZoneTypes : reapHead[type] \in Nat
    BY DEF LockCounterConstants, TypeOK
  <1>2. /\ tail' = sequence + 1
        /\ entryCount' = IF full THEN 1 ELSE entryCount + 1
        /\ open' = open \cup {sequence}
        /\ UNCHANGED <<zoneCounts, zoneCounters, lastWriteAcknowledged, reapHead,
                       jpc, zpc, pageLock, slabLock, history, pageZone>>
    BY DEF assignEntry
  <1>3. /\ sequence \in Nat \ {0} /\ sequence <= tail /\ tail' \in Nat /\ tail <= tail'
        /\ full => sequence = tail
        /\ ~full => /\ sequence = tail - 1 /\ tail' = tail /\ tail > 1
                    /\ entryCount < EntriesPerBlock /\ sequence \in open
    BY <1>1, <1>2 DEF isRecoveryBlockFull, JournalInOrder
  <1>4. \A type \in ZoneTypes : tail' - reapHead[type] <= Size
    <2>1. full => tail + 1 - getRecoveryJournalHead <= Size
      BY DEF assignEntry
    <2>2. \A type \in ZoneTypes : reapHead[type] >= getRecoveryJournalHead
      BY <1>1 DEF getRecoveryJournalHead, ZoneTypes
    <2>3. getRecoveryJournalHead \in Nat
      BY <1>1 DEF getRecoveryJournalHead, ZoneTypes
    <2> QED
      BY <1>1, <1>2, <1>3, <2>1, <2>2, <2>3 DEF JournalInOrder
  <1>5. /\ vio' \in [DataVIOs -> [state : VIOStates, operation : Operations,
                                  point : Nat, recoverySequenceNumber : Nat]]
        /\ vio'[v].state = "journal" /\ vio'[v].operation = operation
        /\ vio'[v].point = sequence
        /\ vio'[v].recoverySequenceNumber =
             IF operation = "increment" THEN sequence ELSE vio[v].recoverySequenceNumber
        /\ \A w \in DataVIOs \ {v} : vio'[w] = vio[w]
    <2>1. vio \in [DataVIOs -> [state : VIOStates, operation : Operations,
                                point : Nat, recoverySequenceNumber : Nat]]
      BY DEF TypeOK
    <2>2. "journal" \in VIOStates
      BY DEF VIOStates
    <2>3. vio[v].recoverySequenceNumber \in Nat
      BY <2>1
    <2>4. vio' = [vio EXCEPT ![v] =
            [state |-> "journal", operation |-> operation, point |-> sequence,
             recoverySequenceNumber |-> IF operation = "increment" THEN sequence
                                        ELSE vio[v].recoverySequenceNumber]]
      BY DEF assignEntry
    <2> QED
      BY <1>3, <2>1, <2>2, <2>3, <2>4
  <1>6. /\ vio[v].recoverySequenceNumber \in Nat
        /\ operation = "increment" => vio[v].recoverySequenceNumber = 0
        /\ operation = "decrement" => /\ vio[v].recoverySequenceNumber > 0
                                      /\ vio[v].recoverySequenceNumber < tail
        /\ operation = "increment" \/ operation = "decrement"
    BY <1>1 DEF EntriesInOrder, NewVIO, TypeOK, Operations
  \* The counts.
  <1>7. lock \in Locks
    BY <1>3, LockOfType, ZenonT(30)
  <1>8. /\ IF full THEN /\ journalCounters'[lock] = EntriesPerBlock + one
                        /\ journalDecrementCounts'[lock] = 0
           ELSE /\ journalCounters'[lock] = journalCounters[lock] - 1 + one
                /\ journalDecrementCounts'[lock] = journalDecrementCounts[lock]
        /\ \A l \in Locks \ {lock} :
             /\ journalCounters'[l] = journalCounters[l]
             /\ journalDecrementCounts'[l] = journalDecrementCounts[l]
    BY <1>1, <1>6, <1>7, SMTT(30) DEF assignEntry, TypeOK
  <1>defs. /\ lock = LockOf(sequence) /\ one \in Nat
           /\ operation = "increment" => one = 1
           /\ operation # "increment" => one = 0
    OBVIOUS
  <1> HIDE DEF full, sequence, lock, one
  <1>9. ASSUME NEW s \in Nat \ {0}
        PROVE  /\ Updaters(s)' = Updaters(s)
               /\ s # sequence => OpenReference(s)' = OpenReference(s)
               /\ s = sequence => OpenReference(s)' = 1
    BY <1>2, Zenon DEF Updaters, OpenReference
  <1>10. ASSUME NEW s \in Nat \ {0}
         PROVE  IF s = sequence /\ operation = "increment"
                THEN Writers(s)' = Writers(s) \cup {v} /\ v \notin Writers(s)
                ELSE Writers(s)' = Writers(s)
    <2>1. \A w \in DataVIOs : w # v => vio'[w] = vio[w]
      BY <1>5, ZenonT(30)
    <2>2. CASE s = sequence /\ operation = "increment"
      BY <1>3, <1>5, <1>6, <2>1, <2>2, ZenonT(30) DEF Writers
    <2>3. CASE ~(s = sequence /\ operation = "increment")
      <3>1. vio'[v].recoverySequenceNumber = s <=> vio[v].recoverySequenceNumber = s
        BY <1>5, <1>6, <2>3
      <3> QED
        BY <2>1, <2>3, <3>1 DEF Writers
    <2> QED
      BY <2>2, <2>3, ZenonT(30)
  <1>11. ASSUME NEW s \in Nat \ {0}, s < tail'
         PROVE  /\ s # sequence => /\ s < tail
                                   /\ FreeEntries(s)' = FreeEntries(s)
                /\ s = sequence => FreeEntries(s)' = EntriesPerBlock - entryCount'
                /\ s = sequence /\ ~full =>
                     FreeEntries(s) = EntriesPerBlock - entryCount
    BY <1>1, <1>2, <1>3, <1>11 DEF FreeEntries, full, isRecoveryBlockFull
  <1>12. ASSUME NEW s \in Nat \ {0}, s < tail', s >= tail' - Size
         PROVE  /\ journalCounters'[LockOf(s)]
                     = journalDecrementCounts'[LockOf(s)] + JournalReferences(s)'
                /\ JournalReferences(s)' \in Nat
    <2>0. /\ IsFiniteSet(Writers(s)) /\ IsFiniteSet(Updaters(s))
          /\ Cardinality(Writers(s)) \in Nat /\ Cardinality(Updaters(s)) \in Nat
      BY Finite, CardinalityType, ZenonT(30)
    <2>1. Updaters(s)' = Updaters(s)
      BY <1>9
    <2>2. CASE s = sequence
      <3>1. Cardinality(Writers(s)') = Cardinality(Writers(s)) + one
        <4>1. CASE operation = "increment"
          <5>1. Writers(s)' = Writers(s) \cup {v} /\ v \notin Writers(s)
            BY <1>10, <2>2, <4>1
          <5>2. Cardinality(Writers(s)') = Cardinality(Writers(s)) + 1
            BY <2>0, <5>1, Gain
          <5> QED
            BY <1>defs, <4>1, <5>2
        <4>2. CASE operation # "increment"
          BY <1>defs, <1>10, <2>0, <2>2, <4>2
        <4> QED
          BY <4>1, <4>2
      <3>2. JournalReferences(s)' = Cardinality(Writers(s)) + one
                + Cardinality(Updaters(s)) + 1 + (EntriesPerBlock - entryCount')
        BY <1>9, <1>11, <1>12, <2>1, <2>2, <3>1, Zenon DEF JournalReferences
      <3>3. CASE full
        <4>1. Writers(s) = {} /\ Updaters(s) = {}
          <5>1. s = tail /\ tail \in Nat \ {0}
            BY <1>1, <1>3, <2>2, <3>3, Zenon
          <5>2. \A w \in DataVIOs : vio[w].recoverySequenceNumber # s
            BY <5>1 DEF EntriesInOrder, NewVIO, TypeOK
          <5>3. \A z \in Zones : zpc[z].entry # s
            BY <5>1 DEF ZonesInOrder, TypeOK
          <5> QED
            BY <5>2, <5>3, Zenon DEF Writers, Updaters
        <4>2. Cardinality(Writers(s)) = 0 /\ Cardinality(Updaters(s)) = 0
          BY <4>1, EmptySet, ZenonT(30)
        <4> QED
          BY <1>defs, <1>1, <1>2, <1>8, <2>2, <3>2, <3>3, <4>2, SMTT(30)
      <3>4. CASE ~full
        <4>1. journalCounters[lock] = journalDecrementCounts[lock] + JournalReferences(s)
          <5>1. s \in 1 .. tail - 1 /\ s >= tail - Size
            BY <1>3, <1>12, <2>2, <3>4
          <5>2. journalCounters[LockOf(s)]
                  = journalDecrementCounts[LockOf(s)] + JournalReferences(s)
            BY <5>1, Zenon DEF JournalCounted
          <5> QED
            BY <1>defs, <2>2, <5>2, Zenon
        <4>2. JournalReferences(s) = Cardinality(Writers(s)) + Cardinality(Updaters(s))
                + 1 + (EntriesPerBlock - entryCount)
          BY <1>3, <1>11, <1>12, <2>2, <3>4 DEF JournalReferences, OpenReference
        <4>3. journalDecrementCounts[lock] \in Nat
          BY <1>7 DEF TypeOK
        <4> QED
          <5>1. /\ journalCounters'[LockOf(s)] = journalCounters[lock] - 1 + one
                /\ journalDecrementCounts'[LockOf(s)] = journalDecrementCounts[lock]
                /\ entryCount' = entryCount + 1
            BY <1>defs, <1>2, <1>8, <2>2, <3>4, Zenon
          <5>2. entryCount < EntriesPerBlock /\ entryCount \in Nat /\ EntriesPerBlock \in Nat
            <6>1. entryCount < EntriesPerBlock /\ entryCount \in 0 .. EntriesPerBlock
              BY <1>1, <1>3, <3>4, Zenon
            <6>2. EntriesPerBlock \in Nat \ {0}
              BY <1>1, Zenon
            <6> QED
              BY <6>1, <6>2
          <5>3. one \in Nat
            BY <1>defs, Zenon
          <5> QED
            BY <2>0, <3>2, <4>1, <4>2, <4>3, <5>1, <5>2, <5>3
      <3> QED
        BY <3>3, <3>4
    <2>3. CASE s # sequence
      <3>1. s < sequence /\ sequence - s < Size
        BY <1>1, <1>2, <1>3, <1>12, <2>3
      <3>2. LockOf(s) # lock /\ LockOf(s) \in Locks
        BY <1>defs, <1>3, <3>1, LockOfUnique, LockOfType
      <3>3. JournalReferences(s)' = JournalReferences(s)
        BY <1>9, <1>10, <1>11, <1>12, <2>1, <2>3 DEF JournalReferences
      <3>4. JournalReferences(s) \in Nat
        BY <1>1, <2>0 DEF JournalReferences, OpenReference, FreeEntries
      <3>5. journalCounters[LockOf(s)]
              = journalDecrementCounts[LockOf(s)] + JournalReferences(s)
        BY <1>1, <1>3, <1>11, <1>12, <2>3 DEF JournalCounted
      <3> QED
        BY <1>8, <3>2, <3>3, <3>4, <3>5
    <2> QED
      BY <2>2, <2>3, ZenonT(30)
  <1>13. sequence < tail' /\ sequence >= tail' - Size
    BY <1>1, <1>2, <1>3
  <1>14. /\ journalCounters' \in [Locks -> Nat]
         /\ journalDecrementCounts' \in [Locks -> Nat]
         /\ \A l \in Locks : journalDecrementCounts'[l] <= journalCounters'[l]
    <2>1. /\ journalDecrementCounts'[lock] \in Nat
          /\ journalCounters'[lock] \in Nat
          /\ journalDecrementCounts'[lock] <= journalCounters'[lock]
      <3>1. journalDecrementCounts'[lock] \in Nat
        <4>1. journalDecrementCounts[lock] \in Nat
          BY <1>7 DEF TypeOK
        <4> QED
          BY <1>8, <4>1
      <3> QED
        BY <1>defs, <1>3, <1>12, <1>13, <3>1
    <2>2. /\ \E n : journalCounters' = [journalCounters EXCEPT ![lock] = n]
          /\ \E n : journalDecrementCounts' = [journalDecrementCounts EXCEPT ![lock] = n]
      BY Zenon DEF assignEntry, lock, sequence, full
    <2> QED
      BY <1>7, <1>8, <2>1, <2>2 DEF TypeOK, JournalCounted
  <1>15. TypeOK'
    <2>1. notifying' \in BOOLEAN
      BY DEF assignEntry, TypeOK
    <2>2. /\ entryCount' \in 0 .. EntriesPerBlock
          /\ open' \subseteq Nat /\ tail' \in Nat \ {0}
      BY <1>1, <1>2, <1>3 DEF TypeOK
    <2> QED
      BY <1>2, <1>5, <1>14, <2>1, <2>2, ZenonT(30) DEF TypeOK, history
  <1>16. ZonesCounted'
    BY <1>2, SameReferences, KeepCounted
  <1>17. JournalCounted'
    <2>1. ASSUME NEW s \in 1 .. tail' - 1, s >= tail' - Size
          PROVE  journalCounters'[LockOf(s)]
                   = journalDecrementCounts'[LockOf(s)] + JournalReferences(s)'
      <3>1. tail' \in Nat
        BY <1>3
      <3>2. s \in Nat \ {0} /\ s < tail'
        BY <3>1
      <3> QED
        BY <1>12, <2>1, <3>2
    <2> QED
      BY <1>14, <2>1, Zenon DEF JournalCounted
  <1>18. JournalInOrder'
    BY <1>1, <1>2, <1>3, <1>4, SMTT(30) DEF JournalInOrder, TypeOK
  <1>19. EntriesInOrder'
    BY <1>1, <1>2, <1>3, <1>5, <1>6, SMTT(30) DEF EntriesInOrder, TypeOK
  <1>20. ZonesInOrder'
    <2>1. \A z \in Zones : zpc[z].entry \in Nat /\ zpc[z].entry < tail
      BY DEF TypeOK, ZonesInOrder
    <2>2. tail \in Nat /\ tail' \in Nat /\ tail <= tail'
      BY <1>1, <1>3, Zenon
    <2>3. \A z \in Zones : zpc[z].entry < tail'
      BY <2>1, <2>2
    <2>4. zpc' = zpc
      BY <1>2, Zenon
    <2> QED
      BY <2>3, <2>4, Zenon DEF ZonesInOrder
  <1>21. LocksOldest'
    BY <1>2, <1>5 DEF LocksOldest, history
  <1>22. StaysUnlocked'
    BY <1>1, <1>2, <1>3, <1>9, <1>10 DEF StaysUnlocked, JournalInOrder, TypeOK
  <1>23. HeadsAreBehind'
    <2>1. \A type \in ZoneTypes : sequence >= reapHead[type]
      BY <1>1, <1>3 DEF JournalInOrder
    <2>2. \A w \in DataVIOs : vio'[w].state # "idle" =>
            \A type \in ZoneTypes : vio'[w].recoverySequenceNumber >= reapHead[type]
      BY <1>5, <1>6, <2>1 DEF HeadsAreBehind
    <2> QED
      BY <1>2, <2>2, Zenon DEF HeadsAreBehind
  <1> QED
    BY <1>15, <1>16, <1>17, <1>18, <1>19, <1>20, <1>21, <1>22, <1>23
=============================================================================
