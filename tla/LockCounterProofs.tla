-------------------------- MODULE LockCounterProofs -------------------------
(***************************************************************************)
(* The lock counter of the recovery journal is safe for any number of      *)
(* zones, pages, slab journal blocks and DataVIOs and any size of the      *)
(* journal.                                                                *)
(***************************************************************************)
EXTENDS LockCounterZones, FiniteSetTheorems

\* The library's theorems give the facts on finite sets.
LEMMA SetFactsHold ==
  SetFacts
  <1>1. IsFiniteSet({}) /\ \A S : IsFiniteSet(S) => (Cardinality(S) = 0 <=> S = {})
    BY FS_EmptySet
  <1>2. \A S : IsFiniteSet(S) => Cardinality(S) \in Nat
    BY FS_CardinalityType
  <1>3. \A S, T : IsFiniteSet(S) /\ T \in SUBSET S => IsFiniteSet(T)
    BY FS_Subset
  <1>4. \A S, T : IsFiniteSet(S) /\ IsFiniteSet(T) => IsFiniteSet(S \cup T)
    BY FS_Union, ZenonT(30)
  <1>5. \A S, x : IsFiniteSet(S) /\ x \notin S => Cardinality(S \cup {x}) = Cardinality(S) + 1
    BY FS_AddElement
  <1>6. \A S, x : IsFiniteSet(S) /\ x \in S => Cardinality(S) = Cardinality(S \ {x}) + 1
    <2>1. \A S, x : IsFiniteSet(S) /\ x \in S =>
            IsFiniteSet(S \ {x}) /\ Cardinality(S \ {x}) = Cardinality(S) - 1
      BY FS_RemoveElement
    <2> QED
      BY <1>2, <2>1
  <1> QED
    BY <1>1, <1>2, <1>3, <1>4, <1>5, <1>6 DEF SetFacts

\* For any number of zones, pages, slab journal blocks and writers, and a
\* journal of any size: isLocked() may read the journal's count and the zones'
\* count of a block at different times without locks, and yet no reap head ever
\* passes a block which a page, a slab journal block or an entry on its way to
\* the block map still needs (NothingNeededIsReaped), and no count is ever taken
\* below zero or counts a zone which holds nothing (LocksAreExact).
THEOREM LockCounterSafe ==
  ASSUME LockCounterConstants
  PROVE  Spec => [](TypeOK /\ LocksAreExact /\ NothingNeededIsReaped)
  <1>1. Init => LockCounterInv
    BY SetFactsHold, LockCounterInit
  <1>2. LockCounterInv /\ [Next]_vars => LockCounterInv'
    BY SetFactsHold, LockCounterStep
  <1>3. LockCounterInv => TypeOK /\ LocksAreExact /\ NothingNeededIsReaped
    BY SetFactsHold, InvImpliesExact, InvImpliesNothingReaped DEF LockCounterInv
  <1> QED
    BY <1>1, <1>2, <1>3, PTL DEF Spec

\* Under the same assumptions a reap head moves one block at a time, and only
\* over a block whose write is acknowledged and which nothing needs any more.
THEOREM LockCounterReaps ==
  ASSUME LockCounterConstants PROVE Spec => ReapsOnlyUnneeded
  <1> DEFINE Reaps == \A type \in ZoneTypes :
               \/ reapHead'[type] = reapHead[type]
               \/ /\ reapHead'[type] = reapHead[type] + 1
                  /\ reapHead[type] < lastWriteAcknowledged
                  /\ reapHead[type] \notin NeededBy(type)
  <1>1. Init => LockCounterInv
    BY SetFactsHold, LockCounterInit
  <1>2. LockCounterInv /\ [Next]_vars => LockCounterInv'
    BY SetFactsHold, LockCounterStep
  <1>3. LockCounterInv => NothingNeededIsReaped
    BY InvImpliesNothingReaped
  <1>4. ASSUME LockCounterInv, NothingNeededIsReaped', [Next]_vars PROVE [Reaps]_vars
    <2>1. CASE ~ReadZoneCount
      <3>1. reapHead' = reapHead
        BY <1>4, <2>1, ZenonT(30) DEF Next, vars, journalVars, AssignIncrement, AssignDecrement,
           assignEntry, SkipSlabJournal, MakeSlabJournalEntry, UpdateBlockMapPage,
           CompleteWrite, ReapCallback, ReadJournalCount, Release, Notify, ReleaseEntry,
           WritePage, CloseSlabBlock, ReleaseSlabBlock
      <3> QED
        BY <3>1, SMTT(30)
    <2>2. CASE ReadZoneCount
      <3> DEFINE head == reapHead[jpc.type]
      <3>1. /\ reapHead \in [ZoneTypes -> Nat \ {0}] /\ jpc.type \in ZoneTypes
            /\ head < lastWriteAcknowledged
        BY <1>4, <2>2 DEF LockCounterInv, TypeOK, StaysUnlocked, ReadZoneCount
      <3>2. \A type \in ZoneTypes : NeededBy(type)' = NeededBy(type)
        <4>1. UNCHANGED <<open, vio, zpc, pageEntries, slabEntries>>
          BY <2>2 DEF ReadZoneCount, history
        <4> QED
          BY <4>1, ZenonT(30) DEF NeededBy
      <3>3. CASE reapHead' = [reapHead EXCEPT ![jpc.type] = @ + 1]
        <4>1. reapHead'[jpc.type] = head + 1 /\ head \in Nat \ {0}
          BY <3>1, <3>3
        <4>2. \A s \in NeededBy(jpc.type) : s # 0 => s >= head + 1
          BY <1>4, <3>1, <3>2, <4>1 DEF NothingNeededIsReaped
        <4>3. head \notin NeededBy(jpc.type)
          BY <4>1, <4>2
        <4> QED
          BY <3>1, <3>3, <4>1, <4>3
      <3>4. CASE reapHead' = reapHead
        BY <3>4
      <3> QED
        BY <2>2, <3>3, <3>4 DEF ReadZoneCount
    <2> QED
      BY <2>1, <2>2
  <1> QED
    BY <1>1, <1>2, <1>3, <1>4, PTL DEF Spec, ReapsOnlyUnneeded
=============================================================================
