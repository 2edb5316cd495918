---------------------------- MODULE MasterIndex ----------------------------
(***************************************************************************)
(* One zone of the UDS master index: uds/masterIndex005.c on the delta     *)
(* lists of uds/deltaIndex.c, with the incremental saving of               *)
(* uds/deltaMemory.c and the index of sampled names of uds/masterIndex006.c*)
(* which shares its delta lists between a zone and the triage thread.      *)
(*                                                                         *)
(* The zone thread searches a name (GetRecord), which leaves it a cursor,  *)
(* and then puts, sets or removes the record; the triage thread may look   *)
(* names up between the two calls.  Chapters are stored modulo             *)
(* chapterMask + 1 and a record that has left the window of indexed        *)
(* chapters stays until its delta list is searched again.                  *)
(***************************************************************************)
EXTENDS DeltaList, FiniteSets

CONSTANTS
    Names, Lists,
    ListOf, KeyOf,     \* the delta list number and the address in a name
    NoRecord,          \* the zone thread holds no MasterIndexRecord
    NoImage,           \* nothing is saved
    Scenarios          \* see MCMasterIndex

VARIABLES
    scenario,
    lists,             \* the entries of each delta list
    remembered,        \* saveKey and saveOffset of each delta list
    flushChapters,     \* the first chapter to be flushed, by list
    virtualChapterLow, virtualChapterHigh,
    record,            \* the MasterIndexRecord of the zone thread
    unsaved,           \* lists flagged as not yet written by the save
    image,             \* what the save in progress has written
    savedImage         \* the last completed save

indexVars == <<lists, remembered, flushChapters, virtualChapterLow,
               virtualChapterHigh>>
saveVars == <<unsaved, image, savedImage>>
vars == <<scenario, indexVars, record, saveVars>>

ASSUME Names # {} /\ Lists # {} /\ DOMAIN ListOf = Names /\ DOMAIN KeyOf = Names

(***************************************************************************)
(* computeMasterIndexParameters005 and makeMasterIndex005: index chapters  *)
(* take enough bits for the number of chapters.                            *)
(***************************************************************************)
numChapters == scenario.numChapters
chapterMask == 2 ^ ComputeBits(numChapters - 1) - 1
Masked(c) == c % (chapterMask + 1)

Start == [key |-> 0, pos |-> 1]

Init ==
    /\ scenario \in Scenarios
    /\ lists = [l \in Lists |-> <<>>]
    /\ remembered = [l \in Lists |-> Start]
    /\ flushChapters = [l \in Lists |-> 0]
    /\ virtualChapterLow = 0 /\ virtualChapterHigh = 0
    /\ record = NoRecord
    /\ unsaved = {} /\ image = NoImage /\ savedImage = NoImage

convertIndexToVirtual(low, indexChapter) == low + Masked(indexChapter - low)
convertVirtualToIndex(virtualChapter) == Masked(virtualChapter)

(***************************************************************************)
(* flushInvalidEntries: advance the cursor of search s to the next entry   *)
(* outside the range of chapters to flush, removing those in it.           *)
(***************************************************************************)
Removed(s, r) ==
    [s EXCEPT !.list = r.list, !.entry = r.entry, !.remembered = r.remembered]

RECURSIVE DropFlushed(_, _)
DropFlushed(s, range) ==
    LET relative == Masked(s.list[s.entry.pos].value - range.start)
    IN IF s.entry.atEnd THEN s
       ELSE IF relative >= range.count
       THEN [s EXCEPT !.next = IF relative < @ THEN relative ELSE @]
       ELSE DropFlushed(Removed(s, removeDeltaIndexEntry(s.list, s.remembered,
                                                         s.entry)),
                        range)

flushInvalidEntries(s, range) ==
    DropFlushed([s EXCEPT !.entry = nextDeltaIndexEntry(s.list, @)], range)

(***************************************************************************)
(* getMasterIndexEntry: find an entry from the start of its list and flush *)
(* the whole list on the way.  The search first passes the entries below   *)
(* the key, then looks for the name among the collisions, then only        *)
(* flushes.                                                                *)
(***************************************************************************)
Advanced(s, key, name) ==
    CASE s.mode = "below" /\ ~s.entry.atEnd /\ key > s.entry.key -> s
      [] s.mode = "below" /\ (s.entry.atEnd \/ key <= s.entry.key) ->
           [s EXCEPT !.remembered = rememberDeltaIndexOffset(s.entry),
                     !.found = s.entry,
                     !.mode = IF ~s.entry.atEnd /\ key = s.entry.key
                              THEN "match" ELSE "rest"]
      [] s.mode = "match" /\ (s.entry.atEnd \/ ~s.entry.collision) ->
           [s EXCEPT !.mode = "rest"]
      [] s.mode = "match" /\ ~s.entry.atEnd /\ s.entry.collision
           /\ s.list[s.entry.pos].name = name ->
           [s EXCEPT !.found = s.entry, !.mode = "rest"]
      [] OTHER -> s

RECURSIVE Walk(_, _, _, _)
Walk(s, range, key, name) ==
    IF s.entry.atEnd THEN s
    ELSE Walk(Advanced(flushInvalidEntries(s, range), key, name),
              range, key, name)

getMasterIndexEntry(list, saved, key, name, range) ==
    Walk([list |-> list, remembered |-> saved, next |-> chapterMask,
          entry |-> startDeltaIndexSearch(Start, 0), found |-> NoRecord,
          mode |-> "below"],
         range, key, name)

\* Mutant: a list is not written before it changes.
neverFlushDeltaList(l) == UNCHANGED <<unsaved, image>>

(***************************************************************************)
(* lazyFlushDeltaList: a list the save has not written yet is written      *)
(* before it is searched by its zone, whatever the search will do.         *)
(***************************************************************************)
flushDeltaList(l) == [image EXCEPT !.lists[l] = lists[l]]

lazyFlushDeltaList(l) ==
    /\ unsaved' = unsaved \ {l}
    /\ image' = IF l \in unsaved THEN flushDeltaList(l) ELSE image

(***************************************************************************)
(* getMasterIndexRecord_005, and _006 which holds the lock meanwhile.      *)
(***************************************************************************)
FlushRange(l) ==
    [start |-> convertVirtualToIndex(flushChapters[l]),
     count |-> IF virtualChapterLow - flushChapters[l] > chapterMask
               THEN chapterMask + 1 ELSE virtualChapterLow - flushChapters[l]]

FlushedUpTo(next, range) ==
    Min({convertIndexToVirtual(virtualChapterLow, Masked(next + range.start)),
         virtualChapterHigh})

NewRecord(n, entry, list) ==
    LET found == ~entry.atEnd /\ entry.key = KeyOf[n]
    IN [name |-> n, entry |-> entry, isFound |-> found,
        virtualChapter |->
          IF found THEN convertIndexToVirtual(virtualChapterLow,
                                              list[entry.pos].value)
          ELSE 0]

FlushingSearch(n, l, range) ==
    \E s \in {getMasterIndexEntry(lists[l], remembered[l], KeyOf[n], n, range)} :
      /\ lists' = [lists EXCEPT ![l] = s.list]
      /\ remembered' = [remembered EXCEPT ![l] = s.remembered]
      /\ flushChapters' = [flushChapters EXCEPT ![l] = FlushedUpTo(s.next, range)]
      /\ record' = NewRecord(n, s.found, s.list)

PlainSearch(n, l) ==
    \E s \in {getDeltaIndexEntry(lists[l], remembered[l], KeyOf[n], n)} :
      /\ remembered' = [remembered EXCEPT ![l] = s.remembered]
      /\ record' = NewRecord(n, s.entry, lists[l])
      /\ UNCHANGED <<lists, flushChapters>>

GetMasterIndexRecord(n) ==
    LET l == ListOf[n]
    IN /\ record = NoRecord
       /\ lazyFlushDeltaList(l)
       /\ IF flushChapters[l] < virtualChapterLow
          THEN FlushingSearch(n, l, FlushRange(l)) ELSE PlainSearch(n, l)
       /\ UNCHANGED <<scenario, virtualChapterLow, virtualChapterHigh, savedImage>>

GetRecordLocked(n) == n \in scenario.names /\ GetMasterIndexRecord(n)

(***************************************************************************)
(* putMasterIndexRecord into the open chapter; a full delta list drops the *)
(* record (UDS_OVERFLOW).                                                  *)
(***************************************************************************)
PutMasterIndexRecord ==
    LET l == ListOf[record.name]
        p == putDeltaIndexEntry(lists[l], remembered[l], record.entry,
                                KeyOf[record.name],
                                convertVirtualToIndex(virtualChapterHigh),
                                IF record.isFound THEN record.name ELSE NoName)
    IN /\ record # NoRecord
       /\ lists' = [lists EXCEPT ![l] = p.list]
       /\ remembered' = [remembered EXCEPT ![l] = p.remembered]
       /\ record' = NoRecord
       /\ UNCHANGED <<scenario, flushChapters, virtualChapterLow,
                      virtualChapterHigh, saveVars>>

(***************************************************************************)
(* setMasterIndexRecordChapter to the open chapter.                        *)
(***************************************************************************)
SetMasterIndexRecordChapter ==
    /\ record # NoRecord
    /\ record.isFound
    /\ lists' = [lists EXCEPT ![ListOf[record.name]] =
                   setDeltaEntryValue(@, record.entry,
                                      convertVirtualToIndex(virtualChapterHigh))]
    /\ record' = NoRecord
    /\ UNCHANGED <<scenario, remembered, flushChapters, virtualChapterLow,
                   virtualChapterHigh, saveVars>>

RemoveMasterIndexRecord ==
    LET l == ListOf[record.name]
        r == removeDeltaIndexEntry(lists[l], remembered[l], record.entry)
    IN /\ record # NoRecord
       /\ record.isFound
       /\ lists' = [lists EXCEPT ![l] = r.list]
       /\ remembered' = [remembered EXCEPT ![l] = r.remembered]
       /\ record' = NoRecord
       /\ UNCHANGED <<scenario, flushChapters, virtualChapterLow,
                      virtualChapterHigh, saveVars>>

(***************************************************************************)
(* The caller leaves the record as it is (a query without update).         *)
(***************************************************************************)
LeaveRecord ==
    /\ record # NoRecord
    /\ record' = NoRecord
    /\ UNCHANGED <<scenario, indexVars, saveVars>>

(***************************************************************************)
(* lookupMasterIndexSampledName_005: the triage thread's lookup changes    *)
(* nothing but where the next search of the list starts.                   *)
(***************************************************************************)
lookupMasterIndexSampledName(n) ==
    LET l == ListOf[n]
    IN /\ remembered' =
            [remembered EXCEPT ![l] =
               getDeltaIndexEntry(lists[l], @, KeyOf[n], n).remembered]
       /\ UNCHANGED <<scenario, lists, flushChapters, virtualChapterLow,
                      virtualChapterHigh, record, saveVars>>

LookupMasterIndexName(n) == scenario.lookups /\ lookupMasterIndexSampledName(n)

(***************************************************************************)
(* removeNewestChapters: v and later chapters, by renumbering them as the  *)
(* oldest ones, or by searching every list when v is too small for that.   *)
(***************************************************************************)
SlowlyRemoved(l, v) ==
    getMasterIndexEntry(lists[l], remembered[l], 0, NoName,
                        [start |-> convertVirtualToIndex(v),
                         count |-> chapterMask + 1 - (v - virtualChapterLow)])

removeNewestChapters(v) ==
    IF v > chapterMask
    THEN /\ flushChapters' = [l \in Lists |->
                                Min({flushChapters[l], v - (chapterMask + 1)})]
         /\ UNCHANGED <<lists, remembered>>
    ELSE \E s \in {[l \in Lists |-> SlowlyRemoved(l, v)]} :
           /\ lists' = [l \in Lists |-> s[l].list]
           /\ remembered' = [l \in Lists |-> s[l].remembered]
           /\ UNCHANGED flushChapters

(***************************************************************************)
(* The last part of setMasterIndexZoneOpenChapter_005: chapters expire     *)
(* early when the lists have grown too large.                              *)
(***************************************************************************)
ExpiredLow(low, high, newLists) ==
    LET used  == MapThenSumSet(LAMBDA l : BitsOf(newLists[l]), Lists)
        count == 1 + (used - scenario.maxZoneBits) \div scenario.chapterZoneBits
    IN IF low < high /\ used > scenario.maxZoneBits
       THEN IF count = 1 THEN low + 1
            ELSE IF low + count < high THEN low + count ELSE high
       ELSE low

(***************************************************************************)
(* setMasterIndexZoneOpenChapter_005.                                      *)
(***************************************************************************)
emptyDeltaLists == [l \in Lists |-> <<>>]

EmptyZone ==
    /\ lists' = emptyDeltaLists
    /\ remembered' = [l \in Lists |-> Start]
    /\ UNCHANGED flushChapters

SetOpenChapter(v) ==
    LET low == virtualChapterLow
        high == virtualChapterHigh
        newLow == IF v >= numChapters THEN v - numChapters + 1 ELSE 0
    IN /\ IF v <= low THEN EmptyZone
          ELSE IF v <= high THEN removeNewestChapters(v)
          ELSE UNCHANGED <<lists, remembered, flushChapters>>
       /\ virtualChapterHigh' = v
       /\ virtualChapterLow' =
            ExpiredLow(IF v <= low THEN v
                       ELSE IF v <= high \/ newLow < low THEN low
                       ELSE IF newLow <= high THEN newLow
                       ELSE v,
                       v, lists')
       /\ UNCHANGED <<scenario, record, saveVars>>

(***************************************************************************)
(* The next chapter is opened in normal operation; any other chapter only  *)
(* by a replay, when no save is in progress.                               *)
(***************************************************************************)
OpenNextChapter ==
    /\ record = NoRecord
    /\ virtualChapterHigh < scenario.maxChapter
    /\ SetOpenChapter(virtualChapterHigh + 1)

ReplayFrom(v) ==
    /\ record = NoRecord
    /\ image = NoImage
    /\ scenario.moves # "next"
    /\ scenario.moves = "window" =>
         v > virtualChapterLow /\ (v <= chapterMask => virtualChapterLow = 0)
    /\ SetOpenChapter(v)

(***************************************************************************)
(* startSavingMasterIndex_005 and startSavingDeltaIndex: the header and    *)
(* the flush chapters are written, non-empty lists are flagged.            *)
(* A behaviour completes at most one save.                                 *)
(***************************************************************************)
flagNonEmptyDeltaLists == {l \in Lists : lists[l] # <<>>}

HeaderWritten ==
    [low |-> virtualChapterLow, high |-> virtualChapterHigh,
     flush |-> flushChapters, lists |-> emptyDeltaLists]

StartSavingMasterIndex ==
    /\ record = NoRecord
    /\ image = NoImage
    /\ virtualChapterHigh \in scenario.saves /\ savedImage = NoImage
    /\ unsaved' = flagNonEmptyDeltaLists
    /\ image' = HeaderWritten
    /\ UNCHANGED <<scenario, indexVars, record, savedImage>>

(***************************************************************************)
(* finishSavingMasterIndex: write every list that is still flagged.        *)
(***************************************************************************)
finishSavingDeltaMemory ==
    [image EXCEPT !.lists = [l \in Lists |-> IF l \in unsaved THEN lists[l]
                                            ELSE image.lists[l]]]

FinishSavingMasterIndex ==
    /\ record = NoRecord
    /\ image # NoImage
    /\ savedImage' = finishSavingDeltaMemory
    /\ image' = NoImage
    /\ unsaved' = {}
    /\ UNCHANGED <<scenario, indexVars, record>>

AbortSavingMasterIndex ==
    /\ record = NoRecord
    /\ image # NoImage
    /\ image' = NoImage
    /\ unsaved' = {}
    /\ UNCHANGED <<scenario, indexVars, record, savedImage>>

(***************************************************************************)
(* A restart, and restoreMasterIndex from the last save.                   *)
(***************************************************************************)
restoreMasterIndexBody ==
    /\ lists' = savedImage.lists
    /\ remembered' = [l \in Lists |-> Start]

startRestoringMasterIndex ==
    /\ flushChapters' = savedImage.flush
    /\ virtualChapterLow' = savedImage.low
    /\ virtualChapterHigh' = savedImage.high

RestoreMasterIndex ==
    /\ savedImage # NoImage
    /\ startRestoringMasterIndex
    /\ restoreMasterIndexBody
    /\ record' = NoRecord
    /\ image' = NoImage
    /\ unsaved' = {}
    /\ UNCHANGED <<scenario, savedImage>>

Next ==
    \/ \E n \in Names : GetRecordLocked(n) \/ LookupMasterIndexName(n)
    \/ PutMasterIndexRecord
    \/ SetMasterIndexRecordChapter
    \/ RemoveMasterIndexRecord
    \/ LeaveRecord
    \/ OpenNextChapter
    \/ \E v \in 0 .. scenario.maxChapter : ReplayFrom(v)
    \/ StartSavingMasterIndex
    \/ FinishSavingMasterIndex
    \/ AbortSavingMasterIndex
    \/ RestoreMasterIndex

Spec == Init /\ [][Next]_vars

-----------------------------------------------------------------------------
(***************************************************************************)
(* The refinement mapping.  The records of a delta list are its entries    *)
(* with their absolute addresses, without those the next search would      *)
(* flush, and with the chapters that search would report.                  *)
(***************************************************************************)
Entries(list, low, flush, key) ==
    LET live(i) == /\ KeyAt(list, i) = key
                   /\ flush < low =>
                        Masked(list[i].value - flush) >= low - flush
        kept == SelectSeq([i \in 1 .. Len(list) |-> i], live)
    IN [j \in 1 .. Len(kept) |->
          [chapter |-> convertIndexToVirtual(low, list[kept[j]].value),
           name |-> IF j = 1 THEN NoName ELSE list[kept[j]].name]]

Address == [n \in Names |-> <<ListOf[n], KeyOf[n]>>]

Records(low, flush, ls) ==
    [a \in {Address[n] : n \in Names} |->
       Entries(ls[a[1]], low, flush[a[1]], a[2])]

ImageContent(i, ls) == <<i.low, i.high, Records(i.low, i.flush, ls)>>

Abstract == INSTANCE MasterIndexMap WITH
    low <- virtualChapterLow, high <- virtualChapterHigh,
    records <- Records(virtualChapterLow, flushChapters, lists),
    pending <- IF image = NoImage THEN NoImage
               ELSE ImageContent(image, [l \in Lists |->
                      IF l \in unsaved THEN lists[l] ELSE image.lists[l]]),
    saved <- IF savedImage = NoImage THEN NoImage
             ELSE ImageContent(savedImage, savedImage.lists)

(***************************************************************************)
(* The master index implements MasterIndexMap: whatever is flushed lazily, *)
(* renumbered or written piecemeal, its users see records leave with their *)
(* chapters, and a restored index is the one at the start of the save.     *)
(***************************************************************************)
ImplementsMap == Abstract!MapSpec

(***************************************************************************)
(* Every remembered search position is the start of an entry that is no    *)
(* collision (or the end of the list), with the key before it: a search    *)
(* resumed from it decodes entries, whatever was inserted and removed      *)
(* since, by whichever thread (rememberDeltaIndexOffset's users).          *)
(***************************************************************************)
SearchesStartAtEntries ==
    \A l \in Lists :
      LET p == remembered[l].pos
      IN /\ p <= Len(lists[l]) + 1
         /\ remembered[l].key = KeyAt(lists[l], p - 1)
         /\ p <= Len(lists[l]) => ~IsCollision(lists[l], p)

(***************************************************************************)
(* A record the zone thread holds is in the window and has the name's      *)
(* address, even if the triage thread has looked up other names since.     *)
(* Lists stay within their size; each delta is decoded as it was encoded,  *)
(* in as many bits as setDelta made room for.                              *)
(***************************************************************************)
RecordsAreInTheWindow ==
    /\ \A l \in Lists :
         /\ BitsOf(lists[l]) <= MaxListBits
         /\ \A i \in 1 .. Len(lists[l]) :
              LET code == EncodeDelta(lists[l][i].delta)
              IN /\ DecodeDelta(code) = lists[l][i].delta
                 /\ code.bits + ValueBits = EntryBits(lists[l][i].delta, FALSE)
    /\ record # NoRecord /\ record.isFound =>
         /\ record.virtualChapter \in virtualChapterLow .. virtualChapterHigh
         /\ KeyAt(lists[ListOf[record.name]], record.entry.pos) = KeyOf[record.name]
=============================================================================
