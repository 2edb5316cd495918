------------------------------ MODULE UdsVolume ------------------------------
(***************************************************************************)
(* The volume of the UDS index (uds/volume.c, uds/geometry.c): a circular  *)
(* array of chapters, and the search for its oldest and newest chapter     *)
(* with which an index that was not shut down cleanly starts.  A slot      *)
(* holds the number of the virtual chapter written there last and the      *)
(* names recorded in it; a slot that was never written, or whose write was *)
(* torn by a crash, has the number Corrupt.  UINT64_MAX, which the search  *)
(* uses for the number of a bad chapter, is BadVCN.                        *)
(***************************************************************************)
EXTENDS Integers, FiniteSets

CONSTANTS
    MAX_BAD_CHAPTERS,    \* how many bad chapters the search passes over
    BadVCN               \* a number above every chapter number

Corrupt == -1

ASSUME VolumeAssumption ==
    /\ MAX_BAD_CHAPTERS \in Nat \ {0}
    /\ BadVCN \in Nat \ {0}

Blank == [vcn |-> Corrupt, names |-> {}]

chaptersPerVolume(volume) == Cardinality(DOMAIN volume)

mapToPhysicalChapter(volume, vcn) == vcn % chaptersPerVolume(volume)

areSamePhysicalChapter(volume, chapter1, chapter2) ==
    mapToPhysicalChapter(volume, chapter1) = mapToPhysicalChapter(volume, chapter2)

(***************************************************************************)
(* Probing a chapter reads its index pages: Corrupt unless they all agree  *)
(* on a chapter number that belongs into this slot.                        *)
(***************************************************************************)
probeChapter(volume, chapter) ==
    IF /\ volume[chapter].vcn # Corrupt
       /\ mapToPhysicalChapter(volume, volume[chapter].vcn) = chapter
    THEN volume[chapter].vcn
    ELSE Corrupt

probeWrapper(volume, chapter) ==
    IF probeChapter(volume, chapter) = Corrupt
    THEN BadVCN
    ELSE volume[chapter].vcn

(***************************************************************************)
(* The end of the volume: steps back over corrupt chapters with a growing  *)
(* span, and with a shrinking one once a good chapter was met.             *)
(***************************************************************************)
RECURSIVE SeekEnd(_, _, _, _)
SeekEnd(volume, limit, span, tries) ==
    IF limit = 0 THEN 0
    ELSE LET chapter == IF span > limit THEN 0 ELSE limit - span
         IN IF probeChapter(volume, chapter) # Corrupt
            THEN IF span = 1 THEN limit
                 ELSE SeekEnd(volume, limit, span \div 2, 0)
            ELSE SeekEnd(volume, chapter,
                         IF tries >= 1 THEN span * 2 ELSE span, tries + 1)

findRealEndOfVolume(volume, limit) == SeekEnd(volume, limit, 1, 0)

(***************************************************************************)
(* The binary search for the first chapter that is older than the one in   *)
(* slot 0, and the scan backwards over bad chapters to the newest one.     *)
(***************************************************************************)
RECURSIVE SeekLowest(_, _, _, _)
SeekLowest(volume, firstVCN, leftChapter, rightChapter) ==
    IF leftChapter >= rightChapter THEN leftChapter
    ELSE LET chapter == (leftChapter + rightChapter) \div 2
         IN IF firstVCN <= probeWrapper(volume, chapter)
            THEN SeekLowest(volume, firstVCN, chapter + 1, rightChapter)
            ELSE SeekLowest(volume, firstVCN, leftChapter, chapter)

RECURSIVE SeekHighest(_, _, _, _)
SeekHighest(volume, chapterLimit, rightChapter, badChapters) ==
    LET chapter == (rightChapter + chapterLimit - 1) % chapterLimit
    IN IF probeWrapper(volume, chapter) # BadVCN THEN volume[chapter].vcn
       ELSE IF badChapters + 1 >= MAX_BAD_CHAPTERS THEN BadVCN
       ELSE SeekHighest(volume, chapterLimit, chapter, badChapters + 1)

Boundaries(lowest, highest, isEmpty, ok) ==
    [lowest |-> lowest, highest |-> highest, isEmpty |-> isEmpty, ok |-> ok]

BoundariesFrom(volume, chapterLimit, leftChapter) ==
    LET highest == SeekHighest(volume, chapterLimit, leftChapter, 0)
    IN IF probeWrapper(volume, leftChapter) = BadVCN \/ highest = BadVCN
       THEN Boundaries(0, 0, FALSE, FALSE)
       ELSE Boundaries(volume[leftChapter].vcn, highest, FALSE, TRUE)

findVolumeChapterBoundariesImpl(volume, chapterLimit) ==
    BoundariesFrom(volume, chapterLimit,
                   SeekLowest(volume, probeWrapper(volume, 0), 0, chapterLimit)
                     % chapterLimit)

findVolumeChapterBoundaries(volume) ==
    LET chapterLimit == findRealEndOfVolume(volume, chaptersPerVolume(volume))
    IN IF chapterLimit = 0 THEN Boundaries(0, 0, TRUE, TRUE)
       ELSE findVolumeChapterBoundariesImpl(volume, chapterLimit)

-----------------------------------------------------------------------------
(***************************************************************************)
(* What the search is for, by looking at every slot.                       *)
(***************************************************************************)
GoodChapters(volume) ==
    {volume[p].vcn : p \in {p \in DOMAIN volume :
                              probeChapter(volume, p) # Corrupt}}

ReferenceBoundaries(volume) ==
    LET good == GoodChapters(volume)
    IN IF good = {} THEN Boundaries(0, 0, TRUE, TRUE)
       ELSE Boundaries(CHOOSE c \in good : \A d \in good : c <= d,
                       CHOOSE c \in good : \A d \in good : d <= c, FALSE, TRUE)
=============================================================================
