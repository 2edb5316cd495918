----------------------------- MODULE MCUdsIndex -----------------------------
(***************************************************************************)
(* Instances of UdsIndex.  Two zones, two names in one and one in the      *)
(* other, chapters of two records per zone, a volume of three chapters.    *)
(***************************************************************************)
EXTENDS UdsIndex

MCZoneOf == [n \in Names |-> n % 2]

Empty == [p \in 0 .. 2 |-> Blank]

\* the first chapter is written, and holds one name of each zone
Begun == [Empty EXCEPT ![0] = [vcn |-> 0, names |-> {0, 1}]]

\* size chapters of which highest is the newest, written over and over from
\* the first slot; the bad chapters after it, at most half of the volume,
\* were torn by a crash
InSlot(size, highest, p) ==
    CHOOSE c \in highest - size + 1 .. highest : c % size = p

Written(size, highest, bad) ==
    [p \in 0 .. size - 1 |->
       IF InSlot(size, highest, p) < 0 \/ (p - highest - 1) % size < bad
       THEN Blank ELSE [vcn |-> InSlot(size, highest, p), names |-> {0}]]

Volumes == UNION {{Written(size, highest, bad) : highest \in 0 .. 2 * size,
                                                  bad \in 0 .. size \div 2}
                    : size \in 1 .. 9}

Scenario(frequency, lost, maxChapter, maxSaves, volumes) ==
    [frequency |-> frequency, save |-> FALSE, saveFrom |-> 0,
     remove |-> FALSE, lost |-> lost, maxChapter |-> maxChapter,
     maxSaves |-> maxSaves, volumes |-> volumes,
     start |-> IF Empty \in volumes THEN "up" ELSE "down"]

Checkpoints == Scenario(2, 0, 4, 2, {Empty})
Lossy       == Scenario(2, 1, 4, 2, {Begun})
Saves       == [Scenario(0, 0, 2, 2, {Begun}) EXCEPT !.save = TRUE]
SavesLossy  == [Scenario(0, 1, 3, 1, {Begun}) EXCEPT !.save = TRUE]
SavesRemove == [Scenario(0, 0, 1, 1, {Begun}) EXCEPT !.save = TRUE,
                                                     !.remove = TRUE]
\* a save that finds a checkpoint in progress
Interrupted == [Scenario(2, 0, 2, 2, {Begun}) EXCEPT !.save = TRUE,
                                                     !.saveFrom = 2]
Probes      == Scenario(0, 0, -1, 0, Volumes)

MCScenarios == {Checkpoints, Lossy, Saves, SavesLossy, SavesRemove,
                Interrupted, Probes}

\* a checkpoint starts at the end of the chapter whose beginning was saved
CheckpointAfterSave ==
    {[Scenario(3, 0, 3, 2, {Begun}) EXCEPT !.save = TRUE, !.saveFrom = 2]}
=============================================================================
