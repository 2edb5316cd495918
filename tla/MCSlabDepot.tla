----------------------------- MODULE MCSlabDepot -----------------------------
(* Depots of up to four slabs of two blocks in up to three zones.          *)
EXTENDS SlabDepot

Saved(free) == SlabSummaryEntry(FALSE, free, TRUE)
Dirty(free) == SlabSummaryEntry(TRUE, free, TRUE)

Base ==
  [slabCount |-> 3, zoneCount |-> 1, start |-> "clean", loads |-> <<1>>,
   written |-> {0, 1}, used |-> [s \in Slabs |-> IF s < 2 THEN 1 ELSE 0],
   entries |-> [s \in Slabs |-> IF s < 2 THEN Saved(1) ELSE DefaultEntry],
   touched |-> {}, corrupt |-> {}, full |-> {}, filling |-> {}, entriesIn |-> {},
   releases |-> FALSE, ops |-> 0, commits |-> 0, suspends |-> 0, crashes |-> 0,
   grow |-> {}, statistics |-> FALSE]

\* A clean load; blocks are allocated, shared, released and freed.
Allocating == [Base EXCEPT !.ops = 4, !.releases = TRUE, !.entriesIn = {0}, !.suspends = 1]

\* Two zones after a crash; writes wait for slabs to be scrubbed, and the
\* VDO may be suspended meanwhile.
AllDirty == [Base EXCEPT !.slabCount = 4, !.start = "dirty", !.loads = <<2>>,
             !.written = Slabs, !.used = [s \in Slabs |-> IF s = 1 THEN 1 ELSE 2],
             !.entries = [s \in Slabs |-> Dirty(1)], !.touched = {1}]
Recovering == [AllDirty EXCEPT !.ops = 2, !.suspends = 1]
OneZone == [Recovering EXCEPT !.loads = <<1>>]

\* A journal fills up while its slab is unrecovered.
Filling == [AllDirty EXCEPT !.ops = 2, !.filling = {0, 2}, !.entriesIn = {0, 2}, !.full = {1}]

\* A slab's journal is corrupt.
Corrupt == [AllDirty EXCEPT !.ops = 2, !.corrupt = {2}, !.suspends = 1]

\* A rebuilt VDO: no slab's journal has any entries.
Rebuilt == [Base EXCEPT !.start = "rebuild", !.ops = 3, !.entriesIn = {0, 1}]

\* A depot which grows while others read its statistics.
Formatted == [Base EXCEPT !.start = "new", !.slabCount = 2, !.loads = <<2>>, !.written = {},
              !.used = [s \in Slabs |-> 0], !.entries = [s \in Slabs |-> DefaultEntry],
              !.ops = 3, !.suspends = 1, !.releases = TRUE]
Growing == [Base EXCEPT !.slabCount = 2, !.loads = <<2>>,
            !.used = [s \in Slabs |-> IF s < 2 THEN 2 ELSE 0],
            !.entries = [s \in Slabs |-> IF s < 2 THEN Saved(0) ELSE DefaultEntry],
            !.ops = 2, !.suspends = 1, !.grow = {3, 4}, !.statistics = TRUE]

\* Loads with other numbers of zones, and crashes.
Rezoned == [Base EXCEPT !.slabCount = 4, !.zoneCount = 2, !.loads = <<3, 1, 2>>,
            !.written = Slabs, !.used = [s \in Slabs |-> 1],
            !.entries = [s \in Slabs |-> Saved(1)],
            !.entriesIn = {1, 3}, !.ops = 1, !.commits = 2, !.crashes = 2]

MCScenarios == {Allocating, Formatted, Recovering, OneZone, Filling, Corrupt, Rebuilt, Growing, Rezoned}

\* A suspension while a slab of high priority is still to be scrubbed.
Mislaid == [Filling EXCEPT !.suspends = 1, !.loads = <<1>>]
MCMislaid == {Mislaid}

\* A suspension of a rebuilt VDO after a slab's first journal entry.
Blank == [Rebuilt EXCEPT !.suspends = 1]
====
