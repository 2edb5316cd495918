--------------------------- MODULE MCMasterIndex ---------------------------
(***************************************************************************)
(* Instances of MasterIndex.  n1 and n2 have the same address, n3 a larger *)
(* one in the same delta list, n4 another list.                            *)
(***************************************************************************)
EXTENDS MasterIndex, TLC

CONSTANTS n1, n2, n3, n4

MCNames == {n1, n2, n3, n4}
MCListOf == (n1 :> 0) @@ (n2 :> 0) @@ (n3 :> 0) @@ (n4 :> 1)
MCKeyOf == (n1 :> 12) @@ (n2 :> 12) @@ (n3 :> 40) @@ (n4 :> 3)

Base == [names |-> {n1, n2}, numChapters |-> 2, maxChapter |-> 3,
         moves |-> "next", lookups |-> FALSE, saves |-> {},
         maxZoneBits |-> 100000, chapterZoneBits |-> 12]

Modular == [Base EXCEPT !.numChapters = 3, !.maxChapter = 7]
Three   == [Base EXCEPT !.names = {n1, n2, n3}, !.lookups = TRUE]
Early   == [Base EXCEPT !.names = {n1, n2, n3}, !.numChapters = 3, !.maxChapter = 4,
                        !.maxZoneBits = 25]
Saving  == [Base EXCEPT !.names = {n1, n4}, !.saves = {1}, !.maxChapter = 2]
Replay  == [Base EXCEPT !.names = {n1, n2, n3}, !.moves = "window", !.maxChapter = 4]
Rebuild == [Base EXCEPT !.moves = "any"]

MCScenarios == {Modular, Three, Early, Saving, Replay}
=============================================================================
