----------------------------- MODULE DirtyLists -----------------------------
(***************************************************************************)
(* Dirty lists (dirtyLists.c): dirty pages of a block map zone, kept by    *)
(* the recovery journal block (the period) which holds their oldest        *)
(* update, so that the pages of a period are written before the journal    *)
(* needs that block again. The page cache and the tree of a zone each      *)
(* have one.                                                               *)
(*                                                                         *)
(* A DirtyLists is a record; an element is on at most one list. The        *)
(* callback on expired elements belongs to the owner: the operators here   *)
(* leave them on the expired list, and the owner takes them off it.        *)
(***************************************************************************)
EXTENDS Integers, Sequences

CONSTANT maximumAge

Without(list, node) == SelectSeq(list, LAMBDA n : n # node)

\* The lists are one sequence of elements, each with the offset of its list.
makeDirtyLists ==
    [oldestPeriod |-> 0, nextPeriod |-> 0, offset |-> 0, expired |-> <<>>,
     elements |-> <<>>]

OnList(d, offset) == SelectSeq(d.elements, LAMBDA e : e.offset = offset)

setCurrentPeriod(d, period) ==
    [d EXCEPT !.oldestPeriod = period, !.nextPeriod = period + 1,
              !.offset = period % maximumAge]

\* The node of an element leaves whatever list it is on (unspliceRingNode).
unsplice(d, node) ==
    [d EXCEPT !.expired = Without(@, node),
              !.elements = SelectSeq(@, LAMBDA e : e.node # node)]

RECURSIVE nodes(_)
nodes(elements) ==
    IF elements = <<>> THEN <<>>
    ELSE <<Head(elements).node>> \o nodes(Tail(elements))

expireOldestList(d) ==
    [d EXCEPT !.oldestPeriod = @ + 1,
              !.expired = @ \o nodes(OnList(d, d.offset)),
              !.elements = SelectSeq(@, LAMBDA e : e.offset # d.offset),
              !.offset = IF @ + 1 = maximumAge THEN 0 ELSE @ + 1]

RECURSIVE updatePeriod(_, _)
updatePeriod(d, period) ==
    IF d.nextPeriod > period THEN d
    ELSE updatePeriod(
           [(IF d.nextPeriod - d.oldestPeriod = maximumAge
             THEN expireOldestList(d) ELSE d) EXCEPT !.nextPeriod = @ + 1],
           period)

push(d, newPeriod, node) ==
    [d EXCEPT !.elements = Append(@, [offset |-> newPeriod % maximumAge,
                                      node |-> node])]

\* An element whose oldest update does not get older stays where it is.
addToDirtyLists(d, node, oldPeriod, newPeriod) ==
    IF oldPeriod = newPeriod \/ (oldPeriod # 0 /\ oldPeriod < newPeriod) THEN d
    ELSE IF newPeriod < d.oldestPeriod
         THEN [unsplice(d, node) EXCEPT !.expired = Append(@, node)]
         ELSE push(updatePeriod(unsplice(d, node), newPeriod), newPeriod, node)

advancePeriod(d, period) == updatePeriod(d, period)

RECURSIVE flushDirtyLists(_)
flushDirtyLists(d) ==
    IF d.oldestPeriod < d.nextPeriod
    THEN flushDirtyLists(expireOldestList(d)) ELSE d
=============================================================================
