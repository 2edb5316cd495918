--------------------------- MODULE MasterIndexMap ---------------------------
(***************************************************************************)
(* What the master index of uds/masterIndex005.c promises, without the     *)
(* representation: a window of chapters, and for every address the records *)
(* of the chapters in the window, the first of them without a name.        *)
(* Moving the window removes at once every record outside it, and saving   *)
(* takes a copy at one instant.  The module MasterIndex implements this    *)
(* one: there records outlive their chapter until their delta list is next *)
(* searched, chapters are numbers modulo a power of two, and a save writes *)
(* each delta list when it is about to change.                             *)
(***************************************************************************)
EXTENDS Integers, Sequences

CONSTANTS
    Names, Address,  \* the names and their addresses
    NoName, NoImage

Addresses == {Address[n] : n \in Names}

VARIABLES
    low, high,  \* the window of indexed chapters
    records,    \* the records of each address
    pending,    \* the copy being saved, or NoImage
    saved       \* the copy saved last, or NoImage

content == <<low, high, records>>
mapVars == <<low, high, records, pending, saved>>

MapInit ==
    /\ low = 0 /\ high = 0
    /\ records = [a \in Addresses |-> <<>>]
    /\ pending = NoImage
    /\ saved = NoImage

(***************************************************************************)
(* The first record of an address needs no name.                           *)
(***************************************************************************)
Normal(recs) ==
    [i \in 1 .. Len(recs) |-> IF i = 1 THEN [recs[i] EXCEPT !.name = NoName]
                              ELSE recs[i]]

Keep(recs, Test(_)) == Normal(SelectSeq(recs, LAMBDA r : Test(r.chapter)))

(***************************************************************************)
(* The window moves.  The records of the new open chapter and of later     *)
(* ones go, and those of chapters below the window; its low end may rise   *)
(* as it likes (chapters may expire early) but does not go down while      *)
(* chapters of the old window are kept.                                    *)
(***************************************************************************)
Move ==
    /\ <<low, high>>' # <<low, high>> \/ records' # records
    /\ UNCHANGED <<pending, saved>>
    /\ low' <= high'
    /\ high' >= low => low' >= low
    /\ records' = [a \in Addresses |->
                     Keep(records[a], LAMBDA c : c >= low' /\ c < high')]

(***************************************************************************)
(* The record that a search for a name finds: its own, or the first one.   *)
(***************************************************************************)
Found(recs, name) ==
    IF \E i \in 1 .. Len(recs) : recs[i].name = name
    THEN CHOOSE i \in 1 .. Len(recs) : recs[i].name = name
    ELSE 1

Change(a, recs) == records' = [records EXCEPT ![a] = recs]

Put(name, a) ==
    LET recs == records[a]
        new(n) == [chapter |-> high, name |-> n]
    IN /\ \A i \in 1 .. Len(recs) : recs[i].name # name
       /\ Change(a, IF recs = <<>> THEN <<new(NoName)>>
                    ELSE <<recs[1], new(name)>> \o Tail(recs))

Set(name, a) ==
    LET recs == records[a]
    IN recs # <<>> /\ Change(a, [recs EXCEPT ![Found(recs, name)].chapter = high])

Remove(name, a) ==
    LET recs == records[a]
        i    == Found(recs, name)
    IN recs # <<>> /\ Change(a, Normal(SubSeq(recs, 1, i - 1)
                                       \o SubSeq(recs, i + 1, Len(recs))))

Update ==
    /\ UNCHANGED <<low, high>>
    /\ \E n \in Names : \/ Put(n, Address[n])
                        \/ Set(n, Address[n])
                        \/ Remove(n, Address[n])
    /\ UNCHANGED <<pending, saved>>

StartSave ==
    /\ pending = NoImage
    /\ pending' = content
    /\ UNCHANGED <<content, saved>>

FinishSave ==
    /\ pending # NoImage /\ pending' = NoImage
    /\ saved' = pending
    /\ UNCHANGED content

AbortSave ==
    /\ pending # NoImage /\ pending' = NoImage
    /\ UNCHANGED <<content, saved>>

Restore ==
    /\ saved # NoImage
    /\ content' = saved
    /\ pending' = NoImage
    /\ UNCHANGED saved

MapNext == Update \/ Move \/ StartSave \/ FinishSave \/ AbortSave \/ Restore

MapSpec == MapInit /\ [][MapNext]_mapVars
=============================================================================
