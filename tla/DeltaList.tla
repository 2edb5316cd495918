----------------------------- MODULE DeltaList -----------------------------
(***************************************************************************)
(* The delta lists of uds/deltaIndex.c.  A delta list is the sequence of   *)
(* its entries, each holding the difference between its key and the key of *)
(* the entry before it, a value and, in a collision entry, the whole name. *)
(* A bit offset of the code is the position of an entry here; the number   *)
(* of bits an entry takes is kept, because it decides about overflow.      *)
(* An entry with delta 0 that is not the first of its list is a collision  *)
(* entry: it has the key of the entry before it.                           *)
(***************************************************************************)
EXTENDS Integers, Sequences, SequencesExt, FiniteSetsExt

CONSTANTS
    MeanDelta,      \* the mean delta the Huffman code is made for
    ValueBits,      \* bits of a value
    CollisionBits,  \* COLLISION_BITS
    MaxListBits,    \* UINT16_MAX, the largest size of a list
    NoName          \* the name of an entry that is not a collision

(***************************************************************************)
(* computeBits: the number of bits needed to represent n.                  *)
(***************************************************************************)
ComputeBits(n) == CHOOSE b \in 0 .. 31 : 2 ^ b > n /\ (b = 0 \/ 2 ^ (b - 1) <= n)

(***************************************************************************)
(* computeCodingConstants: log(2) times the mean delta, rounded.           *)
(***************************************************************************)
incrKeys == (836158 * MeanDelta + 603160) \div 1206321
minBits == ComputeBits(incrKeys + 1)
minKeys == 2 ^ minBits - incrKeys

\* Otherwise the unsigned difference in setDelta wraps for the smallest deltas.
ASSUME CodeAssumption == minKeys <= incrKeys

(***************************************************************************)
(* encodeDelta and decodeDelta: a delta is coded as the number in the      *)
(* first minBits bits and the number of zeros before the next one.         *)
(***************************************************************************)
EncodeDelta(delta) ==
    IF delta < minKeys
    THEN [t1 |-> delta, t2 |-> 0, bits |-> minBits]
    ELSE LET temp == delta - minKeys
         IN [t1 |-> (temp % incrKeys) + minKeys, t2 |-> temp \div incrKeys,
             bits |-> minBits + temp \div incrKeys + 1]

DecodeDelta(code) ==
    IF code.t1 < minKeys THEN code.t1 ELSE code.t1 + code.t2 * incrKeys

(***************************************************************************)
(* setDelta and setCollision: the size they compute for an entry.          *)
(***************************************************************************)
EntryBits(delta, collision) ==
    ValueBits + minBits + (incrKeys - minKeys + delta) \div incrKeys
    + (IF collision THEN CollisionBits ELSE 0)

IsCollision(list, i) == i > 1 /\ list[i].delta = 0

RECURSIVE BitsUpTo(_, _)
BitsUpTo(list, i) ==
    IF i = 0 THEN 0
    ELSE EntryBits(list[i].delta, IsCollision(list, i)) + BitsUpTo(list, i - 1)

BitsOf(list) == BitsUpTo(list, Len(list))

(***************************************************************************)
(* A cursor is a DeltaIndexEntry: the position and key of an entry, or the *)
(* end of the list with the key of the last entry.  step is 0 only before  *)
(* the first nextDeltaIndexEntry of a search (entryBits = 0).              *)
(***************************************************************************)
startDeltaIndexSearch(remembered, key) ==
    [pos |-> IF key > remembered.key THEN remembered.pos ELSE 1,
     key |-> IF key > remembered.key THEN remembered.key ELSE 0,
     delta |-> 0, step |-> 0, atEnd |-> FALSE, collision |-> FALSE]

nextDeltaIndexEntry(list, c) ==
    LET p == c.pos + c.step IN
    IF p > Len(list)
    THEN [c EXCEPT !.pos = p, !.step = 1, !.delta = 0, !.atEnd = TRUE,
                   !.collision = FALSE]
    ELSE [pos |-> p, key |-> c.key + list[p].delta, delta |-> list[p].delta,
          step |-> 1, atEnd |-> FALSE, collision |-> IsCollision(list, p)]

(***************************************************************************)
(* rememberDeltaIndexOffset: where the next search may start.              *)
(***************************************************************************)
rememberDeltaIndexOffset(c) == [key |-> c.key - c.delta, pos |-> c.pos]

RECURSIVE SkipBelow(_, _, _)
SkipBelow(list, key, c) ==
    IF c.step = 1 /\ (c.atEnd \/ key <= c.key) THEN c
    ELSE SkipBelow(list, key, nextDeltaIndexEntry(list, c))

RECURSIVE MatchCollision(_, _, _, _)
MatchCollision(list, name, found, c) ==
    IF c.atEnd \/ ~c.collision THEN found
    ELSE IF list[c.pos].name = name THEN c
    ELSE MatchCollision(list, name, found, nextDeltaIndexEntry(list, c))

(***************************************************************************)
(* getDeltaIndexEntry: the entry with this key, or the collision entry     *)
(* with this name, or the place where an entry with this key belongs.      *)
(***************************************************************************)
FoundEntry(list, key, name, c) ==
    [entry |-> IF ~c.atEnd /\ c.key = key
               THEN MatchCollision(list, name, c, nextDeltaIndexEntry(list, c))
               ELSE c,
     remembered |-> rememberDeltaIndexOffset(c)]

getDeltaIndexEntry(list, remembered, key, name) ==
    FoundEntry(list, key, name,
               SkipBelow(list, key, startDeltaIndexSearch(remembered, key)))

(***************************************************************************)
(* putDeltaIndexEntry.  The three arms insert a collision entry after the  *)
(* entry found, append an entry, and insert an entry before the one found, *)
(* whose delta shrinks.                                                    *)
(***************************************************************************)
PutCollision(list, c, value, name) ==
    InsertAt(list, c.pos + 1, [delta |-> 0, value |-> value, name |-> name])

PutAtEnd(list, c, key, value) ==
    Append(list, [delta |-> key - c.key, value |-> value, name |-> NoName])

PutBefore(list, c, key, value) ==
    InsertAt([list EXCEPT ![c.pos].delta = c.key - key], c.pos,
             [delta |-> key - (c.key - c.delta), value |-> value,
              name |-> NoName])

PutEntry(list, c, key, value, name) ==
    CASE c.collision                   -> list
      [] ~c.collision /\ name # NoName -> PutCollision(list, c, value, name)
      [] c.atEnd /\ name = NoName      -> PutAtEnd(list, c, key, value)
      [] OTHER                         -> PutBefore(list, c, key, value)

\* Mutant: the size of the list is not checked.
InsertUnchecked(list, new) == new

\* insertBits: the list is left alone when it would become too long.
InsertBits(list, new) == IF BitsOf(new) > MaxListBits THEN list ELSE new

putDeltaIndexEntry(list, remembered, c, key, value, name) ==
    [list |-> InsertBits(list, PutEntry(list, c, key, value, name)),
     remembered |-> IF ~c.collision /\ c.pos < remembered.pos
                    THEN rememberDeltaIndexOffset(c) ELSE remembered]

(***************************************************************************)
(* removeDeltaIndexEntry.  A collision entry that follows the removed one  *)
(* loses its name; any other following entry takes over the delta.  The    *)
(* cursor n, moved past c, is left at the entry that takes the place of    *)
(* the removed one.                                                        *)
(***************************************************************************)
CutEntry(list, c, n) ==
    IF c.collision \/ n.atEnd THEN RemoveAt(list, c.pos)
    ELSE [RemoveAt(list, c.pos) EXCEPT ![c.pos].delta = @ + c.delta,
                                       ![c.pos].name = NoName]

NextCursor(c, n) ==
    IF c.collision THEN [n EXCEPT !.pos = c.pos]
    ELSE IF n.atEnd THEN [n EXCEPT !.pos = c.pos, !.key = @ - c.delta]
    ELSE [n EXCEPT !.pos = c.pos, !.delta = @ + c.delta, !.collision = FALSE]

\* Mutant: the remembered position stays when an entry before it goes.
KeepPosition(remembered, pos) == remembered

DropPosition(remembered, pos) ==
    IF pos < remembered.pos THEN [key |-> 0, pos |-> 1] ELSE remembered

RemoveBefore(list, remembered, c, n) ==
    [list |-> CutEntry(list, c, n), entry |-> NextCursor(c, n),
     remembered |-> DropPosition(remembered, c.pos)]

removeDeltaIndexEntry(list, remembered, c) ==
    RemoveBefore(list, remembered, c, nextDeltaIndexEntry(list, c))

(***************************************************************************)
(* setDeltaEntryValue.                                                     *)
(***************************************************************************)
setDeltaEntryValue(list, c, value) == [list EXCEPT ![c.pos].value = value]

(***************************************************************************)
(* The key of an entry is the sum of the deltas up to it.                  *)
(***************************************************************************)
RECURSIVE KeyAt(_, _)
KeyAt(list, i) == IF i = 0 THEN 0 ELSE list[i].delta + KeyAt(list, i - 1)
=============================================================================
