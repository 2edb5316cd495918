---------------------------- MODULE MCHashLock ----------------------------
(***************************************************************************)
(* Three writes, each to a logical block of its own, for TLC.              *)
(***************************************************************************)
EXTENDS HashLock, TLC

CONSTANTS v1, v2, v3, b1, b2, b3, p1, p2, p3, d1, d2, zeros, h1, h2

MCLBNOf == (v1 :> b1) @@ (v2 :> b2) @@ (v3 :> b3)

Hashes == [d \in Data |-> IF d = d2 THEN h2 ELSE h1]
RawAdvice(pbns) == [pbn : pbns, slot : {0}]

\* A write that frees a block, and two writes of what the block held.
Base == [writers |-> DataVIOs, dataOf |-> (v1 :> d2) @@ (v2 :> d1) @@ (v3 :> d1),
         hashOf |-> Hashes, pbns |-> {p1, p2},
         initialMap |-> [b \in LBNs |-> IF b = b1 THEN p1 ELSE None],
         initialData |-> (p1 :> d1) @@ (p2 :> d2), advice |-> RawAdvice({p1}),
         maxReferences |-> 2, async |-> TRUE, compression |-> FALSE, writeErrors |-> FALSE]

Unmapped == [b \in LBNs |-> None]
SameData == [v \in DataVIOs |-> d1]

\* Writes are packed, two of them of the same data.
Packed == [Base EXCEPT !.compression = TRUE, !.dataOf = (v1 :> d1) @@ (v2 :> d2) @@ (v3 :> d1),
                       !.pbns = {p1, p2, p3}, !.initialMap = Unmapped,
                       !.initialData = (p1 :> d1) @@ (p2 :> d2) @@ (p3 :> d2), !.advice = {}]

MCScenarios ==
  {Base,
   \* three writes of the same data, and one reference to a block
   [Base EXCEPT !.dataOf = SameData, !.initialMap = Unmapped, !.maxReferences = 1],
   \* the sync write policy: one write frees the other's advice, or both dedupe
   [Base EXCEPT !.async = FALSE, !.writers = {v1, v2}],
   [Base EXCEPT !.async = FALSE, !.writers = {v2, v3}, !.advice = RawAdvice({p1, p2})],
   \* a trim of the block that is advice for two writes whose chunk names collide
   [Base EXCEPT !.hashOf = [d \in Data |-> h1], !.advice = RawAdvice({p1, p2}),
                !.dataOf = (v1 :> zeros) @@ (v2 :> d1) @@ (v3 :> d2)],
   \* two writes of the same data, which may fail
   [Base EXCEPT !.writers = {v1, v2}, !.dataOf = SameData, !.advice = RawAdvice({p1, p2}),
                !.writeErrors = TRUE],
   Packed,
   \* two writes are packed, and the writes may fail
   [Packed EXCEPT !.writers = {v1, v2}, !.writeErrors = TRUE]}

\* Writes are packed, with the slot of a compressed block as advice.
BypassScenario == {[Packed EXCEPT !.advice = {[pbn |-> p1, slot |-> 1]}]}
=============================================================================
