---------------------------- MODULE MCVDORecovery ----------------------------
(* Two logical blocks and a tree page, two slabs of two blocks, and journal *)
(* blocks of three entries in two sectors.                                  *)
EXTENDS VDORecovery

Inc(s, p) == Entry("DATA_INCREMENT", s, Location(p, TRUE))
Trim(s) == Entry("DATA_INCREMENT", s, Unmapped)
Dec(s) == Entry("DATA_DECREMENT", s, Unmapped)
Tree(s, p) == Entry("BLOCK_MAP_INCREMENT", s, Location(p, TRUE))

Round(script, issued, tears) ==
  [script |-> script, issued |-> issued, tears |-> tears, end |-> "crash", damage |-> {}]

Base == [rounds |-> << >>, zones |-> {1}, crashes |-> 0, fetchErrors |-> FALSE]

\* Overwrites of a block, with another block's write between them.
Overwrites == <<Inc(1, 1), Inc(2, 2), Dec(1), Dec(2), Inc(1, 3), Dec(1), Inc(1, 1), Inc(2, 4)>>
Torn == [Base EXCEPT !.rounds = <<Round(Overwrites, {2, 5, 8}, TRUE)>>]

\* The recovery is interrupted and retried with another number of zones.
Retried == [Base EXCEPT !.rounds = <<Round(Overwrites, {5, 8}, FALSE)>>,
            !.zones = {1, 2}, !.crashes = 1]

\* Two crashes with a recovery between them, in which the journal wraps.
First == <<Inc(1, 1), Tree(3, 3), Dec(1), Inc(1, 2)>>
Second == <<Trim(1), Inc(2, 2), Dec(1), Dec(2), Inc(1, 4)>>
Cycles == [Base EXCEPT !.rounds = <<Round(First, {2, 4}, FALSE), Round(Second, {2, 5}, FALSE)>>,
           !.fetchErrors = TRUE]

\* The VDO is saved between two rounds.
SavedOnce == [Base EXCEPT !.rounds =
               <<[Round(<<Inc(1, 1), Dec(1), Inc(2, 1), Dec(2)>>, {}, FALSE) EXCEPT !.end = "save"],
                 Round(Second, {0, 2, 5}, TRUE)>>]

\* A read-only VDO is rebuilt, and then crashes.
Rebuilt(damage) ==
  [Base EXCEPT !.rounds = <<[Round(Overwrites, {5, 8}, FALSE) EXCEPT !.end = "forceRebuild",
                                                                     !.damage = damage],
                            Round(<<Inc(2, 1)>>, {0, 1}, FALSE)>>,
               !.crashes = 1, !.zones = {2}]
Upgraded == [Base EXCEPT !.rounds = <<[Round(First, {3}, FALSE) EXCEPT !.end = "upgrade"],
                                      Round(<<Inc(2, 1)>>, {0, 1}, FALSE)>>]

\* Damage which a recovery meets.
Damaged(damage) == [Base EXCEPT !.rounds = <<[Round(Overwrites, {5}, FALSE) EXCEPT !.damage = damage]>>]

MCScenarios ==
  {Torn, Retried, Cycles, SavedOnce, Upgraded}
    \cup {Rebuilt(d) : d \in {{}, {"header"}, {"entry"}, {"mapping"}}}
    \cup {Damaged(d) : d \in {{"entry"}, {"mapping"}}}
====
