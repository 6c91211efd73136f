--------------------------- MODULE MCSessionHistory ---------------------------
(* Values for TLC: the requests that delete messages are interchangeable.    *)
EXTENDS SessionHistory, TLC

DeletionSymmetry == Permutations(Deletions)

Quiet ==
  [turns |-> 2, deletes |-> FALSE, overlapping |-> FALSE, skill |-> FALSE, rounds |-> 0,
   faults |-> 0, stops |-> 0, cuts |-> 0, restarts |-> 0]

(* One after the other: turns with tools and skills, one stopped, deletions;  *)
(* a second time with failures instead of tools.                              *)
Sequential ==
  {[Quiet EXCEPT !.turns = 3, !.deletes = TRUE, !.skill = TRUE, !.rounds = 1, !.stops = 1],
   [Quiet EXCEPT !.faults = 1, !.restarts = 1, !.deletes = TRUE]}

(* Two turns at once, and everything that can go wrong once. *)
Overlap == [Quiet EXCEPT !.overlapping = TRUE, !.faults = 1, !.stops = 1, !.cuts = 1, !.restarts = 1]

Settings == Sequential \union {Overlap}
WithDeletions == {[Quiet EXCEPT !.deletes = TRUE]}
WithFault == {[Quiet EXCEPT !.faults = 1]}
WithStop == {[Quiet EXCEPT !.turns = 1, !.stops = 1]}
=============================================================================
