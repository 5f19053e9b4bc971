------------------------------- MODULE MCTimer -------------------------------
(* Timer with wheels of a few slots.                                       *)
EXTENDS Timer

MCSpan      == [l \in 0..Levels |-> Near * Far^l]
MCIntervals == {0, 1, 2, 5, 11, 15, 16}
MCTimes     == {-1, 1, 2}
=============================================================================
