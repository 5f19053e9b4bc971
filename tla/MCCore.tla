-------------------------------- MODULE MCCore --------------------------------
(* Two classes of wsCore that share nothing, in one run: a RingBuffer with   *)
(* two bytes to tell apart, that grows twice; or an AStar on small maps of   *)
(* several widths: open, with a wall to walk around, with a corner to squeeze *)
(* through, and with an end that is walled in or blocked, whose generation   *)
(* wraps at the third search.                                                *)
EXTENDS RingBuffer, AStar

MCQueries ==
    LET Map(w, h, block) == {[w |-> w, h |-> h, block |-> block, start |-> s, end |-> t] :
                                s \in {0, w - 1}, t \in {0, w * h - 1, (w * h) \div 2}}
    IN  Map(3, 3, {}) \cup Map(4, 3, {1, 5}) \cup Map(3, 3, {1, 3})
          \cup Map(4, 4, {1, 5, 9, 7, 11, 15}) \cup Map(4, 2, {2, 6}) \cup Map(3, 4, {4, 7, 10})

\* One of the objects is used; the other stays as it was constructed (an AStar
\* with one maxCount, so that the RingBuffer is not explored for each).
CoreNext == \/ Next /\ searches = 0 /\ maxCount = 5 /\ UNCHANGED astarVars
            \/ AStarNext /\ last.op = "none" /\ UNCHANGED vars

CoreInit == Init /\ AStarInit

CoreSpec == CoreInit /\ [][CoreNext]_<<vars, astarVars>>
=============================================================================
