-------------------------------- MODULE AStar --------------------------------
(***************************************************************************)
(* AStar (wsCore): path finding on a grid, by one object that searches     *)
(* many maps one after the other.  Its nodes are kept between searches and *)
(* told apart by the number of the search, searchGeneration, which wraps.  *)
(*                                                                         *)
(* A cell is its index y * width + x, as in getNode().  Costs are in       *)
(* thousandths.  openHeap is a set: an entry is pushed when its node's f   *)
(* has dropped, so no two entries are equal.                               *)
(***************************************************************************)
EXTENDS Integers, Sequences, Functions

CONSTANTS
    Queries,      \* the calls of findPath: maps, starts and ends
    Limits,       \* the values of maxCount
    Generations,  \* the values of searchGeneration: 2^32 in the code
    MaxSearches   \* bound: calls of findPath

\* The indexes of the cells of a map.
Grid(q) == 0..(q.w * q.h - 1)

ASSUME AStarAssumption ==
    /\ Queries # {}
    /\ \A q \in Queries :
            /\ q.w \in Nat \ {0} /\ q.h \in Nat \ {0}
            /\ q.block \subseteq Grid(q)
            /\ {q.start, q.end} \subseteq Grid(q)
    /\ Limits \subseteq Nat /\ Generations \in Nat \ {0, 1} /\ MaxSearches \in Nat

VARIABLES
    maxCount,
    map,               \* the query that is searched, or was searched last
    searching,         \* findPath is running
    found,             \* what it returned last
    nodes,             \* mapNodes
    openHeap,          \* entries [f, node]
    searchGeneration,
    count,
    current,           \* the node whose parents are followed from the end
    lastPath,
    searches           \* the calls of findPath

astarVars == <<maxCount, map, searching, found, nodes, openHeap, searchGeneration,
               count, current, lastPath, searches>>

Cells == UNION {Grid(q) : q \in Queries}

NoNode == -1

\* A node that was not reached; a node without a parent is its own.
BlankNode(i, gen) == [g |-> 0, f |-> 0, isClosed |-> FALSE, parent |-> i, generation |-> gen]

AStarInit ==
    /\ maxCount \in Limits /\ map = CHOOSE q \in Queries : TRUE
    /\ searching = FALSE /\ found = FALSE
    /\ nodes = [i \in Cells |-> BlankNode(i, 0)]
    /\ openHeap = {} /\ searchGeneration = 0 /\ count = 0
    /\ current = NoNode /\ lastPath = <<>> /\ searches = 0

PathNodes == [g : Nat, f : Nat, isClosed : BOOLEAN, parent : Cells,
              generation : 0..Generations - 1]

AStarTypeOK ==
    /\ maxCount \in Limits /\ map \in Queries /\ searching \in BOOLEAN /\ found \in BOOLEAN
    /\ nodes \in [Cells -> PathNodes]
    /\ openHeap \subseteq [f : Nat, node : Cells]
    /\ searchGeneration \in 0..Generations - 1 /\ count \in Nat
    /\ current \in Cells \cup {NoNode} /\ lastPath \in Seq(Cells)
    /\ searches \in 0..MaxSearches

-----------------------------------------------------------------------------
X(q, i) == i % q.w
Y(q, i) == i \div q.w
Abs(n) == IF n < 0 THEN -n ELSE n

Adjacent(q, i, j) ==
    i # j /\ Abs(X(q, i) - X(q, j)) <= 1 /\ Abs(Y(q, i) - Y(q, j)) <= 1

\* Mutated form: blocked cells are entered.
NeighboursBlocked(q, i) == {j \in Grid(q) : Adjacent(q, i, j)}

\* The cells of the map around i that may be entered.
Neighbours(q, i) == {j \in Grid(q) \ q.block : Adjacent(q, i, j)}

CommonCost(q, i, j) == IF X(q, i) # X(q, j) /\ Y(q, i) # Y(q, j) THEN 1414 ELSE 1000

ManhattanDistance(q, i, j) ==
    1000 * (Abs(X(q, i) - X(q, j)) + Abs(Y(q, i) - Y(q, j)))

\* getNode(): a node of another search starts afresh.
GetNode(ns, i, gen) == IF ns[i].generation = gen THEN ns[i] ELSE BlankNode(i, gen)

\* Mutated form: the nodes are not cleared when the generation wraps.
NextSearchUncleared ==
    /\ searchGeneration' = IF searchGeneration + 1 = Generations THEN 1
                           ELSE searchGeneration + 1
    /\ nodes' = [i \in Cells |-> IF i \in {map'.start, map'.end}
                                 THEN GetNode(nodes, i, searchGeneration')
                                 ELSE nodes[i]]

\* ++searchGeneration, the nodes cleared when it wraps, start and end fetched.
NextSearch ==
    LET wraps   == searchGeneration + 1 = Generations
        cleared == IF wraps THEN [i \in Cells |-> BlankNode(i, 0)] ELSE nodes
    IN  /\ searchGeneration' = IF wraps THEN 1 ELSE searchGeneration + 1
        /\ nodes' = [i \in Cells |-> IF i \in {map'.start, map'.end}
                                     THEN GetNode(cleared, i, searchGeneration')
                                     ELSE cleared[i]]

-----------------------------------------------------------------------------
(* findPath()                                                              *)

Called(q) ==
    /\ ~searching /\ searches < MaxSearches
    /\ searches' = searches + 1
    /\ map' = q /\ lastPath' = <<>>

\* The early returns, before a search starts.
FindNothing(q) ==
    /\ q.start = q.end \/ q.end \in q.block
    /\ Called(q)
    /\ found' = (q.start = q.end) /\ openHeap' = {}
    /\ UNCHANGED <<maxCount, searching, nodes, searchGeneration, count, current>>

FindPath(q) ==
    /\ q.start # q.end /\ q.end \notin q.block
    /\ Called(q)
    /\ searching' = TRUE /\ NextSearch
    /\ openHeap' = {[f |-> nodes'[q.start].f, node |-> q.start]} /\ count' = 0
    /\ UNCHANGED <<maxCount, found, current>>

\* The entries of openHeap that popOpen() does not skip, those it may return,
\* for the heap decides when some are equal, and those it leaves.
Live == {e \in openHeap : ~nodes[e.node].isClosed /\ e.f = nodes[e.node].f}
Least == {e \in Live : \A o \in Live : e.f <= o.f}
Behind(e) == {o \in openHeap \ {e} : o.f >= e.f}

\* The node j, seen from its neighbour i.
Visited(i, j) ==
    LET node == GetNode(nodes, j, searchGeneration)
        g    == nodes[i].g + CommonCost(map, i, j)
    IN  IF ~node.isClosed /\ (node.g = 0 \/ g < node.g)
        THEN [node EXCEPT !.g = g, !.parent = i,
                          !.f = g + ManhattanDistance(map, j, map.end)]
        ELSE node

\* The next round of the loop, and what popOpen() returns in it.
Round(e) ==
    /\ searching /\ current = NoNode /\ count < maxCount /\ e \in Least
    /\ count' = count + 1

\* A round that does not reach the end.
Expand(e) ==
    /\ Round(e) /\ e.node # map.end
    /\ LET Around == Neighbours(map, e.node)
       IN  /\ nodes' = [j \in Cells |->
                 IF j = e.node THEN [nodes[j] EXCEPT !.isClosed = TRUE]
                 ELSE IF j \in Around THEN Visited(e.node, j) ELSE nodes[j]]
           /\ openHeap' = Behind(e) \cup {[f |-> nodes'[j].f, node |-> j] :
                                            j \in {k \in Around : nodes'[k] # nodes[k]}}
    /\ UNCHANGED <<maxCount, map, searching, found, searchGeneration, current,
                   lastPath, searches>>

Reach(e) ==
    /\ Round(e) /\ e.node = map.end
    /\ current' = map.end /\ openHeap' = Behind(e)
    /\ UNCHANGED <<maxCount, map, searching, found, nodes, searchGeneration,
                   lastPath, searches>>

\* One step of the loop over the parents.
FollowParent ==
    /\ current # NoNode /\ nodes[current].parent # current
    /\ lastPath' = <<current>> \o lastPath /\ current' = nodes[current].parent
    /\ UNCHANGED <<maxCount, map, searching, found, nodes, openHeap, searchGeneration,
                   count, searches>>

Return ==
    /\ searching' = FALSE /\ found' = (lastPath # <<>>)
    /\ openHeap' = {} /\ current' = NoNode
    /\ UNCHANGED <<maxCount, map, nodes, searchGeneration, lastPath, searches>>

ReturnPath ==
    /\ current # NoNode /\ nodes[current].parent = current
    /\ Return /\ UNCHANGED count

\* Nothing is left to be expanded, or maxCount rounds are over.
GiveUp ==
    /\ searching /\ current = NoNode /\ (count >= maxCount \/ Least = {})
    /\ Return /\ count' = count + 1

\* The caller makes no more calls.
Terminated == ~searching /\ searches = MaxSearches /\ UNCHANGED astarVars

-----------------------------------------------------------------------------
AStarNext ==
    \/ \E q \in Queries : FindNothing(q) \/ FindPath(q)
    \/ \E e \in openHeap : Expand(e) \/ Reach(e)
    \/ FollowParent \/ ReturnPath \/ GiveUp \/ Terminated

AStarSpec == AStarInit /\ [][AStarNext]_astarVars

-----------------------------------------------------------------------------
(* Properties                                                              *)

CanStep(q, i, j) == Adjacent(q, i, j) /\ j \notin q.block

\* The way that lastPath makes from n; the start is not in it.
Way(n) == <<n>> \o lastPath

\* The loop over the parents comes to no cell twice, and a path that findPath
\* found leads from the start to the end in steps to neighbouring cells that
\* may be entered.
PathIsWay ==
    /\ current # NoNode => IsInjective(Way(current))
    /\ (searches > 0 /\ ~searching /\ found /\ map.start # map.end) =>
         LET way == Way(map.start)
         IN  /\ lastPath # <<>> /\ way[Len(way)] = map.end
             /\ \A n \in 1..Len(lastPath) : CanStep(map, way[n], way[n + 1])
             /\ IsInjective(way)

\* The maps with a way to the end: it is in every set of cells that has the
\* start and is not left by any step.
Solvable ==
    {q \in Queries : \A S \in SUBSET Grid(q) :
        q.start \in S /\ (\A i \in S : \A j \in Grid(q) : CanStep(q, i, j) => j \in S)
            => q.end \in S}

\* findPath fails only when there is no way, or when the search was cut off
\* after maxCount rounds, whatever the searches before it have left behind.
FindsAWay ==
    (searches > 0 /\ ~searching /\ ~found) => map \notin Solvable \/ count > maxCount
=============================================================================
