------------------------------ MODULE FindPath ------------------------------
(***************************************************************************)
(* A monster looks for a way and walks it: MapManager::FindPath, called by *)
(* Monster::TraceSearch and PatrolDestSearch, and the corners that         *)
(* UpdateTrace and UpdatePatrol walk to (requies_server).                  *)
(*                                                                         *)
(* One turn of the search loop is a step; which of several nodes with the  *)
(* least f is at the top of the heap is a choice.  The directions of the   *)
(* inner loop lead to different cells, so their order does not matter and  *)
(* they are one step.  A monster stands in the middle of a cell.           *)
(***************************************************************************)
EXTENDS Integers, Sequences, FiniteSets, SequencesExt

CONSTANTS
    XSize, ZSize,   \* _xSize, _zSize
    Terrains,       \* the sets of closed cells: _closeSearch is 1
    None,           \* no parent
    MaxPath         \* bound: cells put on the path

Cells == [x : 0..(XSize - 1), z : 0..(ZSize - 1)]
Corner == [x |-> 0, z |-> 0]    \* Pos{}, what the map of parents defaults to

ASSUME SizeAssumption == XSize \in Nat \ {0} /\ ZSize \in Nat \ {0}
ASSUME TerrainAssumption == Terrains \subseteq SUBSET Cells
ASSUME ParentAssumption == None \notin Cells
ASSUME BoundAssumption == MaxPath \in Nat

VARIABLES
    closed, start, end,     \* the terrain; from where to where
    tracing,    \* TraceSearch, or else PatrolDestSearch
    kept,       \* what PatrolDestSearch finds in _path: it does not clear it
    at,         \* search, walk back, turn into corners, go, done
    heap, best, parent,     \* pq, best, parent
    found,      \* whether the search came to the end
    pos,        \* the cell the walk back has come to
    path, conner, here      \* _path, _conner, the monster's cell

query == <<closed, start, end, tracing, kept>>
vars == <<query, at, heap, best, parent, found, pos, path, conner, here>>

Infinite == 2147483647      \* INT32_MAX

\* No map is so large that a way over it costs as much.
ASSUME WidthAssumption ==
    20 * (XSize + ZSize) + 14 * Cardinality(Cells) < Infinite

Abs(n) == IF n < 0 THEN -n ELSE n
Plus(p, q) == [x |-> p.x + q.x, z |-> p.z + q.z]
Minus(p, q) == [x |-> p.x - q.x, z |-> p.z - q.z]
Zero == [x |-> 0, z |-> 0]

-----------------------------------------------------------------------------
(* The map and the costs.                                                  *)

\* The last row and column cannot be entered.
CanGo(p) ==
    /\ p.x \in 0..(XSize - 2) /\ p.z \in 0..(ZSize - 2)
    /\ p \notin closed

Near(p, q) == Abs(p.x - q.x) <= 1 /\ Abs(p.z - q.z) <= 1
NextTo(p, q) == p # q /\ Near(p, q)

DirectionsFour == {d \in [x : -1..1, z : -1..1] : Abs(d.x) + Abs(d.z) = 1}
Directions == [x : -1..1, z : -1..1] \ {Zero}
Cost(d) == IF d.x = 0 \/ d.z = 0 THEN 10 ELSE 14

NextGOneStep(node, c) == Cost(Minus(c, node.pos))
NextG(node, c) == node.g + Cost(Minus(c, node.pos))
NextH(c) == 10 * (Abs(end.z - c.z) + Abs(end.x - c.x))
NextF(node, c) == NextG(node, c) + NextH(c)

\* The first h is that of another formula.
FirstH == 10 * (Abs(end.z - end.z) + Abs(start.z - start.x))

\* The neighbours that the inner loop pushes.
PushedFourWays(node) ==
    {c \in Cells : /\ Minus(c, node.pos) \in DirectionsFour /\ CanGo(c)
                   /\ NextF(node, c) < best[c]}
PushedAnyCell(node) ==
    {c \in Cells : /\ Minus(c, node.pos) \in Directions
                   /\ NextF(node, c) < best[c]}
PushedAgain(node) ==
    {c \in Cells : /\ Minus(c, node.pos) \in Directions /\ CanGo(c)
                   /\ NextF(node, c) <= best[c]}
Pushed(node) ==
    {c \in Cells : /\ Minus(c, node.pos) \in Directions /\ CanGo(c)
                   /\ NextF(node, c) < best[c]}

Init ==
    /\ closed \in Terrains
    /\ start \in {c \in Cells : c.x < XSize - 1 /\ c.z < ZSize - 1}
    /\ end \in {c \in Cells : CanGo(c)}
    /\ tracing \in BOOLEAN /\ (tracing \/ start # end)
    /\ kept \in {<< >>} \cup
            {<<c>> : c \in {p \in Cells : ~ tracing /\ CanGo(p) /\
                              (Near(p, start) \/ start = Corner)}}
    /\ at = "search"
    /\ heap = {[f |-> FirstH, g |-> 0, pos |-> start]}
    /\ best = [c \in Cells |-> IF c = start THEN FirstH ELSE Infinite]
    /\ parent = [c \in Cells |-> IF c = start THEN start ELSE None]
    /\ found = FALSE
    /\ pos = end
    /\ path = kept /\ conner = << >> /\ here = start

-----------------------------------------------------------------------------
(* The search.                                                             *)

Top(node) == node \in heap /\ \A other \in heap : node.f <= other.f

\* A node that has been improved since it was pushed.
Outdated(node) ==
    /\ at = "search" /\ Top(node)
    /\ best[node.pos] < node.f
    /\ heap' = heap \ {node}
    /\ UNCHANGED <<query, at, best, parent, found, pos, path, conner, here>>

Arrive(node) ==
    /\ at = "search" /\ Top(node)
    /\ best[node.pos] >= node.f /\ node.pos = end
    /\ heap' = heap \ {node}
    /\ found' = TRUE
    /\ at' = "back"
    /\ UNCHANGED <<query, best, parent, pos, path, conner, here>>

\* parent[] is set before the test of best.
ParentedFirst(node) ==
    [c \in Cells |-> IF CanGo(c) /\ Minus(c, node.pos) \in Directions
                     THEN node.pos ELSE parent[c]]
Parented(node) ==
    [c \in Cells |-> IF c \in Pushed(node) THEN node.pos ELSE parent[c]]

Expand(node) ==
    /\ at = "search" /\ Top(node)
    /\ best[node.pos] >= node.f /\ node.pos # end
    /\ heap' = (heap \ {node}) \cup
                  {[f |-> NextF(node, c), g |-> NextG(node, c), pos |-> c] :
                      c \in Pushed(node)}
    /\ best' = [c \in Cells |-> IF c \in Pushed(node) THEN NextF(node, c)
                                ELSE best[c]]
    /\ parent' = Parented(node)
    /\ UNCHANGED <<query, at, found, pos, path, conner, here>>

Exhausted ==
    /\ at = "search" /\ heap = {}
    /\ at' = "back"
    /\ UNCHANGED <<query, heap, best, parent, found, pos, path, conner, here>>

-----------------------------------------------------------------------------
(* The walk back over the parents.  A cell without a parent gets the one   *)
(* that operator[] inserts.                                                *)

BeforeAsIs == parent[pos]
Before == IF parent[pos] = None THEN Corner ELSE parent[pos]

WalkBack ==
    /\ at = "back" /\ Len(path) < MaxPath
    /\ parent' = [parent EXCEPT ![pos] = Before]
    /\ pos' = Before
    /\ IF Before = start
       THEN path' = Reverse(Append(path, pos)) /\ at' = "turn"
       ELSE path' = Append(path, pos) /\ UNCHANGED at
    /\ UNCHANGED <<query, heap, best, found, conner, here>>

-----------------------------------------------------------------------------
(* The corners of the path, and the walk to them.                          *)

Dir(p, i) == Minus(p[i], IF i = 1 THEN start ELSE p[i - 1])
LastDirOfFirst(p, i) == IF i = 1 THEN Zero ELSE Dir(p, 1)
LastDir(p, i) == IF i = 1 THEN Zero ELSE Dir(p, i - 1)

\* The cells at which the direction is another than before, up to the n-th, in
\* the order of the path.
Bending(p, n) == {i \in 1..n : Dir(p, i) # LastDir(p, i)}
Nth(S, k) == CHOOSE i \in S : Cardinality({j \in S : j <= i}) = k
Bends(p, n) ==
    [k \in 1..Cardinality(Bending(p, n)) |-> p[Nth(Bending(p, n), k)]]

PatrolConners(p) == Append(Bends(p, Len(p)), p[Len(p)])

\* A trace ends one cell before the target.
TraceConners(p) ==
    LET bends == Bends(p, Len(p) - 1)
    IN IF Len(p) <= 1 \/ Last(bends) = p[Len(p) - 1] THEN bends
       ELSE Append(bends, p[Len(p) - 1])

\* A trace with no more than one cell to go becomes ATTACK, any other TRACE; a
\* patrol becomes PATROL.  Nothing is said of the corners here.
Turn ==
    /\ at = "turn"
    /\ conner' = IF tracing THEN TraceConners(path) ELSE PatrolConners(path)
    /\ at' = IF tracing /\ Len(path) <= 1 THEN "done" ELSE "go"
    /\ UNCHANGED <<query, heap, best, parent, found, pos, path, here>>

\* As many updates as it takes to come to the next corner.
Go ==
    /\ at = "go"
    /\ here' = Head(conner)
    /\ conner' = Tail(conner)
    /\ at' = IF conner' = << >> THEN "done" ELSE "go"
    /\ UNCHANGED <<query, heap, best, parent, found, pos, path>>

-----------------------------------------------------------------------------
Next ==
    \/ Exhausted \/ WalkBack \/ Turn \/ Go
    \/ \E node \in heap : Outdated(node)
    \/ \E node \in heap : Arrive(node)
    \/ \E node \in heap : Expand(node)

\* The main loop does nothing else until the path is there.
Spec == Init /\ [][Next]_vars /\ WF_vars(Next)

-----------------------------------------------------------------------------
(* Properties.                                                             *)

Steps == {"search", "back", "turn", "go", "done"}
Nodes == [f : Int, g : Int, pos : Cells]

TypeOK ==
    /\ closed \subseteq Cells /\ start \in Cells /\ end \in Cells
    /\ tracing \in BOOLEAN /\ kept \in Seq(Cells)
    /\ at \in Steps
    /\ heap \subseteq Nodes
    /\ best \in [Cells -> Int] /\ parent \in [Cells -> Cells \cup {None}]
    /\ found \in BOOLEAN
    /\ pos \in Cells /\ path \in Seq(Cells)
    /\ conner \in Seq(Cells) /\ here \in Cells

\* The cells that the search has come to.
Visited == {c \in Cells : best[c] # Infinite}

\* There is no way from the start to the end: a set of cells with the start and
\* without the end, which no step to a cell that can be entered leaves.
NoWay ==
    /\ start \in Visited /\ end \notin Visited
    /\ \A p \in Visited, c \in Cells : NextTo(c, p) /\ CanGo(c) => c \in Visited

\* The search gives up only where there is no way, although h overestimates,
\* the first h is that of another formula, a node is dropped when its cell was
\* improved, and parents change after their cells were expanded.
SearchComplete == at # "search" => found \/ NoWay

\* The route: what the search has put on the path, behind it what was left
\* over from an earlier search.
Route == SubSeq(path, 1, Len(path) - Len(kept))

\* If the end was found, the path leads from the cell next to the start to the
\* end, from each cell to one next to it, over cells that can be entered.
RouteSound ==
    found /\ at \in {"turn", "go", "done"} =>
        /\ Route # << >> /\ path = Route \o Reverse(kept)
        /\ Last(Route) = end
        /\ NextTo(Route[1], start) \/ (start = end /\ Route = <<end>>)
        /\ \A i \in 1..(Len(Route) - 1) : NextTo(Route[i + 1], Route[i])
        /\ \A i \in 1..Len(Route) : CanGo(Route[i])

\* What has been put on the path, to be turned round at the start.
OnRoute ==
    IF at = "back" THEN (Len(kept) + 1)..Len(path) ELSE 1..(Len(path) - Len(kept))

\* Nobody is sent over a cell twice: the parents, changed one by one as cells
\* are improved, never lead back to a cell the walk back has left.
RouteSimple ==
    found /\ at # "search" =>
        \A i, j \in OnRoute : path[i] = path[j] => i = j

\* The cost of the way that the search has found to a cell.
WayCost(c) == best[c] - NextH(c)

\* Each turn of the two loops, which the main loop waits for, comes nearer to
\* the end.  The search improves a cell and makes none worse, or has one node
\* less; the walk back, if there is a way, goes to a cell with a cheaper one.
LoopsEnd ==
    [][/\ at = "search" /\ at' = "search" =>
            \/ /\ \A c \in Cells : best'[c] <= best[c]
               /\ \E c \in Cells : 0 <= best'[c] /\ best'[c] < best[c]
            \/ best' = best /\ \E node \in heap : heap' = heap \ {node}
       /\ at = "back" /\ at' = "back" /\ found =>
            0 < WayCost(pos') /\ WayCost(pos') < WayCost(pos)]_vars

\* The places of a cell on the way: the start is the 0th.
Places(c) ==
    {i \in 0..Len(path) : c = IF i = 0 THEN start ELSE path[i]}

\* The way from p to q goes on in one direction until the cell before q.
Follows(p, q) ==
    \E i \in Places(p), j \in Places(q) :
        i <= j /\ \A k \in (i + 1)..(j - 1) :
                      k > 1 /\ Dir(path, k) = Dir(path, k - 1)

\* UpdatePatrol and UpdateTrace read _conner[0]: it exists, although only the
\* path says whether there are corners.  From corner to corner the way is
\* followed in its order, and no bend of it is left out: only the cell before
\* a corner may be cut.
ConnersFollow ==
    at = "go" =>
        /\ conner # << >>
        /\ \A n \in 1..Len(conner) :
            Follows(IF n = 1 THEN here ELSE conner[n - 1], conner[n])

\* Where the walk ends: beside the target; or at the destination of the
\* patrol, but with a cell left over from an earlier path there.
Arrived ==
    /\ at = "done"
    /\ tracing => NextTo(here, end) \/ here = end
    /\ ~ tracing => here = Last(<<end>> \o kept)

\* The monster comes to where it wants to go, or there is no way: the walk
\* back over the parents never turns in a circle, and the last corner is the
\* cell before the target.
WalkArrives == at = "search" ~> Arrived \/ (NoWay /\ ~ found)
=============================================================================
