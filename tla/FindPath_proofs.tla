--------------------------- MODULE FindPath_proofs ---------------------------
(***************************************************************************)
(* For a map of any size and terrain: the search gives up only where there *)
(* is no way, the route it returns is one and comes to no cell twice, each *)
(* turn of the loops comes nearer to the end, and the walk along the route *)
(* ends where it should.                                                   *)
(***************************************************************************)
EXTENDS FindPath, FiniteSetTheorems, SequenceTheorems, TLAPS

\* The types of what the search works with.
SearchTypes ==
    /\ closed \subseteq Cells /\ start \in Cells /\ end \in Cells
    /\ CanGo(end) /\ kept \in Seq(Cells) /\ found \in BOOLEAN
    /\ at \in Steps
    /\ heap \subseteq Nodes
    /\ best \in [Cells -> Int] /\ parent \in [Cells -> Cells \cup {None}]
    /\ pos \in Cells /\ path \in Seq(Cells)

-----------------------------------------------------------------------------
(* Distances.                                                              *)

LEMMA CellFacts ==
    ASSUME NEW c \in Cells
    PROVE  /\ c.x \in Int /\ c.z \in Int /\ 0 <= c.x /\ 0 <= c.z
           /\ c.x < XSize /\ c.z < ZSize
BY SizeAssumption DEF Cells

LEMMA SameCell ==
    ASSUME NEW c \in Cells, NEW p \in Cells
    PROVE  c = p <=> c.x = p.x /\ c.z = p.z
BY DEF Cells

\* The directions lead to the neighbours.
LEMMA Neighbours ==
    ASSUME NEW c \in Cells, NEW p \in Cells
    PROVE  Minus(c, p) \in Directions <=> NextTo(c, p)
<1>1. /\ c.x \in Int /\ c.z \in Int /\ p.x \in Int /\ p.z \in Int
  BY CellFacts
<1>2. c = p <=> c.x = p.x /\ c.z = p.z
  BY SameCell
<1>3. Minus(c, p) \in [x : -1..1, z : -1..1]
        <=> c.x - p.x \in -1..1 /\ c.z - p.z \in -1..1
  BY DEF Minus
<1>4. Minus(c, p) = Zero <=> c.x - p.x = 0 /\ c.z - p.z = 0
  BY DEF Minus, Zero
<1>5. \A n \in Int : Abs(n) <= 1 <=> n \in -1..1
  BY DEF Abs
<1>6. c.x - p.x \in Int /\ c.z - p.z \in Int
  BY <1>1
<1>7. NextTo(c, p) <=> /\ ~ (c.x = p.x /\ c.z = p.z)
                       /\ c.x - p.x \in -1..1 /\ c.z - p.z \in -1..1
  BY <1>2, <1>5, <1>6 DEF NextTo, Near
<1> QED
  BY <1>1, <1>3, <1>4, <1>7 DEF Directions

LEMMA CostType == \A d : Cost(d) \in {10, 14}
BY DEF Cost

LEMMA HeuristicBounds ==
    ASSUME SearchTypes, NEW c \in Cells
    PROVE  NextH(c) \in Int /\ 0 <= NextH(c) /\ NextH(c) <= 10 * (XSize + ZSize)
<1>1. /\ c.x \in Int /\ c.z \in Int /\ 0 <= c.x /\ 0 <= c.z
      /\ c.x < XSize /\ c.z < ZSize
  BY CellFacts
<1>2. /\ end.x \in Int /\ end.z \in Int /\ 0 <= end.x /\ 0 <= end.z
      /\ end.x < XSize /\ end.z < ZSize
  BY CellFacts DEF SearchTypes
<1>3. /\ Abs(end.z - c.z) \in Int /\ 0 <= Abs(end.z - c.z) /\ Abs(end.z - c.z) <= ZSize
      /\ Abs(end.x - c.x) \in Int /\ 0 <= Abs(end.x - c.x) /\ Abs(end.x - c.x) <= XSize
  BY <1>1, <1>2, SizeAssumption DEF Abs
<1> QED
  BY <1>3, SizeAssumption DEF NextH

LEMMA FirstBounds ==
    ASSUME start \in Cells, end \in Cells
    PROVE  FirstH \in Int /\ 0 <= FirstH /\ FirstH <= 10 * (XSize + ZSize)
<1>1. /\ start.x \in Int /\ start.z \in Int /\ 0 <= start.x /\ 0 <= start.z
      /\ start.x < XSize /\ start.z < ZSize /\ end.z \in Int
  BY CellFacts
<1>2. /\ Abs(start.z - start.x) \in Int /\ 0 <= Abs(start.z - start.x)
      /\ Abs(start.z - start.x) <= XSize + ZSize
  BY <1>1, SizeAssumption DEF Abs
<1>3. Abs(end.z - end.z) = 0
  BY <1>1 DEF Abs
<1> QED
  BY <1>2, <1>3, SizeAssumption DEF FirstH

LEMMA CellsFinite == IsFiniteSet(Cells) /\ Cardinality(Cells) \in Nat
<1> DEFINE f == [p \in (0..(XSize - 1)) \X (0..(ZSize - 1)) |-> [x |-> p[1], z |-> p[2]]]
<1>1. /\ IsFiniteSet(0..(XSize - 1)) /\ IsFiniteSet(0..(ZSize - 1))
  BY FS_Interval, SizeAssumption
<1>2. IsFiniteSet((0..(XSize - 1)) \X (0..(ZSize - 1)))
  BY <1>1, FS_Product
<1>3. \A c \in Cells : \E p \in (0..(XSize - 1)) \X (0..(ZSize - 1)) : f[p] = c
  <2> TAKE c \in Cells
  <2>1. <<c.x, c.z>> \in (0..(XSize - 1)) \X (0..(ZSize - 1))
    BY DEF Cells
  <2>2. f[<<c.x, c.z>>] = c
    BY <2>1 DEF Cells
  <2> QED
    BY <2>1, <2>2
<1>4. f \in Surjection((0..(XSize - 1)) \X (0..(ZSize - 1)), Cells)
  <2>1. f \in [(0..(XSize - 1)) \X (0..(ZSize - 1)) -> Cells]
    BY DEF Cells
  <2> QED
    BY <1>3, <2>1 DEF Surjection
<1>5. IsFiniteSet(Cells)
  BY <1>2, <1>4, FS_Surjection
<1> QED
  BY <1>5, FS_CardinalityType

-----------------------------------------------------------------------------
(* The search.                                                             *)

\* Improvements only: what is in the heap was pushed for a cell that has been
\* come to, and is not better than the best of its cell.
NotBetter == \A node \in heap : best[node.pos] <= node.f /\ node.pos \in Visited

\* No cell is taken for unvisited because it is too far.
AllBounded == \A c \in Cells : best[c] <= Infinite

\* The first node has an h of another formula; each cell on the way to another
\* adds at most 14.
Farthest == FirstH + 14 * (Cardinality(Visited) - 1)
Short ==
    /\ \A node \in heap : node.g <= Farthest
    /\ \A c \in Visited : best[c] - NextH(c) <= Farthest

\* A cell that the search has come to has been expanded, or its best node is
\* still to be; the end is never expanded.
Expanded(c) == \A q \in Cells : NextTo(q, c) /\ CanGo(q) => q \in Visited
Waiting(c) == \E node \in heap : node.pos = c /\ node.f = best[c]
Frontier ==
    /\ ~ found => \A c \in Visited : Waiting(c) \/ (c # end /\ Expanded(c))
    /\ at # "search" => found \/ heap = {}
    /\ at = "search" => ~ found

\* Who has been come to was come to from a neighbour that had.
Linked ==
    /\ start \in Visited
    /\ \A c \in Visited \ {start} :
          CanGo(c) /\ parent[c] \in Visited /\ NextTo(c, parent[c])
    /\ found => end \in Visited

\* Who wants to go where it is stays there.
Nowhere == start = end => parent[start] = start /\ \A node \in heap : node.pos = start

SearchInv ==
    /\ SearchTypes /\ NotBetter /\ AllBounded /\ Short /\ Frontier /\ Linked
    /\ Nowhere

LEMMA VisitedSize ==
    ASSUME NEW S \in SUBSET Cells
    PROVE  IsFiniteSet(S) /\ Cardinality(S) \in Nat /\ Cardinality(S) <= Cardinality(Cells)
BY CellsFinite, FS_Subset, FS_CardinalityType

\* What a node that is expanded costs its neighbours is less than Infinite.
LEMMA NextBounds ==
    ASSUME SearchInv, NEW node \in heap, NEW c \in Cells
    PROVE  /\ NextG(node, c) \in Int /\ NextF(node, c) \in Int
           /\ NextF(node, c) < Infinite
           /\ NextG(node, c) <= Farthest + 14
           /\ NextF(node, c) = NextG(node, c) + NextH(c)
           /\ Farthest \in Int
<1>1. node.g \in Int /\ node.g <= Farthest
  BY DEF SearchInv, SearchTypes, Nodes, Short
<1>2. /\ NextH(c) \in Int /\ NextH(c) <= 10 * (XSize + ZSize)
      /\ FirstH \in Int /\ FirstH <= 10 * (XSize + ZSize)
  BY HeuristicBounds, FirstBounds DEF SearchInv, SearchTypes
<1>3. Cardinality(Visited) \in Nat /\ Cardinality(Visited) <= Cardinality(Cells)
  BY VisitedSize DEF Visited
<1>4. Farthest \in Int /\ Farthest = FirstH + 14 * (Cardinality(Visited) - 1)
  BY <1>2, <1>3 DEF Farthest
<1>5. NextG(node, c) \in Int /\ NextG(node, c) <= node.g + 14
  BY <1>1, CostType DEF NextG
<1>6. XSize \in Nat /\ ZSize \in Nat /\ Cardinality(Cells) \in Nat
  BY SizeAssumption, CellsFinite
<1>7. Farthest + 14 + NextH(c) < Infinite
  BY <1>2, <1>3, <1>4, <1>6, WidthAssumption DEF Infinite
<1>8. NextF(node, c) = NextG(node, c) + NextH(c)
  BY DEF NextF
<1> HIDE DEF Infinite
<1>9. Infinite \in Int
  BY DEF Infinite
<1> QED
  BY <1>1, <1>2, <1>4, <1>5, <1>7, <1>8, <1>9

LEMMA InitSearch == Init => SearchInv
<1> SUFFICES ASSUME Init PROVE SearchInv
  OBVIOUS
<1> HIDE DEF Infinite
<1>1. /\ start \in Cells /\ end \in Cells /\ CanGo(end) /\ closed \subseteq Cells
      /\ kept \in Seq(Cells)
  <2>1. start \in Cells /\ end \in Cells /\ CanGo(end)
    BY DEF Init
  <2>2. closed \subseteq Cells
    BY TerrainAssumption DEF Init
  <2>3. kept = << >> \/ \E c \in Cells : kept = <<c>>
    BY DEF Init
  <2>4. kept \in Seq(Cells)
    <3>1. << >> \in Seq(Cells) /\ \A c \in Cells : <<c>> \in Seq(Cells)
      OBVIOUS
    <3> QED
      BY <2>3, <3>1
  <2> QED
    BY <2>1, <2>2, <2>4
<1>2. FirstH \in Int /\ 0 <= FirstH /\ FirstH <= 10 * (XSize + ZSize)
  BY <1>1, FirstBounds
<1>3. FirstH < Infinite /\ Infinite \in Int
  BY <1>2, SizeAssumption, CellsFinite, WidthAssumption DEF Infinite
<1>4. /\ heap = {[f |-> FirstH, g |-> 0, pos |-> start]}
      /\ best = [c \in Cells |-> IF c = start THEN FirstH ELSE Infinite]
      /\ parent = [c \in Cells |-> IF c = start THEN start ELSE None]
      /\ found = FALSE /\ at = "search" /\ pos = end /\ path = kept
  BY DEF Init
<1>5. SearchTypes
  <2>1. heap \subseteq Nodes
    BY <1>1, <1>2, <1>4 DEF Nodes
  <2>2. best \in [Cells -> Int]
    BY <1>2, <1>3, <1>4
  <2>3. parent \in [Cells -> Cells \cup {None}]
    BY <1>1, <1>4
  <2>4. found \in BOOLEAN /\ at \in Steps /\ pos \in Cells /\ path \in Seq(Cells)
    BY <1>1, <1>4 DEF Steps
  <2> QED
    BY <1>1, <2>1, <2>2, <2>3, <2>4 DEF SearchTypes
<1>6. Visited = {start}
  BY <1>1, <1>3, <1>4 DEF Visited
<1>7. Cardinality(Visited) = 1
  BY <1>6, FS_Singleton
<1>8. Farthest = FirstH
  BY <1>2, <1>7 DEF Farthest
<1>9. NextH(start) \in Int /\ 0 <= NextH(start)
  BY <1>1, <1>5, HeuristicBounds
<1>10. \A node \in heap : node.f = FirstH /\ node.g = 0 /\ node.pos = start
  BY <1>4
<1>11. best[start] = FirstH
  BY <1>1, <1>4
<1>12. NotBetter /\ AllBounded
  BY <1>2, <1>3, <1>4, <1>6, <1>10, <1>11 DEF NotBetter, AllBounded
<1>13. Short
  BY <1>2, <1>6, <1>8, <1>9, <1>10, <1>11 DEF Short
<1>14. Frontier
  <2>1. Waiting(start)
    BY <1>4, <1>11 DEF Waiting
  <2> QED
    BY <1>4, <1>6, <2>1 DEF Frontier
<1>15. Linked /\ Nowhere
  BY <1>1, <1>4, <1>6, <1>10 DEF Linked, Nowhere
<1> QED
  BY <1>5, <1>12, <1>13, <1>14, <1>15 DEF SearchInv

\* A turn of the search loop that looks at the neighbours.
LEMMA ExpandSearch ==
    ASSUME SearchInv, NEW node \in heap, Expand(node)
    PROVE  SearchInv'
<1> HIDE DEF Infinite
<1> USE DEF SearchInv
<1> DEFINE pushed == Pushed(node)
           new(c) == [f |-> NextF(node, c), g |-> NextG(node, c), pos |-> c]
<1>1. /\ node.pos \in Cells /\ node.pos \in Visited /\ node.pos # end
      /\ node.f \in Int /\ node.g \in Int
      /\ best[node.pos] = node.f
  BY DEF Expand, SearchTypes, Nodes, NotBetter, Visited
<1>2. \A c : c \in pushed <=> /\ c \in Cells /\ NextTo(c, node.pos) /\ CanGo(c)
                              /\ NextF(node, c) < best[c]
  BY <1>1, Neighbours DEF Pushed
<1>3. /\ heap' = (heap \ {node}) \cup {new(c) : c \in pushed}
      /\ best' = [c \in Cells |-> IF c \in pushed THEN NextF(node, c) ELSE best[c]]
      /\ parent' = [c \in Cells |-> IF c \in pushed THEN node.pos ELSE parent[c]]
      /\ at = "search" /\ ~ found
      /\ UNCHANGED <<query, at, found, pos, path, conner, here>>
  BY DEF Expand, Parented, Frontier
<1> HIDE DEF pushed
<1>4. UNCHANGED <<closed, start, end, tracing, kept>>
  BY <1>3 DEF query
<1>5. \A c \in Cells : /\ NextG(node, c) \in Int /\ NextF(node, c) \in Int
                      /\ NextF(node, c) < Infinite
                      /\ NextG(node, c) <= Farthest + 14
                      /\ NextF(node, c) = NextG(node, c) + NextH(c)
                      /\ Farthest \in Int /\ NextH(c)' = NextH(c)
  BY <1>4, NextBounds DEF NextH
<1>6. \A c \in Cells : best[c] \in Int
  BY DEF SearchTypes
<1>7. Infinite \in Int
  BY DEF Infinite
<1>8. \A c \in Cells : c \in pushed => best'[c] = NextF(node, c)
  BY <1>3
<1>9. \A c \in Cells : c \notin pushed => best'[c] = best[c]
  BY <1>3
<1>10. Visited' = Visited \cup pushed
  <2>1. \A c \in Cells : best'[c] # Infinite <=> best[c] # Infinite \/ c \in pushed
    BY <1>5, <1>6, <1>7, <1>8, <1>9
  <2>2. Visited' \subseteq Cells /\ Visited \subseteq Cells /\ pushed \subseteq Cells
    BY <1>2 DEF Visited
  <2> QED
    BY <2>1, <2>2 DEF Visited
<1>11. SearchTypes'
  <2>1. heap' \subseteq Nodes
    BY <1>2, <1>3, <1>5 DEF SearchTypes, Nodes
  <2>2. best' \in [Cells -> Int]
    BY <1>3, <1>5, <1>6
  <2>3. parent' \in [Cells -> Cells \cup {None}]
    BY <1>1, <1>3 DEF SearchTypes
  <2> QED
    BY <1>3, <1>4, <2>1, <2>2, <2>3 DEF SearchTypes, CanGo
<1>12. AllBounded'
  BY <1>5, <1>6, <1>7, <1>8, <1>9 DEF AllBounded
<1>13. \A c \in Cells : best'[c] <= best[c]
  BY <1>2, <1>5, <1>6, <1>8, <1>9
<1>14. \A other \in heap' :
         \/ other \in heap
         \/ \E c \in pushed : other = new(c)
  BY <1>3
<1>15. NotBetter'
  <2> SUFFICES ASSUME NEW other \in heap'
               PROVE  best'[other.pos] <= other.f /\ other.pos \in Visited'
    BY DEF NotBetter
  <2>1. CASE other \in heap
    <3>1. /\ best[other.pos] <= other.f /\ other.pos \in Visited
          /\ other.pos \in Cells /\ other.f \in Int
      BY <2>1 DEF NotBetter, SearchTypes, Nodes
    <3>2. /\ best'[other.pos] \in Int /\ best[other.pos] \in Int
          /\ best'[other.pos] <= best[other.pos]
      BY <1>6, <1>11, <1>13, <3>1 DEF SearchTypes
    <3> QED
      BY <1>10, <3>1, <3>2
  <2>2. CASE \E c \in pushed : other = new(c)
    <3>1. PICK c \in pushed : other = new(c)
      BY <2>2
    <3>2. c \in Cells /\ other.pos = c /\ other.f = NextF(node, c)
      BY <1>2, <3>1
    <3> QED
      BY <1>5, <1>8, <1>10, <3>1, <3>2
  <2> QED
    BY <1>14, <2>1, <2>2
<1>16. /\ Cardinality(Visited) \in Nat /\ Cardinality(Visited') \in Nat
       /\ Cardinality(Visited) <= Cardinality(Visited')
       /\ pushed \subseteq Visited \/ Cardinality(Visited) + 1 <= Cardinality(Visited')
  <2>1. Visited \in SUBSET Cells /\ Visited' \in SUBSET Cells
    BY <1>2, <1>10 DEF Visited
  <2>2. /\ IsFiniteSet(Visited') /\ Cardinality(Visited) \in Nat
        /\ Cardinality(Visited') \in Nat
    BY <2>1, VisitedSize
  <2>3. Visited \in SUBSET Visited'
    BY <1>10
  <2>4. /\ Cardinality(Visited) <= Cardinality(Visited')
        /\ Cardinality(Visited') = Cardinality(Visited) => Visited' = Visited
    BY <2>2, <2>3, FS_Subset
  <2> QED
    BY <1>10, <2>2, <2>4
<1>17. FirstH' = FirstH /\ FirstH \in Int
  BY <1>4, FirstBounds DEF FirstH, SearchTypes
<1>18. /\ Farthest' \in Int /\ Farthest \in Int /\ Farthest <= Farthest'
       /\ pushed \subseteq Visited \/ Farthest + 14 <= Farthest'
  BY <1>16, <1>17 DEF Farthest
<1>19. \A c \in pushed : NextG(node, c) <= Farthest'
  <2> TAKE c \in pushed
  <2>1. c \in Cells /\ NextF(node, c) < best[c]
    BY <1>2
  <2>2. NextH(c) \in Int
    BY <2>1, HeuristicBounds
  <2>3. CASE c \in Visited
    <3>1. best[c] - NextH(c) <= Farthest
      BY <2>3 DEF Short
    <3> QED
      BY <1>5, <1>6, <1>18, <2>1, <2>2, <3>1
  <2>4. CASE c \notin Visited
    BY <1>5, <1>18, <2>1, <2>4
  <2> QED
    BY <2>3, <2>4
<1>20. Short'
  <2>1. ASSUME NEW other \in heap' PROVE other.g <= Farthest'
    <3>1. CASE other \in heap
      BY <1>18, <3>1 DEF Short, SearchTypes, Nodes
    <3>2. CASE \E c \in pushed : other = new(c)
      BY <1>19, <3>2
    <3> QED
      BY <1>14, <2>1, <3>1, <3>2
  <2>2. ASSUME NEW c \in Visited' PROVE best'[c] - NextH(c)' <= Farthest'
    <3>1. c \in Cells
      BY <2>2 DEF Visited
    <3>2. NextH(c) \in Int /\ NextH(c)' = NextH(c)
      BY <1>5, <3>1, HeuristicBounds
    <3>3. CASE c \in pushed
      <4>1. best'[c] = NextG(node, c) + NextH(c) /\ NextG(node, c) \in Int
        BY <1>5, <1>8, <3>1, <3>3
      <4>2. NextG(node, c) <= Farthest'
        BY <1>19, <3>3
      <4> QED
        BY <1>18, <3>2, <4>1, <4>2
    <3>4. CASE c \notin pushed
      <4>1. c \in Visited /\ best'[c] = best[c]
        BY <1>9, <1>10, <2>2, <3>1, <3>4
      <4>2. best[c] - NextH(c) <= Farthest
        BY <4>1 DEF Short
      <4> QED
        BY <1>6, <1>18, <3>1, <3>2, <4>1, <4>2
    <3> QED
      BY <3>3, <3>4
  <2> QED
    BY <2>1, <2>2 DEF Short
<1>21. \A q \in Cells : NextTo(q, node.pos) /\ CanGo(q) => q \in Visited'
  <2> TAKE q \in Cells
  <2> HAVE NextTo(q, node.pos) /\ CanGo(q)
  <2>1. CASE q \in pushed
    BY <1>10, <2>1
  <2>2. CASE q \notin pushed
    <3>1. best[q] <= NextF(node, q)
      BY <1>2, <1>5, <1>6, <2>2
    <3>2. best[q] # Infinite
      BY <1>5, <1>6, <1>7, <3>1
    <3> QED
      BY <1>10, <3>2 DEF Visited
  <2> QED
    BY <2>1, <2>2
<1>22. Frontier'
  <2> SUFFICES ASSUME NEW c \in Visited'
               PROVE  \/ Waiting(c)'
                      \/ c # end /\ \A q \in Cells : NextTo(q, c) /\ CanGo(q) => q \in Visited'
    BY <1>3, <1>4 DEF Frontier, Expanded, CanGo, NextTo, Near
  <2>1. c \in Cells
    BY DEF Visited
  <2>2. CASE c \in pushed
    <3>1. new(c) \in heap'
      BY <1>3, <2>2
    <3>2. new(c).pos = c /\ new(c).f = best'[c]
      BY <1>8, <2>1, <2>2
    <3> QED
      BY <3>1, <3>2 DEF Waiting
  <2>3. CASE c \notin pushed
    <3>1. c \in Visited /\ best'[c] = best[c]
      BY <1>9, <1>10, <2>1, <2>3
    <3>2. CASE Waiting(c)
      <4>1. PICK other \in heap : other.pos = c /\ other.f = best[c]
        BY <3>2 DEF Waiting
      <4>2. CASE other = node
        BY <1>1, <1>21, <4>1, <4>2
      <4>3. CASE other # node
        <5>1. other \in heap'
          BY <1>3, <4>3
        <5> QED
          BY <3>1, <4>1, <5>1 DEF Waiting
      <4> QED
        BY <4>2, <4>3
    <3>3. CASE c # end /\ Expanded(c)
      BY <1>10, <3>3 DEF Expanded
    <3> QED
      BY <1>3, <3>1, <3>2, <3>3 DEF Frontier
  <2> QED
    BY <2>2, <2>3
<1>23. Linked'
  <2>1. start' \in Visited'
    BY <1>4, <1>10 DEF Linked
  <2>2. ASSUME NEW c \in Visited', c # start
        PROVE  CanGo(c)' /\ parent'[c] \in Visited' /\ NextTo(c, parent'[c])
    <3>1. c \in Cells /\ CanGo(c)' = CanGo(c)
      BY <1>4 DEF Visited, CanGo
    <3>2. CASE c \in pushed
      BY <1>1, <1>2, <1>3, <1>10, <3>1, <3>2
    <3>3. CASE c \notin pushed
      <4>1. c \in Visited /\ parent'[c] = parent[c]
        BY <1>3, <1>10, <3>1, <3>3
      <4> QED
        BY <1>10, <2>2, <3>1, <4>1 DEF Linked
    <3> QED
      BY <3>2, <3>3
  <2> QED
    BY <1>3, <1>4, <2>1, <2>2 DEF Linked, NextTo, Near
<1>24. Nowhere'
  BY <1>1, <1>4 DEF Nowhere
<1> QED
  BY <1>11, <1>12, <1>15, <1>20, <1>22, <1>23, <1>24

\* A node that its cell has no more use for.
LEMMA OutdatedSearch ==
    ASSUME SearchInv, NEW node \in heap, Outdated(node)
    PROVE  SearchInv'
<1> HIDE DEF Infinite
<1> USE DEF SearchInv
<1>1. /\ heap' = heap \ {node} /\ best[node.pos] < node.f /\ at = "search"
      /\ UNCHANGED <<query, at, best, parent, found, pos, path>>
  BY DEF Outdated
<1>2. UNCHANGED <<closed, start, end, tracing, kept>>
  BY <1>1 DEF query
<1>3. Visited' = Visited /\ FirstH' = FirstH /\ heap' \subseteq heap
  BY <1>1, <1>2 DEF Visited, FirstH
<1>4. Farthest' = Farthest
  BY <1>3 DEF Farthest
<1>5. \A c : Waiting(c) => Waiting(c)'
  <2> SUFFICES ASSUME NEW c, NEW other \in heap, other.pos = c, other.f = best[c]
               PROVE  Waiting(c)'
    BY DEF Waiting
  <2>1. other # node
    <3>1. best[node.pos] \in Int /\ node.f \in Int
      BY DEF SearchTypes, Nodes
    <3> QED
      BY <1>1, <3>1
  <2> QED
    BY <1>1, <2>1 DEF Waiting
<1>6. SearchTypes'
  BY <1>1, <1>2 DEF SearchTypes, CanGo
<1>7. NotBetter' /\ AllBounded'
  BY <1>1, <1>3 DEF NotBetter, AllBounded
<1>8. Short'
  BY <1>1, <1>2, <1>3, <1>4 DEF Short, NextH
<1>9. Frontier'
  BY <1>1, <1>2, <1>3, <1>5 DEF Frontier, Expanded, CanGo, NextTo, Near
<1>10. Linked'
  BY <1>1, <1>2, <1>3 DEF Linked, CanGo, NextTo, Near
<1>11. Nowhere'
  BY <1>1, <1>2 DEF Nowhere
<1> QED
  BY <1>6, <1>7, <1>8, <1>9, <1>10, <1>11

\* The end is at the top.
LEMMA ArriveSearch ==
    ASSUME SearchInv, NEW node \in heap, Arrive(node)
    PROVE  SearchInv'
<1> HIDE DEF Infinite
<1> USE DEF SearchInv
<1>1. /\ heap' = heap \ {node} /\ node.pos = end /\ at' = "back" /\ found' = TRUE
      /\ UNCHANGED <<query, best, parent, pos, path>>
  BY DEF Arrive
<1>2. UNCHANGED <<closed, start, end, tracing, kept>>
  BY <1>1 DEF query
<1>3. Visited' = Visited /\ FirstH' = FirstH /\ heap' \subseteq heap
  BY <1>1, <1>2 DEF Visited, FirstH
<1>4. Farthest' = Farthest
  BY <1>3 DEF Farthest
<1>5. SearchTypes'
  BY <1>1, <1>2 DEF SearchTypes, CanGo, Steps
<1>6. NotBetter' /\ AllBounded'
  BY <1>1, <1>3 DEF NotBetter, AllBounded
<1>7. Short'
  BY <1>1, <1>2, <1>3, <1>4 DEF Short, NextH
<1>8. Frontier'
  BY <1>1 DEF Frontier
<1>9. Linked'
  <2>1. end \in Visited
    BY <1>1 DEF NotBetter
  <2> QED
    BY <1>1, <1>2, <1>3, <2>1 DEF Linked, CanGo, NextTo, Near
<1>10. Nowhere'
  BY <1>1, <1>2 DEF Nowhere
<1> QED
  BY <1>5, <1>6, <1>7, <1>8, <1>9, <1>10

\* After the search only the walk back writes what the search has left, and
\* what it writes is a parent where there was none.
LEMMA AfterSearch ==
    ASSUME SearchInv, at # "search", at' \in Steps \ {"search"},
           UNCHANGED <<query, heap, best, found>>,
           pos' \in Cells, path' \in Seq(Cells),
           \/ UNCHANGED parent
           \/ \E c \in Cells : parent' = [parent EXCEPT ![c] =
                                            IF parent[c] = None THEN pos' ELSE parent[c]]
    PROVE  SearchInv'
<1> HIDE DEF Infinite
<1> USE DEF SearchInv
<1>1. UNCHANGED <<closed, start, end, tracing, kept>>
  BY DEF query
<1>2. Visited' = Visited /\ FirstH' = FirstH
  BY <1>1 DEF Visited, FirstH
<1>3. Farthest' = Farthest
  BY <1>2 DEF Farthest
<1>4. parent' \in [Cells -> Cells \cup {None}]
  BY DEF SearchTypes
<1>5. \A c \in Cells : parent[c] # None => parent'[c] = parent[c]
  BY DEF SearchTypes
<1>6. SearchTypes'
  BY <1>1, <1>4 DEF SearchTypes, CanGo
<1>7. NotBetter' /\ AllBounded'
  BY <1>2 DEF NotBetter, AllBounded
<1>8. Short'
  BY <1>1, <1>2, <1>3 DEF Short, NextH
<1>9. Frontier'
  BY <1>1, <1>2 DEF Frontier, Expanded, CanGo, NextTo, Near, Waiting
<1>10. Visited \subseteq Cells /\ None \notin Visited
  BY ParentAssumption DEF Visited
<1>11. Linked'
  <2>1. \A c \in Visited \ {start} : parent'[c] = parent[c]
    BY <1>5, <1>10 DEF Linked
  <2> QED
    BY <1>1, <1>2, <2>1 DEF Linked, CanGo, NextTo, Near
<1>12. Nowhere'
  <2>1. start = end => parent'[start] = parent[start]
    BY <1>5, ParentAssumption DEF Nowhere, SearchTypes
  <2> QED
    BY <1>1, <2>1 DEF Nowhere
<1> QED
  BY <1>6, <1>7, <1>8, <1>9, <1>11, <1>12

LEMMA BeforeCell == ASSUME SearchInv PROVE Before \in Cells
<1>1. Corner \in Cells
  BY SizeAssumption DEF Corner, Cells
<1> QED
  BY <1>1 DEF SearchInv, SearchTypes, Before

LEMMA NextSearch ==
    ASSUME SearchInv, [Next]_vars
    PROVE  SearchInv'
<1> HIDE DEF Infinite
<1>1. ASSUME NEW node \in heap, Outdated(node) \/ Arrive(node) \/ Expand(node)
      PROVE  SearchInv'
  BY <1>1, OutdatedSearch, ArriveSearch, ExpandSearch
<1>2. CASE Exhausted
  <2>1. heap = {} /\ at' = "back" /\ UNCHANGED <<query, heap, best, parent, found, pos, path>>
    BY <1>2 DEF Exhausted
  <2>2. UNCHANGED <<closed, start, end, tracing, kept>>
    BY <2>1 DEF query
  <2>3. Visited' = Visited /\ FirstH' = FirstH
    BY <2>1, <2>2 DEF Visited, FirstH
  <2>4. Farthest' = Farthest
    BY <2>3 DEF Farthest
  <2>5. SearchTypes'
    BY <2>1, <2>2 DEF SearchInv, SearchTypes, CanGo, Steps
  <2>6. Frontier'
    BY <2>1, <2>2, <2>3
       DEF SearchInv, Frontier, Expanded, CanGo, NextTo, Near, Waiting
  <2>7. NotBetter' /\ AllBounded' /\ Nowhere'
    BY <2>1, <2>2, <2>3 DEF SearchInv, NotBetter, AllBounded, Nowhere
  <2>8. Short'
    BY <2>1, <2>2, <2>3, <2>4 DEF SearchInv, Short, NextH
  <2>9. Linked'
    BY <2>1, <2>2, <2>3 DEF SearchInv, Linked, CanGo, NextTo, Near
  <2> QED
    BY <2>5, <2>6, <2>7, <2>8, <2>9 DEF SearchInv
<1>3. CASE WalkBack
  <2>1. Before \in Cells /\ pos \in Cells /\ path \in Seq(Cells)
    BY BeforeCell DEF SearchInv, SearchTypes
  <2>2. /\ at = "back" /\ at' \in {"back", "turn"}
        /\ UNCHANGED <<query, heap, best, found>>
        /\ pos' = Before /\ parent' = [parent EXCEPT ![pos] = Before]
    BY <1>3 DEF WalkBack
  <2>3. path' \in Seq(Cells)
    <3>1. Append(path, pos) \in Seq(Cells)
      BY <2>1
    <3>2. Reverse(Append(path, pos)) \in Seq(Cells)
      BY <3>1 DEF Reverse
    <3> QED
      BY <1>3, <3>1, <3>2 DEF WalkBack
  <2>4. parent' = [parent EXCEPT ![pos] = IF parent[pos] = None THEN pos' ELSE parent[pos]]
    BY <2>2 DEF Before
  <2>5. at # "search" /\ at' \in Steps \ {"search"}
    BY <2>2 DEF Steps
  <2> QED
    BY <2>1, <2>2, <2>3, <2>4, <2>5, AfterSearch
<1>4. CASE Turn
  <2>1. /\ at = "turn" /\ at' \in Steps \ {"search"}
        /\ UNCHANGED <<query, heap, best, parent, found, pos, path>>
    BY <1>4 DEF Turn, Steps
  <2>2. pos' \in Cells /\ path' \in Seq(Cells)
    BY <2>1 DEF SearchInv, SearchTypes
  <2> QED
    BY <2>1, <2>2, AfterSearch
<1>5. CASE Go
  <2>1. /\ at = "go" /\ at' \in Steps \ {"search"}
        /\ UNCHANGED <<query, heap, best, parent, found, pos, path>>
    BY <1>5 DEF Go, Steps
  <2>2. pos' \in Cells /\ path' \in Seq(Cells)
    BY <2>1 DEF SearchInv, SearchTypes
  <2> QED
    BY <2>1, <2>2, AfterSearch
<1>6. CASE UNCHANGED vars
  <2>1. UNCHANGED <<closed, start, end, tracing, kept, at, heap, best, parent, found, pos, path>>
    BY <1>6 DEF vars, query
  <2>2. Visited' = Visited /\ FirstH' = FirstH
    BY <2>1 DEF Visited, FirstH
  <2>3. Farthest' = Farthest
    BY <2>2 DEF Farthest
  <2>4. SearchTypes' /\ NotBetter' /\ AllBounded' /\ Nowhere'
    BY <2>1, <2>2 DEF SearchInv, SearchTypes, CanGo, NotBetter, AllBounded, Nowhere
  <2>5. Short' /\ Linked'
    BY <2>1, <2>2, <2>3 DEF SearchInv, Short, NextH, Linked, CanGo, NextTo, Near
  <2>6. Frontier'
    BY <2>1, <2>2 DEF SearchInv, Frontier, Expanded, CanGo, NextTo, Near, Waiting
  <2> QED
    BY <2>4, <2>5, <2>6 DEF SearchInv
<1> QED
  BY <1>1, <1>2, <1>3, <1>4, <1>5, <1>6 DEF Next

LEMMA Searching == Spec => []SearchInv
<1>1. Init => SearchInv
  BY InitSearch
<1>2. SearchInv /\ [Next]_vars => SearchInv'
  BY NextSearch
<1> QED
  BY <1>1, <1>2, PTL DEF Spec

\* FindPath gives up only where there is no way, on any map: although h
\* overestimates, the first h is that of another formula, and a node is
\* dropped when its cell was improved.
THEOREM SearchIsComplete == Spec => []SearchComplete
<1>1. SearchInv => SearchComplete
  <2> SUFFICES ASSUME SearchInv, at # "search", ~ found PROVE NoWay
    BY DEF SearchComplete
  <2>1. heap = {} /\ \A c \in Visited : Waiting(c) \/ (c # end /\ Expanded(c))
    BY DEF SearchInv, Frontier
  <2>2. \A c \in Visited : c # end /\ Expanded(c)
    BY <2>1 DEF Waiting
  <2>3. start \in Visited
    BY DEF SearchInv, Linked
  <2> QED
    BY <2>2, <2>3 DEF NoWay, Expanded
<1> QED
  BY <1>1, Searching, PTL

-----------------------------------------------------------------------------
(* The walk back.                                                          *)

Unwalked == at = "search" => path = kept /\ pos = end

\* The cells put on the path lead from the end, each to its parent; the next
\* one is pos.
Walking ==
    found /\ at = "back" =>
        /\ Len(kept) <= Len(path) /\ \A i \in 1..Len(kept) : path[i] = kept[i]
        /\ pos \in Visited
        /\ Len(path) = Len(kept) => pos = end
        /\ Len(kept) < Len(path) =>
              /\ path[Len(kept) + 1] = end
              /\ pos # start /\ NextTo(path[Len(path)], pos)
        /\ \A i \in (Len(kept) + 1)..Len(path) : CanGo(path[i])
        /\ \A i \in (Len(kept) + 1)..(Len(path) - 1) : NextTo(path[i], path[i + 1])

RouteInv == SearchInv /\ Unwalked /\ Walking /\ RouteSound

\* A sequence with its beginning turned round at the end.
LEMMA ReversedRoute ==
    ASSUME NEW s \in Seq(Cells), NEW k \in Seq(Cells), Len(k) < Len(s),
           \A i \in 1..Len(k) : s[i] = k[i]
    PROVE  /\ Len(Reverse(s)) = Len(s)
           /\ SubSeq(Reverse(s), 1, Len(Reverse(s)) - Len(k)) \in Seq(Cells)
           /\ Len(SubSeq(Reverse(s), 1, Len(Reverse(s)) - Len(k))) = Len(s) - Len(k)
           /\ \A i \in 1..(Len(s) - Len(k)) :
                 SubSeq(Reverse(s), 1, Len(Reverse(s)) - Len(k))[i] = s[Len(s) - i + 1]
           /\ Reverse(s) = SubSeq(Reverse(s), 1, Len(Reverse(s)) - Len(k)) \o Reverse(k)
<1> DEFINE r == Reverse(s)
           route == SubSeq(r, 1, Len(r) - Len(k))
           n == Len(s) - Len(k)
<1>1. Len(s) \in Nat /\ Len(k) \in Nat /\ n \in Nat \ {0}
  OBVIOUS
<1>2. /\ r \in Seq(Cells) /\ Len(r) = Len(s)
      /\ \A i \in 1..Len(s) : r[i] = s[Len(s) - i + 1]
  BY <1>1 DEF Reverse
<1>3. /\ route \in Seq(Cells) /\ Len(route) = n
      /\ \A i \in 1..n : route[i] = r[i]
  BY <1>1, <1>2
<1>4. \A i \in 1..n : route[i] = s[Len(s) - i + 1]
  BY <1>1, <1>2, <1>3
<1>5. /\ Reverse(k) \in Seq(Cells) /\ Len(Reverse(k)) = Len(k)
      /\ \A i \in 1..Len(k) : Reverse(k)[i] = k[Len(k) - i + 1]
  BY <1>1 DEF Reverse
<1> HIDE DEF r, route
<1> DEFINE both == route \o Reverse(k)
<1>6. /\ both \in Seq(Cells) /\ Len(both) = n + Len(k)
      /\ \A i \in 1..(n + Len(k)) :
            both[i] = IF i <= n THEN route[i] ELSE Reverse(k)[i - n]
  <2>1. /\ both \in Seq(Cells) /\ Len(both) = Len(route) + Len(Reverse(k))
        /\ \A i \in 1..(Len(route) + Len(Reverse(k))) :
              both[i] = IF i <= Len(route) THEN route[i]
                        ELSE Reverse(k)[i - Len(route)]
    <3>1. route \in Seq(Cells) /\ Reverse(k) \in Seq(Cells)
      BY <1>3, <1>5
    <3>2. ASSUME NEW a \in Seq(Cells), NEW b \in Seq(Cells)
          PROVE  /\ a \o b \in Seq(Cells) /\ Len(a \o b) = Len(a) + Len(b)
                 /\ \A i \in 1..(Len(a) + Len(b)) :
                       (a \o b)[i] = IF i <= Len(a) THEN a[i] ELSE b[i - Len(a)]
      OBVIOUS
    <3> QED
      BY <3>1, <3>2, Zenon
  <2>2. Len(route) = n /\ Len(Reverse(k)) = Len(k)
    BY <1>3, <1>5
  <2> HIDE DEF both, n
  <2> QED
    BY <2>1, <2>2
<1>7. Len(both) = Len(r)
  BY <1>1, <1>2, <1>6
<1>8. \A i \in 1..Len(r) : r[i] = both[i]
  <2> TAKE i \in 1..Len(r)
  <2>1. i \in 1..Len(s) /\ i \in 1..(n + Len(k)) /\ i \in Int
    BY <1>1, <1>2
  <2>2. CASE i <= n
    <3>1. i \in 1..n
      BY <1>1, <2>1, <2>2
    <3> QED
      BY <1>3, <1>6, <2>1, <2>2, <3>1
  <2>3. CASE ~ (i <= n)
    <3>1. i - n \in 1..Len(k) /\ Len(k) - (i - n) + 1 \in 1..Len(k)
          /\ Len(k) - (i - n) + 1 = Len(s) - i + 1
      BY <1>1, <2>1, <2>3
    <3>2. Reverse(k)[i - n] = k[Len(k) - (i - n) + 1]
      BY <1>5, <3>1
    <3>3. k[Len(k) - (i - n) + 1] = s[Len(s) - i + 1]
      BY <3>1
    <3>4. both[i] = Reverse(k)[i - n]
      BY <1>6, <2>1, <2>3
    <3> QED
      BY <1>2, <2>1, <3>2, <3>3, <3>4
  <2> QED
    BY <2>2, <2>3
<1>9. r = both
  BY <1>2, <1>6, <1>7, <1>8, SeqEqual
<1> QED
  BY <1>2, <1>3, <1>4, <1>9 DEF r, route

\* One more cell on the path.
LEMMA WalkBackRoute ==
    ASSUME RouteInv, WalkBack
    PROVE  Walking' /\ RouteSound'
<1> HIDE DEF Infinite
<1> SUFFICES ASSUME found' PROVE Walking' /\ RouteSound'
  BY DEF Walking, RouteSound
<1> DEFINE k == Len(kept)
           s == Append(path, pos)
<1>1. /\ at = "back" /\ found /\ UNCHANGED <<closed, start, end, tracing, kept, best>>
      /\ pos' = Before
      /\ IF Before = start THEN path' = Reverse(s) /\ at' = "turn"
         ELSE path' = s /\ at' = "back"
  BY DEF WalkBack, query
<1>2. /\ path \in Seq(Cells) /\ kept \in Seq(Cells) /\ pos \in Cells /\ end \in Cells
      /\ start \in Cells /\ CanGo(end)
  BY DEF RouteInv, SearchInv, SearchTypes
<1>3. /\ k <= Len(path) /\ \A i \in 1..k : path[i] = kept[i]
      /\ pos \in Visited
      /\ Len(path) = k => pos = end
      /\ k < Len(path) => /\ path[k + 1] = end
                          /\ pos # start /\ NextTo(path[Len(path)], pos)
      /\ \A i \in (k + 1)..Len(path) : CanGo(path[i])
      /\ \A i \in (k + 1)..(Len(path) - 1) : NextTo(path[i], path[i + 1])
  BY <1>1 DEF RouteInv, Walking
<1>4. Visited' = Visited /\ (\A c : CanGo(c)' = CanGo(c))
  BY <1>1 DEF Visited, CanGo
<1>5. pos = start => start = end /\ Len(path) = k
  BY <1>2, <1>3
<1>6. /\ CanGo(pos)
      /\ Before \in Visited
      /\ pos # start => NextTo(pos, Before)
      /\ pos = start => Before = start
  <2>1. CASE pos = start
    <3>1. parent[pos] = start
      BY <1>5, <2>1 DEF RouteInv, SearchInv, Nowhere
    <3>2. Before = start
      BY <1>2, <3>1, ParentAssumption DEF Before
    <3> QED
      BY <1>2, <1>3, <1>5, <2>1, <3>2
  <2>2. CASE pos # start
    <3>1. CanGo(pos) /\ parent[pos] \in Visited /\ NextTo(pos, parent[pos])
      BY <1>3, <2>2 DEF RouteInv, SearchInv, Linked
    <3>2. parent[pos] # None
      BY <3>1, ParentAssumption DEF Visited
    <3> QED
      BY <2>2, <3>1, <3>2 DEF Before
  <2> QED
    BY <2>1, <2>2
<1>7. /\ Len(path) \in Nat /\ k \in Nat
      /\ s \in Seq(Cells) /\ Len(s) = Len(path) + 1 /\ s[Len(s)] = pos
      /\ \A i \in 1..Len(path) : s[i] = path[i]
  BY <1>2
<1> HIDE DEF s, k
<1>8. /\ k < Len(s) /\ \A i \in 1..k : s[i] = kept[i]
      /\ s[k + 1] = end
      /\ \A i \in (k + 1)..Len(s) : CanGo(s[i])
      /\ \A i \in (k + 1)..(Len(s) - 1) : NextTo(s[i], s[i + 1])
  <2>1. k < Len(s) /\ \A i \in 1..k : s[i] = kept[i]
    BY <1>3, <1>7
  <2>2. s[k + 1] = end
    <3>1. CASE Len(path) = k
      BY <1>3, <1>7, <3>1
    <3>2. CASE k < Len(path)
      <4>1. k + 1 \in 1..Len(path)
        BY <1>7, <3>2
      <4> QED
        BY <1>3, <1>7, <3>2, <4>1
    <3> QED
      BY <1>3, <1>7, <3>1, <3>2
  <2>3. ASSUME NEW i \in (k + 1)..Len(s) PROVE CanGo(s[i])
    <3>1. CASE i = Len(s)
      BY <1>6, <1>7, <3>1
    <3>2. CASE i # Len(s)
      <4>1. i \in (k + 1)..Len(path) /\ i \in 1..Len(path)
        BY <1>7, <3>2
      <4> QED
        BY <1>3, <1>7, <4>1
    <3> QED
      BY <3>1, <3>2
  <2>4. ASSUME NEW i \in (k + 1)..(Len(s) - 1) PROVE NextTo(s[i], s[i + 1])
    <3>1. CASE i = Len(path)
      <4>1. k < Len(path) /\ i \in 1..Len(path)
        BY <1>7, <3>1
      <4> QED
        BY <1>3, <1>7, <3>1, <4>1
    <3>2. CASE i # Len(path)
      <4>1. i \in (k + 1)..(Len(path) - 1) /\ i \in 1..Len(path) /\ i + 1 \in 1..Len(path)
        BY <1>7, <3>2
      <4> QED
        BY <1>3, <1>7, <4>1
    <3> QED
      BY <3>1, <3>2
  <2> QED
    BY <2>1, <2>2, <2>3, <2>4
<1>9. CASE Before # start
  <2>1. pos # start /\ path' = s /\ at' = "back" /\ pos' = Before
    BY <1>1, <1>6, <1>9
  <2>2. Walking'
    <3>1. /\ Len(kept') = k /\ path' = s /\ start' = start /\ end' = end
      BY <1>1, <2>1 DEF k
    <3>2. /\ pos' \in Visited' /\ pos' # start /\ NextTo(s[Len(s)], pos')
      BY <1>4, <1>6, <1>7, <1>9, <2>1
    <3>3. kept' = kept /\ Len(s) # k /\ k <= Len(s)
      BY <1>1, <1>7, <1>8
    <3> QED
      BY <1>4, <1>7, <1>8, <3>1, <3>2, <3>3 DEF Walking
  <2> QED
    BY <2>1, <2>2 DEF RouteSound
<1>10. CASE Before = start
  <2>1. path' = Reverse(s) /\ at' = "turn" /\ kept' = kept /\ start' = start /\ end' = end
    BY <1>1, <1>10
  <2> DEFINE n == Len(s) - k
             route == SubSeq(Reverse(s), 1, Len(Reverse(s)) - k)
  <2>2. /\ n \in Nat \ {0} /\ Len(route) = n /\ route \in Seq(Cells)
        /\ \A i \in 1..n : route[i] = s[Len(s) - i + 1]
        /\ Reverse(s) = route \o Reverse(kept)
    <3>1. s \in Seq(Cells) /\ kept \in Seq(Cells) /\ Len(kept) < Len(s)
          /\ \A i \in 1..Len(kept) : s[i] = kept[i]
      BY <1>2, <1>7, <1>8 DEF k
    <3>2. n \in Nat \ {0}
      BY <1>7, <1>8
    <3>3. k = Len(kept)
      BY DEF k
    <3> QED
      BY <3>1, <3>2, <3>3, ReversedRoute
  <2>3. Route' = route
    BY <2>1 DEF Route, k
  <2> HIDE DEF route
  <2>4. route # << >> /\ Last(route) = end
    <3>1. Last(route) = s[Len(s) - n + 1] /\ Len(s) - n + 1 = k + 1
      BY <1>7, <2>2, SMTT(30) DEF Last
    <3> QED
      BY <1>8, <2>2, <3>1
  <2>5. NextTo(route[1], start) \/ (start = end /\ route = <<end>>)
    <3>1. route[1] = pos
      BY <1>7, <2>2
    <3>2. CASE pos = start
      <4>1. n = 1 /\ start = end
        BY <1>5, <1>7, <3>2
      <4> QED
        BY <2>2, <3>1, <3>2, <4>1
    <3>3. CASE pos # start
      BY <1>6, <1>10, <3>1, <3>3
    <3> QED
      BY <3>2, <3>3
  <2>6. ASSUME NEW i \in 1..(Len(route) - 1) PROVE NextTo(route[i + 1], route[i])
    <3>1. /\ Len(s) - i \in (k + 1)..(Len(s) - 1)
          /\ i \in 1..n /\ i + 1 \in 1..n
          /\ Len(s) - (i + 1) + 1 = Len(s) - i
          /\ Len(s) - i + 1 = (Len(s) - i) + 1
      BY <1>7, <2>2
    <3>2. route[i + 1] = s[Len(s) - i] /\ route[i] = s[(Len(s) - i) + 1]
      BY <2>2, <3>1
    <3> QED
      BY <1>8, <3>1, <3>2
  <2>7. ASSUME NEW i \in 1..Len(route) PROVE CanGo(route[i])
    <3>1. Len(s) - i + 1 \in (k + 1)..Len(s) /\ i \in 1..n
      BY <1>7, <2>2
    <3> QED
      BY <1>8, <2>2, <3>1
  <2>8. RouteSound'
    BY <1>4, <2>1, <2>2, <2>3, <2>4, <2>5, <2>6, <2>7 DEF RouteSound, NextTo, Near
  <2> QED
    BY <2>1, <2>8 DEF Walking
<1> QED
  BY <1>9, <1>10

LEMMA NextRoute ==
    ASSUME RouteInv, [Next]_vars
    PROVE  RouteInv'
<1> HIDE DEF Infinite
<1>1. SearchInv'
  BY NextSearch DEF RouteInv
<1>2. ASSUME NEW node \in heap, Outdated(node) \/ Expand(node)
      PROVE  Unwalked' /\ Walking' /\ RouteSound'
  <2>1. at = "search" /\ UNCHANGED <<query, at, found, pos, path>>
    BY <1>2 DEF Outdated, Expand
  <2> QED
    BY <2>1 DEF RouteInv, Unwalked, Walking, RouteSound, query
<1>3. ASSUME NEW node \in heap, Arrive(node)
      PROVE  Unwalked' /\ Walking' /\ RouteSound'
  <2>1. /\ at = "search" /\ at' = "back" /\ found' = TRUE
        /\ UNCHANGED <<query, best, pos, path>>
    BY <1>3 DEF Arrive
  <2>2. path' = kept' /\ pos' = end'
    BY <2>1 DEF RouteInv, Unwalked, query
  <2>3. pos' \in Visited'
    BY <1>1, <2>1, <2>2 DEF SearchInv, Linked
  <2>4. Len(kept') \in Nat
    BY <1>1 DEF SearchInv, SearchTypes
  <2> QED
    BY <2>1, <2>2, <2>3, <2>4 DEF Unwalked, Walking, RouteSound
<1>4. ASSUME Exhausted PROVE Unwalked' /\ Walking' /\ RouteSound'
  <2>1. at' = "back" /\ ~ found'
    BY <1>4 DEF Exhausted, RouteInv, SearchInv, Frontier
  <2> QED
    BY <2>1 DEF Unwalked, Walking, RouteSound
<1>5. ASSUME WalkBack PROVE Unwalked' /\ Walking' /\ RouteSound'
  <2>1. Unwalked'
    BY <1>5 DEF WalkBack, Unwalked
  <2> QED
    BY <1>5, <2>1, WalkBackRoute
<1>6. ASSUME Turn \/ Go PROVE Unwalked' /\ Walking' /\ RouteSound'
  <2>1. /\ at \in {"turn", "go"} /\ at' \in {"go", "done"}
        /\ UNCHANGED <<query, found, path>>
    BY <1>6 DEF Turn, Go
  <2>2. Route' = Route /\ UNCHANGED <<closed, start, end, kept>>
    BY <2>1 DEF Route, query
  <2> QED
    BY <2>1, <2>2 DEF RouteInv, Unwalked, Walking, RouteSound, CanGo, NextTo, Near
<1>7. ASSUME UNCHANGED vars PROVE Unwalked' /\ Walking' /\ RouteSound'
  <2>1. UNCHANGED <<closed, start, end, kept, at, best, found, pos, path>>
    BY <1>7 DEF vars, query
  <2>2. Visited' = Visited /\ Route' = Route
    BY <2>1 DEF Visited, Route
  <2> QED
    BY <2>1, <2>2 DEF RouteInv, Unwalked, Walking, RouteSound, CanGo, NextTo, Near
<1> QED
  BY <1>1, <1>2, <1>3, <1>4, <1>5, <1>6, <1>7 DEF Next, RouteInv

LEMMA Routed == Spec => []RouteInv
<1>1. Init => RouteInv
  <2> SUFFICES ASSUME Init PROVE RouteInv
    OBVIOUS
  <2>1. at = "search" /\ path = kept /\ pos = end
    BY DEF Init
  <2> QED
    BY <2>1, InitSearch DEF RouteInv, Unwalked, Walking, RouteSound
<1>2. RouteInv /\ [Next]_vars => RouteInv'
  BY NextRoute
<1> QED
  BY <1>1, <1>2, PTL DEF Spec

\* What FindPath returns is a way: from the cell next to the start to the end,
\* each cell next to the one before and none closed, followed by what an
\* earlier search left on the path.
THEOREM RouteIsSound == Spec => []RouteSound
<1>1. RouteInv => RouteSound
  BY DEF RouteInv
<1> QED
  BY <1>1, Routed, PTL

-----------------------------------------------------------------------------
(* The corners, and the walk.                                              *)

\* A set of positions can be counted through: each has a rank, which grows with
\* it, and the k-th is the one of rank k.
LEMMA Counted ==
    ASSUME NEW n \in Nat, NEW S \in SUBSET (1..n)
    PROVE  /\ Cardinality(S) \in Nat
           /\ S # {} => Cardinality(S) > 0
           /\ \E rank \in [S -> 1..Cardinality(S)] :
                /\ \A i, j \in S : i < j => rank[i] < rank[j]
                /\ \A k \in 1..Cardinality(S) :
                        Nth(S, k) \in S /\ rank[Nth(S, k)] = k
<1> DEFINE upTo(i) == {j \in S : j <= i}
           rank == [i \in S |-> Cardinality(upTo(i))]
<1>1. IsFiniteSet(S) /\ Cardinality(S) \in Nat
  <2>1. IsFiniteSet(1..n)
    BY FS_Interval
  <2> QED
    BY <2>1, FS_Subset, FS_CardinalityType
<1>2. S # {} => Cardinality(S) > 0
  BY <1>1, FS_EmptySet
<1>3. ASSUME NEW i \in S
      PROVE  /\ IsFiniteSet(upTo(i)) /\ Cardinality(upTo(i)) \in 1..Cardinality(S)
  <2>1. upTo(i) \in SUBSET S
    OBVIOUS
  <2>2. IsFiniteSet(upTo(i)) /\ Cardinality(upTo(i)) <= Cardinality(S)
    BY <1>1, <2>1, FS_Subset
  <2>3. i \in upTo(i)
    OBVIOUS
  <2>4. Cardinality(upTo(i)) \in Nat /\ Cardinality(upTo(i)) # 0
    BY <2>2, <2>3, FS_CardinalityType, FS_EmptySet
  <2> QED
    BY <1>1, <2>2, <2>4
<1>4. ASSUME NEW i \in S, NEW j \in S, i < j
      PROVE  Cardinality(upTo(i)) < Cardinality(upTo(j))
  <2>1. \A k \in S : k \in Int
    OBVIOUS
  <2>2. ASSUME NEW k \in S, k <= i PROVE k <= j
    BY <1>4, <2>1, <2>2
  <2>3. upTo(i) \in SUBSET upTo(j)
    BY <2>2
  <2>4. j \in upTo(j) /\ j \notin upTo(i)
    BY <1>4, <2>1
  <2>5. /\ Cardinality(upTo(i)) <= Cardinality(upTo(j))
        /\ Cardinality(upTo(i)) = Cardinality(upTo(j)) => upTo(i) = upTo(j)
    BY <1>3, <2>3, FS_Subset
  <2>6. Cardinality(upTo(i)) \in Nat /\ Cardinality(upTo(j)) \in Nat
    BY <1>3
  <2> QED
    BY <2>4, <2>5, <2>6
<1> HIDE DEF upTo
<1>5. rank \in [S -> 1..Cardinality(S)]
  BY <1>3
<1>6. ASSUME NEW i \in S, NEW j \in S, rank[i] = rank[j] PROVE i = j
  <2>1. /\ Cardinality(upTo(i)) = Cardinality(upTo(j)) /\ i \in Int /\ j \in Int
        /\ Cardinality(upTo(i)) \in Int /\ Cardinality(upTo(j)) \in Int
    BY <1>3, <1>6
  <2> QED
    BY <1>4, <2>1
<1>7. rank \in Injection(S, 1..Cardinality(S))
  BY <1>5, <1>6 DEF Injection, IsInjective
<1>8. IsFiniteSet(1..Cardinality(S)) /\ Cardinality(1..Cardinality(S)) = Cardinality(S)
  BY <1>1, FS_Interval
<1>9. rank \in Surjection(S, 1..Cardinality(S))
  BY <1>7, <1>8, FS_Injection
<1>10. ASSUME NEW k \in 1..Cardinality(S)
       PROVE  Nth(S, k) \in S /\ rank[Nth(S, k)] = k
  <2>1. PICK i \in S : rank[i] = k
    BY <1>9 DEF Surjection
  <2>2. Cardinality({j \in S : j <= i}) = k
    BY <2>1 DEF upTo
  <2>3. Nth(S, k) \in S /\ Cardinality({j \in S : j <= Nth(S, k)}) = k
    BY <2>2 DEF Nth
  <2> QED
    BY <2>3 DEF upTo
<1>11. \A i, j \in S : i < j => rank[i] < rank[j]
  BY <1>4
<1> HIDE DEF rank
<1> QED
  BY <1>1, <1>2, <1>5, <1>10, <1>11

LEMMA BendsTyped ==
    ASSUME NEW p \in Seq(Cells), NEW n \in 0..Len(p)
    PROVE  /\ Bends(p, n) \in Seq(Cells)
           /\ Bending(p, n) # {} => Bends(p, n) # << >>
<1> DEFINE S == Bending(p, n)
<1>1. S \in SUBSET (1..n) /\ n \in Nat
  BY DEF Bending
<1>2. /\ Cardinality(S) \in Nat /\ (S # {} => Cardinality(S) > 0)
      /\ \A k \in 1..Cardinality(S) : Nth(S, k) \in S
  BY <1>1, Counted
<1>3. \A i \in S : p[i] \in Cells
  BY <1>1
<1> HIDE DEF S
<1>4. /\ [k \in 1..Cardinality(S) |-> p[Nth(S, k)]] \in Seq(Cells)
      /\ Len([k \in 1..Cardinality(S) |-> p[Nth(S, k)]]) = Cardinality(S)
  BY <1>2, <1>3
<1>5. Bends(p, n) = [k \in 1..Cardinality(S) |-> p[Nth(S, k)]]
  BY DEF Bends, S
<1>6. Cardinality(S) > 0 => Bends(p, n) # << >>
  BY <1>2, <1>4, <1>5
<1> QED
  BY <1>2, <1>4, <1>5, <1>6 DEF S

\* What has to be at hand for the walk.  The walk back never comes to the start
\* itself, except at once, when a monster traces to where it stands.
WalkTypes ==
    /\ tracing \in BOOLEAN /\ conner \in Seq(Cells) /\ here \in Cells
    /\ tracing => kept = << >>
    /\ at \in {"search", "back"} /\ pos = start => tracing /\ path = kept
    /\ at = "turn" => /\ path # << >>
                      /\ (tracing /\ Len(path) <= 1) \/ path[1] # start
    /\ at = "go" => conner # << >>

LEMMA ConnersTyped ==
    ASSUME NEW p \in Seq(Cells), p # << >>
    PROVE  /\ PatrolConners(p) \in Seq(Cells) /\ TraceConners(p) \in Seq(Cells)
<1>1. Len(p) \in Nat \ {0} /\ p[Len(p)] \in Cells
  BY EmptySeq, LenProperties, ElementOfSeq
<1>2. Bends(p, Len(p)) \in Seq(Cells) /\ Bends(p, Len(p) - 1) \in Seq(Cells)
  BY <1>1, BendsTyped
<1>3. Len(p) > 1 => p[Len(p) - 1] \in Cells
  BY <1>1
<1> QED
  BY <1>1, <1>2, <1>3 DEF PatrolConners, TraceConners

\* The first cell of a path is a corner, unless it is the start itself.
LEMMA FirstBends ==
    ASSUME NEW p \in Seq(Cells), start \in Cells, NEW n \in 1..Len(p),
           p[1] # start
    PROVE  1 \in Bending(p, n)
<1>1. p[1] \in Cells
  BY ElementOfSeq
<1>2. ~ (p[1].x = start.x /\ p[1].z = start.z)
  BY <1>1, SameCell
<1>3. /\ p[1].x \in Int /\ p[1].z \in Int /\ start.x \in Int /\ start.z \in Int
  BY <1>1, CellFacts
<1>4. Minus(p[1], start) # Zero
  BY <1>2, <1>3 DEF Minus, Zero
<1> QED
  BY <1>4 DEF Bending, Dir, LastDir

\* So there are corners to walk to.
LEMMA ConnersThere ==
    ASSUME NEW p \in Seq(Cells), p # << >>, start \in Cells
    PROVE  /\ PatrolConners(p) # << >>
           /\ Len(p) > 1 /\ p[1] # start => TraceConners(p) # << >>
<1>1. Len(p) \in Nat \ {0} /\ p[Len(p)] \in Cells
  BY EmptySeq, LenProperties, ElementOfSeq
<1>2. PatrolConners(p) # << >>
  <2>1. Bends(p, Len(p)) \in Seq(Cells)
    BY <1>1, BendsTyped
  <2> QED
    BY <1>1, <2>1 DEF PatrolConners
<1>3. ASSUME Len(p) > 1, p[1] # start PROVE TraceConners(p) # << >>
  <2> DEFINE n == Len(p) - 1
  <2>1. n \in 1..Len(p) /\ n \in 0..Len(p) /\ p[n] \in Cells
    BY <1>1, <1>3, ElementOfSeq
  <2>2. Bends(p, n) \in Seq(Cells) /\ Bends(p, n) # << >>
    BY <1>3, <2>1, FirstBends, BendsTyped
  <2>3. Append(Bends(p, n), p[n]) # << >>
    BY <2>1, <2>2
  <2> QED
    BY <2>2, <2>3 DEF TraceConners
<1> QED
  BY <1>2, <1>3

LEMMA NextWalk ==
    ASSUME SearchInv, WalkTypes, [Next]_vars
    PROVE  WalkTypes'
<1>1. ASSUME NEW node \in heap, Outdated(node) \/ Arrive(node) \/ Expand(node)
      PROVE  WalkTypes'
  BY <1>1 DEF Outdated, Arrive, Expand, WalkTypes, query
<1>2. CASE Exhausted
  BY <1>2 DEF Exhausted, WalkTypes, query
<1>3. CASE WalkBack
  <2>1. UNCHANGED <<tracing, conner, here>> /\ at' # "go"
    BY <1>3 DEF WalkBack, query
  <2>2. at' = "turn" => path' = Reverse(Append(path, pos))
    BY <1>3 DEF WalkBack
  <2>3. /\ Reverse(Append(path, pos)) # << >>
        /\ Len(Reverse(Append(path, pos))) = Len(path) + 1 /\ Len(path) \in Nat
        /\ Reverse(Append(path, pos))[1] = pos
    <3>1. /\ Append(path, pos) \in Seq(Cells) /\ Len(path) \in Nat
          /\ Len(Append(path, pos)) = Len(path) + 1
          /\ Append(path, pos)[Len(path) + 1] = pos
      BY DEF SearchInv, SearchTypes
    <3>2. /\ Len(Reverse(Append(path, pos))) = Len(Append(path, pos))
          /\ Reverse(Append(path, pos))[1] = Append(path, pos)[Len(path) + 1]
      BY <3>1 DEF Reverse
    <3> QED
      BY <3>1, <3>2
  <2>4. at' = "turn" => (tracing' /\ Len(path') <= 1) \/ path'[1] # start'
    <3>1. pos = start => tracing /\ path = << >>
      BY <1>3 DEF WalkBack, WalkTypes
    <3>2. pos = start => Len(path) + 1 <= 1
      BY <3>1
    <3>3. UNCHANGED <<tracing, start>>
      BY <1>3 DEF WalkBack, query
    <3> QED
      BY <2>2, <2>3, <3>1, <3>2, <3>3
  <2>5. /\ at = "back" /\ at' \in {"back", "turn"}
        /\ at' = "back" => pos' # start'
        /\ UNCHANGED kept
    BY <1>3 DEF WalkBack, query
  <2>6. tracing => kept = << >>
    BY DEF WalkTypes
  <2>7. tracing \in BOOLEAN /\ conner \in Seq(Cells) /\ here \in Cells
    BY DEF WalkTypes
  <2> QED
    BY <2>1, <2>2, <2>3, <2>4, <2>5, <2>6, <2>7 DEF WalkTypes
<1>4. CASE Turn
  <2>1. /\ at = "turn" /\ UNCHANGED <<tracing, here>>
        /\ conner' = IF tracing THEN TraceConners(path) ELSE PatrolConners(path)
        /\ at' = IF tracing /\ Len(path) <= 1 THEN "done" ELSE "go"
        /\ UNCHANGED kept
    BY <1>4 DEF Turn, query
  <2>2. /\ path \in Seq(Cells) /\ path # << >> /\ start \in Cells
        /\ tracing \in BOOLEAN
        /\ (tracing /\ Len(path) <= 1) \/ path[1] # start
    BY <2>1 DEF SearchInv, SearchTypes, WalkTypes
  <2>3. conner' \in Seq(Cells)
    BY <2>1, <2>2, ConnersTyped
  <2>4. at' = "go" => conner' # << >>
    <3>1. Len(path) \in Nat
      BY <2>2
    <3> QED
      BY <2>1, <2>2, <3>1, ConnersThere
  <2>5. at' \in {"done", "go"}
    BY <2>1
  <2> QED
    BY <2>1, <2>3, <2>4, <2>5 DEF WalkTypes
<1>5. CASE Go
  <2>1. conner \in Seq(Cells) /\ conner # << >>
    BY <1>5 DEF Go, WalkTypes
  <2>2. Head(conner) \in Cells /\ Tail(conner) \in Seq(Cells)
    BY <2>1
  <2> QED
    BY <1>5, <2>2 DEF Go, WalkTypes, query
<1>6. CASE UNCHANGED vars
  BY <1>6 DEF vars, query, WalkTypes
<1> QED
  BY <1>1, <1>2, <1>3, <1>4, <1>5, <1>6 DEF Next

LEMMA InitWalk == Init => WalkTypes
BY DEF Init, WalkTypes

LEMMA WalkTyped == Spec => []WalkTypes
<1>1. SearchInv /\ WalkTypes /\ [Next]_vars => WalkTypes'
  BY NextWalk
<1> QED
  BY <1>1, InitWalk, Searching, PTL DEF Spec

\* Every variable keeps its type: among them the parents, which the walk back
\* makes up where there are none, and the corners, which are cells of the path.
THEOREM TypeSafe == Spec => []TypeOK
<1>1. SearchInv /\ WalkTypes => TypeOK
  BY DEF SearchInv, SearchTypes, WalkTypes, TypeOK
<1> QED
  BY <1>1, Searching, WalkTyped, PTL

\* A cell where the walk may end.
Goal(c) ==
    /\ tracing => NextTo(c, end) \/ c = end
    /\ ~ tracing => c = Last(<<end>> \o kept)

\* At most one cell is left over, and none on a trace; the last corner is a goal.
WalkInv ==
    /\ kept = << >> \/ (~ tracing /\ \E c \in Cells : kept = <<c>>)
    /\ at \notin {"go", "done"} => here = start
    /\ at = "go" /\ found => Goal(Last(conner))
    /\ at = "done" /\ found => Goal(here)

\* The way back to the start.
LEMMA NextToBack ==
    ASSUME NEW c \in Cells, NEW p \in Cells, NextTo(c, p)
    PROVE  NextTo(p, c)
<1>1. c.x \in Int /\ c.z \in Int /\ p.x \in Int /\ p.z \in Int
  BY CellFacts
<1>2. \A m, n \in Int : Abs(m - n) = Abs(n - m)
  BY DEF Abs
<1> QED
  BY <1>1, <1>2 DEF NextTo, Near

LEMMA PatrolGoal ==
    ASSUME RouteInv, WalkTypes, WalkInv, at = "turn", found, ~ tracing
    PROVE  PatrolConners(path) # << >> /\ Goal(Last(PatrolConners(path)))
<1>1. path \in Seq(Cells) /\ path # << >> /\ end \in Cells
  BY DEF RouteInv, SearchInv, SearchTypes, WalkTypes
<1>2. Len(path) \in Nat \ {0} /\ path[Len(path)] \in Cells
  BY <1>1, EmptySeq, LenProperties, ElementOfSeq
<1>3. Bends(path, Len(path)) \in Seq(Cells)
  BY <1>1, <1>2, BendsTyped
<1>4. /\ PatrolConners(path) # << >>
      /\ Last(PatrolConners(path)) = path[Len(path)]
  <2>1. ASSUME NEW s \in Seq(Cells), NEW c \in Cells
        PROVE  Append(s, c) # << >> /\ Last(Append(s, c)) = c
    BY DEF Last
  <2> QED
    BY <1>2, <1>3, <2>1 DEF PatrolConners
<1>5. Route # << >> /\ path = Route \o Reverse(kept) /\ Last(Route) = end
  BY DEF RouteInv, RouteSound
<1>6. Route \in Seq(Cells)
  BY <1>1, <1>2 DEF Route, WalkInv
<1>7. CASE kept = << >>
  <2>1. Route = path
    BY <1>1, <1>2, <1>7 DEF Route
  <2>2. path[Len(path)] = end
    BY <1>5, <2>1 DEF Last
  <2>3. Last(<<end>> \o kept) = end
    BY <1>1, <1>7 DEF Last
  <2> QED
    BY <1>4, <2>2, <2>3 DEF Goal
<1>8. ASSUME NEW c \in Cells, kept = <<c>>
      PROVE  Goal(Last(PatrolConners(path)))
  <2>1. Reverse(kept) = <<c>>
    BY <1>8 DEF Reverse
  <2>2. path = Route \o <<c>>
    BY <1>5, <2>1
  <2>3. path[Len(path)] = c
    BY <1>6, <2>2
  <2>4. Last(<<end>> \o kept) = c
    <3>1. ASSUME NEW a \in Cells, NEW b \in Cells
          PROVE  Last(<<a>> \o <<b>>) = b
      <4>1. /\ <<a>> \in Seq(Cells) /\ <<b>> \in Seq(Cells)
            /\ Len(<<a>>) = 1 /\ Len(<<b>>) = 1 /\ <<b>>[1] = b
        OBVIOUS
      <4>2. Len(<<a>> \o <<b>>) = 2 /\ (<<a>> \o <<b>>)[2] = <<b>>[1]
        BY <4>1
      <4> QED
        BY <4>1, <4>2 DEF Last
    <3> QED
      BY <1>1, <1>8, <3>1
  <2> QED
    BY <1>4, <2>3, <2>4 DEF Goal
<1> QED
  BY <1>4, <1>7, <1>8 DEF WalkInv

LEMMA TraceGoal ==
    ASSUME RouteInv, WalkTypes, WalkInv, at = "turn", found, tracing
    PROVE  /\ Len(path) > 1 => Goal(Last(TraceConners(path)))
           /\ Len(path) <= 1 => Goal(start)
<1>1. path \in Seq(Cells) /\ path # << >> /\ end \in Cells /\ start \in Cells
  BY DEF RouteInv, SearchInv, SearchTypes, WalkTypes
<1>2. Len(path) \in Nat \ {0}
  BY <1>1, EmptySeq, LenProperties
<1>3. Route = path
  BY <1>1, <1>2 DEF WalkInv, Route
<1>4. /\ path[Len(path)] = end
      /\ NextTo(path[1], start) \/ (start = end /\ path = <<end>>)
      /\ \A i \in 1..(Len(path) - 1) : NextTo(path[i + 1], path[i])
  BY <1>3 DEF RouteInv, RouteSound, Last
<1> DEFINE bends == Bends(path, Len(path) - 1)
<1>5. bends \in Seq(Cells) /\ (Bending(path, Len(path) - 1) # {} => bends # << >>)
  BY <1>1, <1>2, BendsTyped
<1>6. ASSUME Len(path) = 1 PROVE Goal(start)
  <2>1. NextTo(start, end) \/ start = end
    BY <1>1, <1>4, <1>6, NextToBack
  <2> QED
    BY <1>6, <2>1 DEF Goal
<1>7. ASSUME Len(path) > 1 PROVE Goal(Last(TraceConners(path)))
  <2> DEFINE stop == path[Len(path) - 1]
  <2>1. stop \in Cells /\ path[1] \in Cells
    BY <1>1, <1>2, <1>7
  <2>2. NextTo(stop, end)
    <3>1. Len(path) - 1 \in 1..(Len(path) - 1) /\ Len(path) - 1 + 1 = Len(path)
      BY <1>2, <1>7
    <3>2. NextTo(end, stop)
      BY <1>4, <3>1
    <3> QED
      BY <1>1, <2>1, <3>2, NextToBack
  <2>3. Goal(stop)
    BY <2>2 DEF Goal
  <2>4. bends # << >>
    <3>1. path[1] # start
      BY <1>4, <1>7 DEF NextTo
    <3>2. Len(path) - 1 \in 1..Len(path)
      BY <1>2, <1>7
    <3> QED
      BY <1>1, <1>5, <3>1, <3>2, FirstBends
  <2> HIDE DEF bends, stop
  <2>5. ASSUME NEW s \in Seq(Cells), NEW c \in Cells
        PROVE  Append(s, c) # << >> /\ Last(Append(s, c)) = c
    BY DEF Last
  <2>6. TraceConners(path) = IF Last(bends) = stop THEN bends ELSE Append(bends, stop)
    BY <1>2, <1>7 DEF TraceConners, bends, stop
  <2>7. CASE Last(bends) = stop
    BY <2>3, <2>4, <2>6, <2>7
  <2>8. CASE Last(bends) # stop
    <3>1. TraceConners(path) = Append(bends, stop)
      BY <2>6, <2>8
    <3>2. Append(bends, stop) # << >> /\ Last(Append(bends, stop)) = stop
      BY <1>5, <2>1, <2>5
    <3> QED
      BY <2>3, <3>1, <3>2
  <2> QED
    BY <2>7, <2>8
<1>8. Len(path) <= 1 => Len(path) = 1
  <2>1. \A n \in Nat \ {0} : n <= 1 => n = 1
    OBVIOUS
  <2> QED
    BY <1>2, <2>1, Zenon
<1>9. Len(path) <= 1 => Goal(start)
  BY <1>6, <1>8
<1> QED
  BY <1>7, <1>9

LEMMA NextGoal ==
    ASSUME RouteInv, WalkTypes, WalkInv, [Next]_vars
    PROVE  WalkInv'
<1>1. ASSUME NEW node \in heap, Outdated(node) \/ Arrive(node) \/ Expand(node)
      PROVE  WalkInv'
  BY <1>1 DEF Outdated, Arrive, Expand, WalkInv, query
<1>2. CASE Exhausted
  BY <1>2 DEF Exhausted, WalkInv, query
<1>3. CASE WalkBack
  BY <1>3 DEF WalkBack, WalkInv, query
<1>4. CASE Turn
  <2>1. /\ at = "turn" /\ UNCHANGED <<tracing, kept, start, end, found, here>>
        /\ conner' = IF tracing THEN TraceConners(path) ELSE PatrolConners(path)
        /\ at' = IF tracing /\ Len(path) <= 1 THEN "done" ELSE "go"
    BY <1>4 DEF Turn, query
  <2>2. tracing \in BOOLEAN /\ here = start /\ Len(path) \in Nat
    BY <2>1 DEF WalkTypes, WalkInv, RouteInv, SearchInv, SearchTypes
  <2>3. found => /\ at' = "go" => Goal(Last(conner'))
                 /\ at' = "done" => Goal(start)
    BY <2>1, <2>2, PatrolGoal, TraceGoal
  <2>4. ASSUME NEW c PROVE Goal(c) <=> (Goal(c))'
    BY <2>1 DEF Goal, NextTo, Near
  <2> QED
    BY <2>1, <2>2, <2>3 DEF WalkInv, Goal, NextTo, Near
<1>5. CASE Go
  <2>1. /\ at = "go" /\ UNCHANGED <<tracing, kept, start, end, found>>
        /\ here' = Head(conner) /\ conner' = Tail(conner)
        /\ at' = IF conner' = << >> THEN "done" ELSE "go"
    BY <1>5 DEF Go, query
  <2>2. conner \in Seq(Cells) /\ conner # << >>
    BY <2>1 DEF WalkTypes
  <2>3. /\ Tail(conner) = << >> => Head(conner) = Last(conner)
        /\ Tail(conner) # << >> => Last(Tail(conner)) = Last(conner)
    BY <2>2 DEF Last
  <2> QED
    BY <2>1, <2>3 DEF WalkInv, Goal, NextTo, Near
<1>6. CASE UNCHANGED vars
  BY <1>6 DEF vars, query, WalkInv, Goal, NextTo, Near
<1> QED
  BY <1>1, <1>2, <1>3, <1>4, <1>5, <1>6 DEF Next

\* The half of WalkArrives that is not liveness: where TraceSearch and
\* PatrolDestSearch found a way, the walk over their corners ends where it should.
THEOREM WalkEndsRight == Spec => [](at = "done" /\ found => Arrived)
<1>1. Init => WalkInv
  <2> SUFFICES ASSUME Init PROVE WalkInv
    OBVIOUS
  <2>1. kept = << >> \/ (~ tracing /\ \E c \in Cells : kept = <<c>>)
    BY DEF Init
  <2>2. at = "search" /\ here = start
    BY DEF Init
  <2> QED
    BY <2>1, <2>2 DEF WalkInv
<1>2. RouteInv /\ WalkTypes /\ WalkInv /\ [Next]_vars => WalkInv'
  BY NextGoal
<1>3. WalkInv => (at = "done" /\ found => Arrived)
  BY DEF WalkInv, Goal, Arrived
<1> QED
  BY <1>1, <1>2, <1>3, Routed, WalkTyped, PTL DEF Spec

-----------------------------------------------------------------------------
(* The corners follow the way.                                             *)

\* The way is straight from its i-th cell to the one before its j-th.
Straight(i, j) ==
    i <= j /\ \A k \in (i + 1)..(j - 1) :
                  k > 1 /\ Dir(path, k) = Dir(path, k - 1)

\* A list of corners that follows the way from the cell h.
Line(h, c) ==
    \A n \in 1..Len(c) : Follows(IF n = 1 THEN h ELSE c[n - 1], c[n])

LEMMA StraightFollows ==
    ASSUME NEW i \in 0..Len(path), NEW j \in 1..Len(path), Straight(i, j)
    PROVE  Follows(IF i = 0 THEN start ELSE path[i], path[j])
<1>1. j # 0 /\ j \in 0..Len(path)
  OBVIOUS
<1>2. /\ i \in Places(IF i = 0 THEN start ELSE path[i])
      /\ j \in Places(path[j])
  BY <1>1 DEF Places
<1> QED
  BY <1>2 DEF Follows, Straight

\* Where no position from i + 1 to j - 1 bends, the way is straight.
LEMMA NoBend ==
    ASSUME NEW n \in Nat, NEW i \in 0..n, NEW j \in 0..n, i <= j,
           \A k \in (i + 1)..(j - 1) : k > 1 /\ k \notin Bending(path, n)
    PROVE  Straight(i, j)
<1> SUFFICES ASSUME NEW k \in (i + 1)..(j - 1)
             PROVE  k > 1 /\ Dir(path, k) = Dir(path, k - 1)
  BY DEF Straight
<1>1. k \in 1..n /\ k > 1 /\ k \notin Bending(path, n)
  OBVIOUS
<1> QED
  BY <1>1 DEF Bending, LastDir

\* The bends follow the way from the start, and behind the last of them it goes
\* straight on to the n-th cell.
LEMMA BendsFollow ==
    ASSUME path \in Seq(Cells), start \in Cells, path[1] # start,
           NEW n \in 1..Len(path)
    PROVE  /\ Bends(path, n) \in Seq(Cells) /\ Bends(path, n) # << >>
           /\ Line(start, Bends(path, n))
           /\ Follows(Last(Bends(path, n)), path[n])
<1> DEFINE S == Bending(path, n)
           m == Cardinality(S)
           c == Bends(path, n)
<1>1. S \in SUBSET (1..n) /\ n \in Nat /\ Len(path) \in Nat
  BY DEF Bending
<1>2. 1 \in S
  BY FirstBends
<1>3. m \in Nat /\ m > 0
  BY <1>1, <1>2, Counted
<1>4. PICK rank \in [S -> 1..m] :
          /\ \A i, j \in S : i < j => rank[i] < rank[j]
          /\ \A k \in 1..m : Nth(S, k) \in S /\ rank[Nth(S, k)] = k
  BY <1>1, Counted
<1>5. c \in Seq(Cells) /\ c # << >>
  BY <1>1, <1>2, BendsTyped
<1>6. /\ Len(c) = m
      /\ \A k \in 1..m : c[k] = path[Nth(S, k)] /\ Nth(S, k) \in 1..n
  BY <1>1, <1>3, <1>4 DEF Bends
<1> HIDE DEF m, c
<1>7. \A i \in S : i \in Int /\ rank[i] \in Int /\ 1 <= rank[i] /\ rank[i] <= m
  BY <1>1, <1>3, <1>4
<1>8. \A i, j \in S : i <= j => rank[i] <= rank[j]
  BY <1>4, <1>7
<1> HIDE DEF S
<1>9. ASSUME NEW k \in 1..m
      PROVE  Follows(IF k = 1 THEN start ELSE c[k - 1], c[k])
  <2> DEFINE j == Nth(S, k)
  <2>1. j \in S /\ j \in 1..n /\ rank[j] = k /\ c[k] = path[j]
    BY <1>4, <1>6
  <2>2. CASE k = 1
    <3>1. j = 1
      BY <1>1, <1>2, <1>4, <1>7, <2>1, <2>2
    <3>2. Straight(0, 1)
      BY DEF Straight
    <3>3. 0 \in 0..Len(path) /\ 1 \in 1..Len(path)
      BY <1>1
    <3> QED
      BY <2>1, <2>2, <3>1, <3>2, <3>3, StraightFollows
  <2>3. CASE k > 1
    <3> DEFINE i == Nth(S, k - 1)
    <3>1. k - 1 \in 1..m
      BY <1>3, <2>3
    <3>2. i \in S /\ i \in 1..n /\ rank[i] = k - 1 /\ c[k - 1] = path[i]
      BY <1>4, <1>6, <3>1
    <3> HIDE DEF i, j
    <3>3. i < j
      BY <1>3, <1>7, <1>8, <2>1, <3>2
    <3>4. ASSUME NEW l \in (i + 1)..(j - 1) PROVE l > 1 /\ l \notin S
      <4>1. i < l /\ l < j /\ l > 1
        BY <1>1, <2>1, <3>2
      <4>2. ASSUME l \in S PROVE FALSE
        <5>1. k - 1 < rank[l] /\ rank[l] < k /\ rank[l] \in Int
          BY <1>4, <1>7, <2>1, <3>2, <4>1, <4>2
        <5> QED
          BY <1>3, <5>1
      <4> QED
        BY <4>1, <4>2
    <3>5. Straight(i, j)
      <4>1. i \in 0..n /\ j \in 0..n /\ i <= j /\ n \in Nat
        BY <1>1, <2>1, <3>2, <3>3
      <4> QED
        BY <3>4, <4>1, NoBend DEF S
    <3>6. i \in 0..Len(path) /\ j \in 1..Len(path) /\ i # 0
      BY <1>1, <2>1, <3>2
    <3>7. Follows(path[i], path[j])
      BY <3>5, <3>6, StraightFollows
    <3> QED
      BY <2>1, <2>3, <3>2, <3>7
  <2> QED
    BY <1>3, <2>2, <2>3
<1>10. Line(start, c)
  BY <1>6, <1>9 DEF Line
<1>11. Follows(Last(c), path[n])
  <2> DEFINE i == Nth(S, m)
  <2>1. m \in 1..m
    BY <1>3
  <2>2. i \in S /\ i \in 1..n /\ rank[i] = m /\ c[m] = path[i]
    BY <1>4, <1>6, <2>1
  <2>3. Last(c) = path[i]
    BY <1>6, <2>2 DEF Last
  <2> HIDE DEF i
  <2>4. ASSUME NEW l \in (i + 1)..(n - 1) PROVE l > 1 /\ l \notin S
    <3>1. i < l /\ l > 1
      BY <1>1, <2>2
    <3>2. ASSUME l \in S PROVE FALSE
      BY <1>3, <1>4, <1>7, <2>2, <3>1, <3>2
    <3> QED
      BY <3>1, <3>2
  <2>5. Straight(i, n)
    <3>1. i \in 0..n /\ n \in 0..n /\ i <= n /\ n \in Nat
      BY <1>1, <2>2
    <3> QED
      BY <2>4, <3>1, NoBend DEF S
  <2>6. i \in 0..Len(path) /\ i # 0 /\ n \in 1..Len(path)
    BY <1>1, <2>2
  <2>7. Follows(path[i], path[n])
    BY <2>5, <2>6, StraightFollows
  <2> QED
    BY <2>3, <2>7
<1> QED
  BY <1>5, <1>10, <1>11 DEF c

\* One more corner behind the last.
LEMMA LineOn ==
    ASSUME NEW h, NEW c \in Seq(Cells), c # << >>, NEW d \in Cells,
           Line(h, c), Follows(Last(c), d)
    PROVE  Line(h, Append(c, d))
<1>1. /\ Len(c) \in Nat \ {0} /\ Len(Append(c, d)) = Len(c) + 1
      /\ \A i \in 1..Len(c) : Append(c, d)[i] = c[i]
      /\ Append(c, d)[Len(c) + 1] = d
  BY EmptySeq, LenProperties
<1> SUFFICES ASSUME NEW n \in 1..(Len(c) + 1)
             PROVE  Follows(IF n = 1 THEN h ELSE Append(c, d)[n - 1],
                            Append(c, d)[n])
  BY <1>1 DEF Line
<1>2. CASE n = Len(c) + 1
  <2>1. n # 1 /\ n - 1 \in 1..Len(c) /\ n - 1 = Len(c)
    BY <1>1, <1>2
  <2>2. Append(c, d)[n - 1] = Last(c) /\ Append(c, d)[n] = d
    BY <1>1, <1>2, <2>1 DEF Last
  <2> QED
    BY <2>1, <2>2
<1>3. CASE n # Len(c) + 1
  <2>1. n \in 1..Len(c) /\ (n # 1 => n - 1 \in 1..Len(c))
    BY <1>1, <1>3
  <2>2. /\ Append(c, d)[n] = c[n]
        /\ n # 1 => Append(c, d)[n - 1] = c[n - 1]
    BY <1>1, <2>1
  <2>3. Follows(IF n = 1 THEN h ELSE c[n - 1], c[n])
    BY <2>1 DEF Line
  <2> QED
    BY <2>2, <2>3
<1> QED
  BY <1>2, <1>3

\* Both searches leave corners that follow the way from the start.
LEMMA TurnFollows ==
    ASSUME path \in Seq(Cells), path # << >>, start \in Cells, path[1] # start
    PROVE  /\ Line(start, PatrolConners(path))
           /\ Len(path) > 1 => Line(start, TraceConners(path))
<1>1. Len(path) \in Nat \ {0}
  BY EmptySeq, LenProperties
<1>2. Line(start, PatrolConners(path))
  <2>1. Len(path) \in 1..Len(path) /\ path[Len(path)] \in Cells
    BY <1>1, ElementOfSeq
  <2> QED
    BY <2>1, BendsFollow, LineOn DEF PatrolConners
<1>3. ASSUME Len(path) > 1 PROVE Line(start, TraceConners(path))
  <2> DEFINE n == Len(path) - 1
             c == Bends(path, n)
  <2>1. n \in 1..Len(path) /\ path[n] \in Cells
    BY <1>1, <1>3, ElementOfSeq
  <2>2. /\ c \in Seq(Cells) /\ c # << >>
        /\ Line(start, c) /\ Follows(Last(c), path[n])
    BY <2>1, BendsFollow
  <2>3. TraceConners(path) = c \/ TraceConners(path) = Append(c, path[n])
    BY DEF TraceConners
  <2> HIDE DEF c, n
  <2>4. Line(start, Append(c, path[n]))
    BY <2>1, <2>2, LineOn
  <2> QED
    BY <2>2, <2>3, <2>4
<1> QED
  BY <1>2, <1>3

\* What is left of the corners follows the way from where the monster is.
FollowInv ==
    /\ at \notin {"go", "done"} => here = start
    /\ at = "go" => Line(here, conner)

LEMMA NextFollow ==
    ASSUME SearchInv, WalkTypes, FollowInv, [Next]_vars
    PROVE  FollowInv'
<1>1. ASSUME NEW node \in heap, Outdated(node) \/ Arrive(node) \/ Expand(node)
      PROVE  FollowInv'
  BY <1>1 DEF Outdated, Arrive, Expand, FollowInv, query
<1>2. CASE Exhausted \/ WalkBack
  BY <1>2 DEF Exhausted, WalkBack, FollowInv, query
<1>3. CASE Turn
  <2>1. /\ at = "turn" /\ UNCHANGED <<path, start, here>>
        /\ conner' = IF tracing THEN TraceConners(path) ELSE PatrolConners(path)
        /\ at' = IF tracing /\ Len(path) <= 1 THEN "done" ELSE "go"
    BY <1>3 DEF Turn, query
  <2>2. /\ path \in Seq(Cells) /\ path # << >> /\ start \in Cells
        /\ tracing \in BOOLEAN /\ here = start
        /\ (tracing /\ Len(path) <= 1) \/ path[1] # start
    BY <2>1 DEF SearchInv, SearchTypes, WalkTypes, FollowInv
  <2>3. ASSUME at' = "go" PROVE Line(here, conner')
    <3>1. Len(path) \in Nat
      BY <2>2
    <3> QED
      BY <2>1, <2>2, <2>3, <3>1, TurnFollows
  <2>4. Line(here, conner') => Line(here, conner)'
    BY <2>1 DEF Line, Follows, Places, Dir, Minus
  <2> QED
    BY <2>1, <2>3, <2>4 DEF FollowInv
<1>4. CASE Go
  <2>1. /\ at = "go" /\ UNCHANGED <<path, start>>
        /\ here' = Head(conner) /\ conner' = Tail(conner)
    BY <1>4 DEF Go, query
  <2>2. conner \in Seq(Cells) /\ conner # << >> /\ Line(here, conner)
    BY <2>1 DEF WalkTypes, FollowInv
  <2>3. Line(Head(conner), Tail(conner))
    <3>1. /\ Len(conner) \in Nat \ {0} /\ Len(Tail(conner)) = Len(conner) - 1
          /\ Head(conner) = conner[1]
          /\ \A n \in 1..(Len(conner) - 1) : Tail(conner)[n] = conner[n + 1]
      BY <2>2, EmptySeq, LenProperties
    <3> SUFFICES ASSUME NEW n \in 1..(Len(conner) - 1)
                 PROVE  Follows(IF n = 1 THEN Head(conner)
                                ELSE Tail(conner)[n - 1], Tail(conner)[n])
      BY <3>1 DEF Line
    <3>2. /\ n + 1 \in 1..Len(conner) /\ n + 1 # 1 /\ n + 1 - 1 = n
          /\ n # 1 => n - 1 \in 1..(Len(conner) - 1) /\ n - 1 + 1 = n
      BY <3>1
    <3>3. Follows(conner[n], conner[n + 1])
      BY <2>2, <3>2 DEF Line
    <3>4. (IF n = 1 THEN Head(conner) ELSE Tail(conner)[n - 1]) = conner[n]
      BY <3>1, <3>2
    <3> QED
      BY <3>1, <3>3, <3>4
  <2>4. Line(here, conner)'
    <3>1. PICK h, c : h = Head(conner) /\ c = Tail(conner)
      OBVIOUS
    <3>2. /\ Line(h, c) /\ here' = h /\ conner' = c
          /\ path' = path /\ start' = start
      BY <2>1, <2>3, <3>1
    <3> SUFFICES ASSUME NEW n \in 1..Len(c)
                 PROVE  Follows(IF n = 1 THEN here ELSE conner[n - 1], conner[n])'
      BY <3>2 DEF Line
    <3> DEFINE p == IF n = 1 THEN h ELSE c[n - 1]
               q == c[n]
    <3>3. Follows(p, q)
      BY <3>2 DEF Line
    <3>4. (IF n = 1 THEN here ELSE conner[n - 1])' = p /\ conner'[n] = q
      BY <3>2
    <3> HIDE DEF p, q
    <3>5. \E i \in Places(p), j \in Places(q) :
             i <= j /\ \A k \in (i + 1)..(j - 1) :
                           k > 1 /\ Dir(path, k) = Dir(path, k - 1)
      BY <3>3 DEF Follows
    <3>6. /\ Places(IF n = 1 THEN here ELSE conner[n - 1])' = Places(p)
          /\ Places(conner[n])' = Places(q)
      BY <3>2, <3>4 DEF Places
    <3>7. ASSUME NEW k PROVE Dir(path, k)' = Dir(path, k)
      BY <3>2 DEF Dir, Minus
    <3> QED
      BY <3>5, <3>6, <3>7 DEF Follows
  <2>5. at' \in {"go", "done"}
    BY <1>4 DEF Go
  <2> QED
    BY <2>1, <2>3, <2>4, <2>5 DEF FollowInv
<1>5. CASE UNCHANGED vars
  BY <1>5 DEF vars, query, FollowInv, Line, Follows, Places, Dir, Minus
<1> QED
  BY <1>1, <1>2, <1>3, <1>4, <1>5 DEF Next

\* The monster of UpdatePatrol and UpdateTrace has a corner to walk to whenever
\* they read one, and its corners follow the way.
THEOREM ConnersDoFollow == Spec => []ConnersFollow
<1>1. Init => FollowInv
  BY DEF Init, FollowInv
<1>2. SearchInv /\ WalkTypes /\ FollowInv /\ [Next]_vars => FollowInv'
  BY NextFollow
<1>3. WalkTypes /\ FollowInv => ConnersFollow
  BY DEF WalkTypes, FollowInv, Line, ConnersFollow
<1> QED
  BY <1>1, <1>2, <1>3, Searching, WalkTyped, PTL DEF Spec

-----------------------------------------------------------------------------
\* The first node's h is that of another formula, so that the start may seem
\* to cost anything; the cost of every other cell is that of a way, and its
\* parent's is less.
Downhill ==
    /\ \A node \in heap :
          0 <= node.g /\ (node.pos # start => node.f = node.g + NextH(node.pos))
    /\ \A c \in Visited \ {start} :
          0 < WayCost(c) /\ (parent[c] # start => WayCost(parent[c]) < WayCost(c))

LEMMA CostTyped ==
    ASSUME SearchInv, NEW c \in Cells
    PROVE  WayCost(c) \in Int /\ WayCost(c) = best[c] - NextH(c)
           /\ NextH(c) \in Int /\ 0 <= NextH(c) /\ best[c] \in Int
BY HeuristicBounds DEF WayCost, SearchInv, SearchTypes

LEMMA InitDownhill == Init => Downhill
<1> SUFFICES ASSUME Init PROVE Downhill
  OBVIOUS
<1> HIDE DEF Infinite
<1>1. /\ heap = {[f |-> FirstH, g |-> 0, pos |-> start]}
      /\ best = [c \in Cells |-> IF c = start THEN FirstH ELSE Infinite]
  BY DEF Init
<1>2. Visited \subseteq {start}
  BY <1>1 DEF Visited
<1> QED
  BY <1>1, <1>2 DEF Downhill

LEMMA ExpandDownhill ==
    ASSUME SearchInv, Downhill, NEW node \in heap, Expand(node)
    PROVE  /\ Downhill'
           /\ \A c \in Cells : best'[c] <= best[c]
           /\ \/ \E c \in Cells : 0 <= best'[c] /\ best'[c] < best[c]
              \/ best' = best /\ heap' = heap \ {node}
<1> HIDE DEF Infinite
<1> DEFINE pushed == Pushed(node)
           new(c) == [f |-> NextF(node, c), g |-> NextG(node, c), pos |-> c]
<1>1. /\ node.pos \in Cells /\ node.pos \in Visited
      /\ node.f \in Int /\ node.g \in Int /\ 0 <= node.g
      /\ best[node.pos] = node.f
  BY DEF Expand, SearchInv, SearchTypes, Nodes, NotBetter, Visited, Downhill
<1>2. \A c : c \in pushed <=> /\ c \in Cells /\ NextTo(c, node.pos) /\ CanGo(c)
                              /\ NextF(node, c) < best[c]
  BY <1>1, Neighbours DEF Pushed
<1>3. /\ heap' = (heap \ {node}) \cup {new(c) : c \in pushed}
      /\ best' = [c \in Cells |-> IF c \in pushed THEN NextF(node, c) ELSE best[c]]
      /\ parent' = [c \in Cells |-> IF c \in pushed THEN node.pos ELSE parent[c]]
      /\ UNCHANGED query
  BY DEF Expand, Parented
<1> HIDE DEF pushed
<1>4. UNCHANGED <<start, end>> /\ \A c : NextH(c)' = NextH(c)
  BY <1>3 DEF query, NextH
<1>5. \A c \in Cells : /\ NextF(node, c) \in Int /\ NextG(node, c) \in Int
                      /\ NextF(node, c) = NextG(node, c) + NextH(c)
                      /\ node.g < NextG(node, c)
                      /\ NextH(c) \in Int /\ 0 <= NextH(c) /\ best[c] \in Int
  <2> TAKE c \in Cells
  <2>1. NextG(node, c) = node.g + Cost(Minus(c, node.pos))
    BY DEF NextG
  <2>2. node.g < NextG(node, c)
    BY <1>1, <2>1, CostType
  <2> QED
    BY <2>2, NextBounds, CostTyped
<1>6. \A c \in Cells : best'[c] = IF c \in pushed THEN NextF(node, c) ELSE best[c]
  BY <1>3
<1>7. \A c \in Cells : best'[c] <= best[c]
  BY <1>2, <1>5, <1>6
<1>8. ASSUME NEW other \in heap'
      PROVE  0 <= other.g /\ (other.pos # start => other.f = other.g + NextH(other.pos))
  <2>1. CASE other \in heap
    BY <2>1 DEF Downhill
  <2>2. CASE \E c \in pushed : other = new(c)
    <3>1. PICK c \in pushed : other = new(c)
      BY <2>2
    <3>2. c \in Cells /\ other.g = NextG(node, c) /\ other.f = NextF(node, c)
          /\ other.pos = c
      BY <1>2, <3>1
    <3> QED
      BY <1>1, <1>5, <3>2
  <2> QED
    BY <1>3, <1>8, <2>1, <2>2
<1>9. \A c \in Cells : c \in Visited' => c \in Visited \/ c \in pushed
  BY <1>6 DEF Visited
<1>10. \A c : (WayCost(c))' = best'[c] - NextH(c)
  BY <1>4 DEF WayCost
<1>11. node.pos # start => best'[node.pos] - NextH(node.pos) = node.g
  <2>1. node.pos \notin pushed
    BY <1>2 DEF NextTo
  <2>2. node.pos # start => node.f = node.g + NextH(node.pos)
    BY DEF Downhill
  <2> QED
    BY <1>1, <1>5, <1>6, <2>1, <2>2
<1>12. ASSUME NEW c \in Visited', c # start
       PROVE  /\ 0 < best'[c] - NextH(c)
              /\ parent'[c] # start =>
                    best'[parent'[c]] - NextH(parent'[c]) < best'[c] - NextH(c)
  <2>1. c \in Cells
    BY <1>12 DEF Visited
  <2>2. CASE c \in pushed
    <3>1. parent'[c] = node.pos /\ best'[c] - NextH(c) = NextG(node, c)
      BY <1>3, <1>5, <1>6, <2>1, <2>2
    <3> QED
      BY <1>1, <1>5, <1>11, <2>1, <3>1
  <2>3. CASE c \notin pushed
    <3>1. c \in Visited /\ parent'[c] = parent[c] /\ best'[c] = best[c]
      BY <1>3, <1>6, <1>9, <1>12, <2>1, <2>3
    <3>2. /\ 0 < best[c] - NextH(c)
          /\ parent[c] # start =>
                best[parent[c]] - NextH(parent[c]) < best[c] - NextH(c)
      BY <1>12, <3>1 DEF Downhill, WayCost
    <3>3. parent[c] \in Cells
      BY <1>12, <3>1 DEF SearchInv, Linked, Visited
    <3>4. best'[parent[c]] <= best[parent[c]] /\ best'[parent[c]] \in Int
      BY <1>5, <1>6, <1>7, <3>3
    <3> QED
      BY <1>5, <2>1, <3>1, <3>2, <3>3, <3>4
  <2> QED
    BY <2>2, <2>3
<1>13. Downhill'
  BY <1>4, <1>8, <1>10, <1>12 DEF Downhill
<1>14. \/ \E c \in Cells : 0 <= best'[c] /\ best'[c] < best[c]
       \/ best' = best /\ heap' = heap \ {node}
  <2>1. CASE pushed = {}
    <3>1. heap' = heap \ {node}
      BY <1>3, <2>1
    <3>2. best \in [Cells -> Int]
      BY DEF SearchInv, SearchTypes
    <3>3. best' = best
      BY <1>3, <2>1, <3>2
    <3> QED
      BY <3>1, <3>3
  <2>2. ASSUME NEW c \in pushed PROVE \E d \in Cells : 0 <= best'[d] /\ best'[d] < best[d]
    <3>1. c \in Cells /\ best'[c] = NextF(node, c) /\ NextF(node, c) < best[c]
      BY <1>2, <1>6, <2>2
    <3>2. 0 <= NextF(node, c)
      BY <1>1, <1>5, <3>1
    <3> QED
      BY <3>1, <3>2
  <2> QED
    BY <2>1, <2>2
<1> QED
  BY <1>7, <1>13, <1>14

\* What the walk back writes are not parents of cells that have been come to.
LEMMA WalkBackParent ==
    ASSUME SearchInv, WalkBack
    PROVE  \A c \in Visited \ {start} : parent'[c] = parent[c]
<1>1. parent' = [parent EXCEPT ![pos] = IF parent[pos] = None THEN Corner ELSE parent[pos]]
  BY DEF WalkBack, Before
<1>2. parent \in [Cells -> Cells \cup {None}] /\ Visited \subseteq Cells
  BY DEF SearchInv, SearchTypes, Visited
<1>3. \A c \in Visited \ {start} : parent[c] # None
  BY <1>2, ParentAssumption DEF SearchInv, Linked
<1> QED
  BY <1>1, <1>2, <1>3

LEMMA NextDownhill ==
    ASSUME SearchInv, Downhill, [Next]_vars
    PROVE  Downhill'
<1> HIDE DEF Infinite
<1>1. ASSUME NEW node \in heap, Expand(node) PROVE Downhill'
  BY <1>1, ExpandDownhill
<1>2. ASSUME UNCHANGED <<query, best>>, heap' \subseteq heap,
             \A c \in Visited \ {start} : parent'[c] = parent[c]
      PROVE  Downhill'
  <2>1. UNCHANGED <<start, end>> /\ \A c : NextH(c)' = NextH(c)
    BY <1>2 DEF query, NextH
  <2>2. Visited' = Visited /\ \A c : (WayCost(c))' = WayCost(c)
    BY <1>2, <2>1 DEF Visited, WayCost
  <2>3. \A node \in heap' :
          0 <= node.g /\ (node.pos # start => node.f = node.g + NextH(node.pos))
    BY <1>2 DEF Downhill
  <2>4. \A c \in Visited \ {start} :
          0 < WayCost(c) /\ (parent'[c] # start => WayCost(parent'[c]) < WayCost(c))
    BY <1>2 DEF Downhill
  <2> QED
    BY <2>1, <2>2, <2>3, <2>4 DEF Downhill
<1>3. ASSUME NEW node \in heap, Outdated(node) \/ Arrive(node) PROVE Downhill'
  BY <1>2, <1>3 DEF Outdated, Arrive
<1>4. CASE WalkBack
  BY <1>2, <1>4, WalkBackParent DEF WalkBack
<1>5. CASE Exhausted \/ Turn \/ Go
  BY <1>2, <1>5 DEF Exhausted, Turn, Go
<1>6. CASE UNCHANGED vars
  BY <1>2, <1>6 DEF vars
<1> QED
  BY <1>1, <1>3, <1>4, <1>5, <1>6 DEF Next

LEMMA Descends == Spec => []Downhill
<1>1. SearchInv /\ Downhill /\ [Next]_vars => Downhill'
  BY NextDownhill
<1> QED
  BY <1>1, InitDownhill, Searching, PTL DEF Spec
\* Where the walk back goes, until it comes to the start.
LEMMA WalkBackDescends ==
    ASSUME SearchInv, Downhill, Walking, WalkBack, found, at' = "back"
    PROVE  /\ pos \in Visited \ {start} /\ Before \in Visited \ {start}
           /\ Before = parent[pos] /\ pos' = Before /\ path' = Append(path, pos)
           /\ 0 < WayCost(Before) /\ WayCost(Before) < WayCost(pos)
           /\ WayCost(Before) \in Int /\ WayCost(pos) \in Int
<1>1. /\ at = "back" /\ pos' = Before /\ Before # start
      /\ path' = Append(path, pos)
  BY DEF WalkBack
<1>2. /\ pos \in Visited /\ Visited \subseteq Cells /\ path \in Seq(Cells)
      /\ Len(kept) <= Len(path) /\ kept \in Seq(Cells)
  BY <1>1 DEF Walking, Visited, SearchInv, SearchTypes
<1>3. pos # start
  <2>1. CASE Len(path) = Len(kept)
    <3>1. pos = start => Before = start
      <4>1. pos = start => parent[start] = start /\ start \in Cells
        BY <1>1, <2>1 DEF Walking, SearchInv, Nowhere, SearchTypes
      <4> QED
        BY <4>1, ParentAssumption DEF Before
    <3> QED
      BY <1>1, <3>1
  <2>2. CASE Len(kept) < Len(path)
    BY <1>1, <2>2 DEF Walking
  <2> QED
    BY <1>2, <2>1, <2>2
<1>4. parent[pos] \in Visited
  BY <1>2, <1>3 DEF SearchInv, Linked
<1>5. Before = parent[pos]
  BY <1>2, <1>4, ParentAssumption DEF Before
<1>6. 0 < WayCost(Before) /\ WayCost(Before) < WayCost(pos)
  BY <1>1, <1>2, <1>3, <1>4, <1>5 DEF Downhill
<1>7. WayCost(Before) \in Int /\ WayCost(pos) \in Int
  BY <1>2, <1>4, <1>5, CostTyped
<1> QED
  BY <1>1, <1>2, <1>3, <1>4, <1>5, <1>6, <1>7

\* No turn of the two loops of FindPath is in vain, on any map: the search
\* improves a cell or has one node less, and the walk back over parent[] goes to
\* a cell with a cheaper way, so that it cannot turn in a circle.
THEOREM LoopsDoEnd == Spec => LoopsEnd
<1>1. ASSUME RouteInv, Downhill, [Next]_vars, vars' # vars, at = "search", at' = "search"
      PROVE  \/ /\ \A c \in Cells : best'[c] <= best[c]
                /\ \E c \in Cells : 0 <= best'[c] /\ best'[c] < best[c]
             \/ best' = best /\ \E node \in heap : heap' = heap \ {node}
  <2>1. \A node \in heap : ~ Arrive(node)
    BY <1>1 DEF Arrive
  <2>2. \/ \E node \in heap : Outdated(node)
        \/ \E node \in heap : Expand(node)
    BY <1>1, <2>1 DEF Next, Exhausted, WalkBack, Turn, Go
  <2>3. ASSUME NEW node \in heap, Outdated(node)
        PROVE  best' = best /\ heap' = heap \ {node}
    BY <2>3 DEF Outdated
  <2>4. SearchInv
    BY <1>1 DEF RouteInv
  <2> QED
    BY <1>1, <2>2, <2>3, <2>4, ExpandDownhill
<1>2. ASSUME RouteInv, Downhill, [Next]_vars, vars' # vars, at = "back", at' = "back", found
      PROVE  0 < WayCost(pos') /\ WayCost(pos') < WayCost(pos)
  <2>1. WalkBack
    BY <1>2 DEF Next, Exhausted, Turn, Go, Outdated, Arrive, Expand
  <2>2. SearchInv /\ Walking
    BY <1>2 DEF RouteInv
  <2>3. /\ 0 < WayCost(Before) /\ WayCost(Before) < WayCost(pos) /\ pos' = Before
    BY <1>2, <2>1, <2>2, WalkBackDescends
  <2> QED
    BY <2>3
<1>3. RouteInv /\ Downhill /\ [Next]_vars
        => [/\ at = "search" /\ at' = "search" =>
                 \/ /\ \A c \in Cells : best'[c] <= best[c]
                    /\ \E c \in Cells : 0 <= best'[c] /\ best'[c] < best[c]
                 \/ best' = best /\ \E node \in heap : heap' = heap \ {node}
            /\ at = "back" /\ at' = "back" /\ found =>
                 0 < WayCost(pos') /\ WayCost(pos') < WayCost(pos)]_vars
  BY <1>1, <1>2
<1> QED
  BY <1>3, Routed, Descends, PTL DEF Spec, LoopsEnd

-----------------------------------------------------------------------------
(* No cell is walked over twice.                                           *)

\* From the end to pos the ways become cheaper.
Falling ==
    found /\ at = "back" =>
        \A i \in (Len(kept) + 1)..Len(path) :
            /\ path[i] \in Cells
            /\ WayCost(pos) < WayCost(path[i])
            /\ \A j \in (Len(kept) + 1)..Len(path) :
                  i < j => WayCost(path[j]) < WayCost(path[i])

SimpleInv == Falling /\ RouteSimple

\* One more cell on the path, and the turn of the path at the start.
LEMMA WalkBackSimple ==
    ASSUME RouteInv, Downhill, SimpleInv, WalkBack
    PROVE  SimpleInv'
<1> HIDE DEF Infinite
<1> SUFFICES ASSUME found' PROVE SimpleInv'
  BY DEF SimpleInv, Falling, RouteSimple
<1> DEFINE k == Len(kept)
           s == Append(path, pos)
<1>1. /\ at = "back" /\ found /\ UNCHANGED <<start, end, kept, best>>
      /\ IF Before = start THEN path' = Reverse(s) /\ at' = "turn"
         ELSE path' = s /\ at' = "back"
  BY DEF WalkBack, query
<1>2. /\ path \in Seq(Cells) /\ kept \in Seq(Cells) /\ pos \in Cells
      /\ k \in Nat /\ Len(path) \in Nat /\ k <= Len(path)
      /\ s \in Seq(Cells) /\ Len(s) = Len(path) + 1 /\ s[Len(s)] = pos
      /\ \A i \in 1..Len(path) : s[i] = path[i]
  BY <1>1 DEF RouteInv, SearchInv, SearchTypes, Walking
<1>3. UNCHANGED Len(kept) /\ \A c : (WayCost(c))' = WayCost(c)
  BY <1>1 DEF WayCost, NextH
<1>4. \A i \in (k + 1)..Len(path) :
         /\ i \in 1..Len(path) /\ path[i] \in Cells /\ WayCost(pos) < WayCost(path[i])
         /\ \A j \in (k + 1)..Len(path) : i < j => WayCost(path[j]) < WayCost(path[i])
  BY <1>1, <1>2 DEF SimpleInv, Falling
<1> HIDE DEF s, k
<1>5. \A i, j \in (k + 1)..Len(s) :
         s[i] \in Cells /\ (i < j => WayCost(s[j]) < WayCost(s[i]))
  <2> TAKE i, j \in (k + 1)..Len(s)
  <2>1. i \in Int /\ j \in Int /\ (i = Len(s) \/ i \in (k + 1)..Len(path))
        /\ (j = Len(s) \/ j \in (k + 1)..Len(path))
    BY <1>2
  <2>2. s[i] \in Cells
    BY <1>2, <1>4, <2>1
  <2>3. ASSUME i < j PROVE WayCost(s[j]) < WayCost(s[i])
    <3>1. i \in (k + 1)..Len(path) /\ s[i] = path[i]
      BY <1>2, <1>4, <2>1, <2>3
    <3>2. CASE j = Len(s)
      BY <1>2, <1>4, <3>1, <3>2
    <3>3. CASE j \in (k + 1)..Len(path)
      BY <1>2, <1>4, <2>3, <3>1, <3>3
    <3> QED
      BY <2>1, <3>2, <3>3
  <2> QED
    BY <2>2, <2>3
<1>6. \A i, j \in (k + 1)..Len(s) : s[i] = s[j] => i = j
  <2> TAKE i, j \in (k + 1)..Len(s)
  <2>1. WayCost(s[i]) \in Int /\ i \in Int /\ j \in Int
    BY <1>2, <1>5, CostTyped DEF RouteInv
  <2> QED
    BY <1>5, <2>1
<1>7. CASE Before # start
  <2>1. path' = s /\ at' = "back" /\ pos' = Before
    BY <1>1, <1>7 DEF WalkBack
  <2>2. /\ WayCost(Before) < WayCost(pos)
        /\ WayCost(Before) \in Int /\ WayCost(pos) \in Int
    BY <1>1, <2>1, WalkBackDescends DEF RouteInv
  <2>3. ASSUME NEW i \in (k + 1)..Len(s) PROVE WayCost(Before) < WayCost(s[i])
    <3>1. Len(s) \in (k + 1)..Len(s) /\ i \in Int /\ (i < Len(s) \/ i = Len(s))
      BY <1>2
    <3>2. i < Len(s) => WayCost(pos) < WayCost(s[i])
      BY <1>2, <1>5, <3>1
    <3>3. WayCost(s[i]) \in Int
      BY <1>5, CostTyped DEF RouteInv
    <3> QED
      BY <1>2, <2>2, <3>1, <3>2, <3>3
  <2>4. Falling'
    BY <1>3, <1>5, <2>1, <2>3 DEF Falling, k
  <2>5. RouteSimple'
    <3>1. OnRoute' = (k + 1)..Len(s)
      BY <1>3, <2>1 DEF OnRoute, k
    <3> QED
      BY <1>6, <2>1, <3>1 DEF RouteSimple
  <2> QED
    BY <2>4, <2>5 DEF SimpleInv
<1>8. CASE Before = start
  <2>1. path' = Reverse(s) /\ at' = "turn"
    BY <1>1, <1>8
  <2>2. /\ Len(Reverse(s)) = Len(s)
        /\ \A i \in 1..Len(s) : Reverse(s)[i] = s[Len(s) - i + 1]
    BY <1>2 DEF Reverse
  <2>3. OnRoute' = 1..(Len(s) - k)
    BY <1>3, <2>1, <2>2 DEF OnRoute, k
  <2>4. ASSUME NEW i \in 1..(Len(s) - k), NEW j \in 1..(Len(s) - k),
               Reverse(s)[i] = Reverse(s)[j]
        PROVE  i = j
    <3>1. /\ Len(s) - i + 1 \in (k + 1)..Len(s) /\ Len(s) - j + 1 \in (k + 1)..Len(s)
          /\ i \in 1..Len(s) /\ j \in 1..Len(s)
      BY <1>2
    <3>2. s[Len(s) - i + 1] = s[Len(s) - j + 1]
      BY <2>2, <2>4, <3>1
    <3>3. Len(s) - i + 1 = Len(s) - j + 1
      BY <1>6, <3>1, <3>2
    <3> QED
      BY <1>2, <3>1, <3>3
  <2> QED
    BY <2>1, <2>3, <2>4 DEF SimpleInv, Falling, RouteSimple
<1> QED
  BY <1>7, <1>8
LEMMA NextSimple ==
    ASSUME RouteInv, Downhill, SimpleInv, [Next]_vars
    PROVE  SimpleInv'
<1> HIDE DEF Infinite
<1>1. ASSUME NEW node \in heap, Outdated(node) \/ Expand(node) PROVE SimpleInv'
  BY <1>1 DEF Outdated, Expand, SimpleInv, Falling, RouteSimple
<1>2. ASSUME NEW node \in heap, Arrive(node) PROVE SimpleInv'
  <2>1. /\ at' = "back" /\ path' = kept' /\ kept' \in Seq(Cells)
    BY <1>2 DEF Arrive, RouteInv, Unwalked, SearchInv, SearchTypes, query
  <2>2. (Len(kept') + 1)..Len(path') = {}
    BY <2>1
  <2> QED
    BY <2>1, <2>2 DEF SimpleInv, Falling, RouteSimple, OnRoute
<1>3. CASE Exhausted
  <2>1. ~ found'
    BY <1>3 DEF Exhausted, RouteInv, SearchInv, Frontier
  <2> QED
    BY <2>1 DEF SimpleInv, Falling, RouteSimple
<1>4. CASE WalkBack
  BY <1>4, WalkBackSimple
<1>5. CASE Turn \/ Go
  <2>1. /\ at \in {"turn", "go"} /\ at' \in {"go", "done"}
        /\ UNCHANGED <<kept, found, path>>
    BY <1>5 DEF Turn, Go, query
  <2>2. OnRoute' = OnRoute
    BY <2>1 DEF OnRoute
  <2> QED
    BY <2>1, <2>2 DEF SimpleInv, Falling, RouteSimple
<1>6. CASE UNCHANGED vars
  BY <1>6 DEF vars, query, SimpleInv, Falling, RouteSimple, OnRoute, WayCost, NextH
<1> QED
  BY <1>1, <1>2, <1>3, <1>4, <1>5, <1>6 DEF Next

LEMMA Simple == Spec => []SimpleInv
<1>1. Init => SimpleInv
  BY DEF Init, SimpleInv, Falling, RouteSimple
<1>2. RouteInv /\ Downhill /\ SimpleInv /\ [Next]_vars => SimpleInv'
  BY NextSimple
<1> QED
  BY <1>1, <1>2, Routed, Descends, PTL DEF Spec

\* The way that FindPath returns never comes back to a cell, although parent[]
\* is overwritten while its cells are still in use as the parents of others.
THEOREM RouteIsSimple == Spec => []RouteSimple
<1>1. SimpleInv => RouteSimple
  BY DEF SimpleInv
<1> QED
  BY <1>1, Simple, PTL

\* The walk back puts fewer cells on the path than there are, so that a bound
\* of so many is none where there is a way.
THEOREM PathIsShort ==
    Spec => [](found /\ at = "back" => Len(path) < Len(kept) + Cardinality(Cells))
<1>1. ASSUME RouteInv, SimpleInv, found, at = "back"
      PROVE  Len(path) < Len(kept) + Cardinality(Cells)
  <2> DEFINE k == Len(kept)
             n == Len(path) - k
             seen == [i \in 1..(n + 1) |-> IF i <= n THEN path[k + i] ELSE pos]
  <2>1. /\ path \in Seq(Cells) /\ k \in Nat /\ Len(path) \in Nat /\ n \in Nat
        /\ pos \in Cells
    BY <1>1 DEF RouteInv, SearchInv, SearchTypes, Walking
  <2>2. \A i \in 1..n : k + i \in (k + 1)..Len(path) /\ path[k + i] \in Cells
    BY <2>1
  <2>3. \A i \in 1..n : WayCost(pos) < WayCost(path[k + i])
    BY <1>1, <2>2 DEF SimpleInv, Falling
  <2>4. WayCost(pos) \in Int
    BY <1>1, <2>1, CostTyped DEF RouteInv
  <2>5. \A i \in 1..n : path[k + i] # pos
    BY <2>3, <2>4
  <2>6. \A i, j \in 1..n : path[k + i] = path[k + j] => i = j
    <3>1. \A i, j \in (k + 1)..Len(path) : path[i] = path[j] => i = j
      BY <1>1 DEF SimpleInv, RouteSimple, OnRoute
    <3> QED
      BY <2>1, <2>2, <3>1
  <2> HIDE DEF k, n
  <2>7. seen \in [1..(n + 1) -> Cells]
    BY <2>1, <2>2
  <2>8. ASSUME NEW i \in 1..(n + 1), NEW j \in 1..(n + 1), seen[i] = seen[j] PROVE i = j
    <3>1. (i \in 1..n \/ i = n + 1) /\ (j \in 1..n \/ j = n + 1)
      BY <2>1
    <3>2. /\ i \in 1..n => seen[i] = path[k + i]
          /\ j \in 1..n => seen[j] = path[k + j]
          /\ i = n + 1 => seen[i] = pos
          /\ j = n + 1 => seen[j] = pos
      BY <2>1
    <3> QED
      BY <2>5, <2>6, <2>8, <3>1, <3>2
  <2>9. seen \in Injection(1..(n + 1), Cells)
    BY <2>7, <2>8 DEF Injection, IsInjective
  <2>10. Cardinality(1..(n + 1)) = n + 1
    BY <2>1, FS_Interval
  <2>11. n + 1 <= Cardinality(Cells)
    BY <2>9, <2>10, CellsFinite, FS_Injection
  <2> QED
    BY <2>1, <2>11, CellsFinite DEF k, n
<1>2. RouteInv /\ SimpleInv
        => (found /\ at = "back" => Len(path) < Len(kept) + Cardinality(Cells))
  BY <1>1
<1> QED
  BY <1>2, Routed, Simple, PTL
=============================================================================
