--------------------------- MODULE SuffixesProofs ---------------------------
(***************************************************************************)
(* The cuts of the descents and the canonical classes, for every size of   *)
(* the board and every completable remainder.                              *)
(***************************************************************************)
EXTENDS Suffixes, FiniteSetTheorems, FunctionTheorems, WellFoundedInduction, TLAPS

-----------------------------------------------------------------------------
(* Numbers, and finite sets with an order.                                 *)
LEMMA Least ==
    ASSUME NEW T \in SUBSET Nat, T # {}
    PROVE  \E x \in T : \A y \in T : x <= y
<1> DEFINE R == {p \in Nat \X Nat : p[1] < p[2]}
<1>1. IsWellFoundedOn(R, Nat)
    BY NatLessThanWellFounded DEF OpToRel
<1>2. PICK x \in T : \A y \in T : ~ (<<y, x>> \in R)
    BY <1>1, WFMin
<1>3. ASSUME NEW y \in T
      PROVE  x <= y
    <2>1. x \in Nat /\ y \in Nat /\ <<y, x>> \in Nat \X Nat
        OBVIOUS
    <2>2. ~ (y < x)
        BY <1>2, <2>1
    <2> QED
        BY <2>1, <2>2
<1> QED
    BY <1>3

(* Of the sets of a finite family one has the fewest members.              *)
LEMMA Smallest ==
    ASSUME NEW A, A # {}, \A F \in A : IsFiniteSet(F)
    PROVE  \E F \in A : \A G \in A : Cardinality(F) <= Cardinality(G)
<1> DEFINE T == {Cardinality(F) : F \in A}
<1>1. T \in SUBSET Nat /\ T # {}
    BY FS_CardinalityType
<1>2. PICK n \in T : \A m \in T : n <= m
    BY <1>1, Least
<1> QED
    BY <1>2

LEMMA Boards == /\ Size \in Nat \ {0} /\ Size <= 8 /\ totalCells \in Nat /\ totalCells = Size * Size
                /\ Cell \subseteq Nat /\ IsFiniteSet(Cell)
<1>1. Size \in 1 .. 8
    BY BoardAssumption
<1>2. Size \in Nat \ {0} /\ Size <= 8 /\ totalCells \in Nat /\ totalCells = Size * Size
    BY <1>1 DEF totalCells
<1>3. IsFiniteSet(0 .. (totalCells - 1))
    <2>1. 0 \in Int /\ totalCells - 1 \in Int
        BY <1>2
    <2> QED
        BY <2>1, FS_Interval
<1> QED
    BY <1>2, <1>3 DEF Cell

LEMMA Coordinates == \A c \in Cell : RowOf(c) \in Int /\ ColumnOf(c) \in Int
BY Boards DEF RowOf, ColumnOf

(* The neighbourhood is symmetric and no cell is its own neighbour.        *)
LEMMA Symmetric ==
    ASSUME NEW c \in Cell, NEW d \in Neighbors[c]
    PROVE  d \in Cell /\ c \in Neighbors[d] /\ d # c
<1>1. d \in Cell /\ <<RowOf(d) - RowOf(c), ColumnOf(d) - ColumnOf(c)>> \in KnightMoves
    BY DEF Neighbors
<1> DEFINE x == RowOf(d) - RowOf(c)
           y == ColumnOf(d) - ColumnOf(c)
<1>2. x \in -2 .. 2 /\ y \in -2 .. 2 /\ x * x + y * y = 5
    BY <1>1 DEF KnightMoves
<1>3. /\ RowOf(c) \in Int /\ ColumnOf(c) \in Int /\ RowOf(d) \in Int /\ ColumnOf(d) \in Int
    BY <1>1, Coordinates
<1>4. RowOf(c) - RowOf(d) = -x /\ ColumnOf(c) - ColumnOf(d) = -y
    BY <1>3
<1>5. d # c
    BY <1>2, <1>3
<1> HIDE DEF x, y
<1>6. -x \in -2 .. 2 /\ -y \in -2 .. 2 /\ (-x) * (-x) + (-y) * (-y) = 5
    BY <1>2
<1>7. <<-x, -y>> \in KnightMoves
    BY <1>6 DEF KnightMoves
<1>8. c \in Neighbors[d]
    BY <1>1, <1>4, <1>7 DEF Neighbors
<1> QED
    BY <1>1, <1>5, <1>8

(* What a descent has: it stands on a visited cell.                        *)
Placed(cur, todo) == cur \in Cell /\ todo \in SUBSET Cell /\ cur \notin todo

LEMMA PlacedKept ==
    ASSUME NEW cur, NEW todo, Placed(cur, todo), NEW v \in Neighbors[cur] \ todo
    PROVE  Placed(v, todo \cup {cur})
BY Symmetric DEF Placed

LEMMA Remainders ==
    ASSUME NEW cur, NEW todo, Placed(cur, todo)
    PROVE  IsFiniteSet(todo) /\ IsFiniteSet(todo \cup {cur})
<1>1. IsFiniteSet(todo)
    BY Boards, FS_Subset DEF Placed
<1>2. IsFiniteSet(todo \cup {cur})
    BY Boards, FS_Subset DEF Placed
<1> QED
    BY <1>1, <1>2

-----------------------------------------------------------------------------
(* A function defined by recursion is one that satisfies its equation, when *)
(* there is one: what every such function has in common holds of it.       *)
Tips(F) == {e \in F : \E v \in e : \A f \in F \ {e} : v \notin f}

LEMMA PeelEnds ==
    ASSUME NEW E, IsFiniteSet(E),
           \A F \in SUBSET E : F # {} => Tips(F) # {},
           NEW g, g = [F \in SUBSET E |-> IF Tips(F) = {} THEN F # {} ELSE g[F \ Tips(F)]]
    PROVE  \A F \in SUBSET E : g[F] = FALSE
<1> DEFINE B == {F \in SUBSET E : g[F] # FALSE}
<1> SUFFICES ASSUME B # {} PROVE FALSE
    OBVIOUS
<1>1. \A F \in B : IsFiniteSet(F)
    BY FS_Subset
<1>2. PICK F \in B : \A G \in B : Cardinality(F) <= Cardinality(G)
  <2> HIDE DEF B
  <2> QED
    BY <1>1, Smallest
<1>3. F \in SUBSET E /\ IsFiniteSet(F) /\ g[F] # FALSE
    BY <1>1, <1>2
<1>4. g[F] = IF Tips(F) = {} THEN F # {} ELSE g[F \ Tips(F)]
    BY <1>3
<1>5. Tips(F) # {} /\ Tips(F) \subseteq F
  <2>1. CASE F = {}
      <3>1. Tips(F) = {}
        BY <2>1 DEF Tips
      <3> QED
        BY <2>1, <3>1, <1>4, <1>3
  <2>2. CASE F # {}
    BY <2>2, <1>3 DEF Tips
  <2> QED
    BY <2>1, <2>2
<1>6. g[F \ Tips(F)] # FALSE /\ F \ Tips(F) \in SUBSET E
    BY <1>3, <1>4, <1>5
<1>7. Cardinality(F) <= Cardinality(F \ Tips(F))
    BY <1>2, <1>6
<1>8. F \ Tips(F) # F /\ F \ Tips(F) \subseteq F
    BY <1>5
<1> QED
    BY <1>3, <1>7, <1>8, FS_Subset, FS_CardinalityType

LEMMA Forest ==
    ASSUME NEW E, IsFiniteSet(E), \A F \in SUBSET E : F # {} => Tips(F) # {}
    PROVE  ~ HasCycle(E)
<1> DEFINE Peels(g) == g = [F \in SUBSET E |-> IF Tips(F) = {} THEN F # {} ELSE g[F \ Tips(F)]]
           g == CHOOSE h : Peels(h)
           h == [F \in SUBSET E |-> FALSE]
<1>1. Peels(h)
  <2>1. ASSUME NEW F \in SUBSET E
        PROVE  (IF Tips(F) = {} THEN F # {} ELSE h[F \ Tips(F)]) = FALSE
    <3>1. F \ Tips(F) \in SUBSET E /\ h[F \ Tips(F)] = FALSE
        OBVIOUS
    <3>2. CASE Tips(F) = {}
        BY <3>2
    <3>3. CASE Tips(F) # {}
        BY <3>1, <3>3
    <3> QED
        BY <3>2, <3>3
  <2>2. [F \in SUBSET E |-> IF Tips(F) = {} THEN F # {} ELSE h[F \ Tips(F)]] = [F \in SUBSET E |-> FALSE]
    <3> HIDE DEF h
    <3> QED BY <2>1
  <2> QED
    BY <2>2
<1>2. Peels(g)
  <2> HIDE DEF Peels, h
  <2> QED BY <1>1
<1>3. \A F \in SUBSET E : g[F] = FALSE
  <2>1. g = [F \in SUBSET E |-> IF Tips(F) = {} THEN F # {} ELSE g[F \ Tips(F)]]
    BY <1>2
  <2> HIDE DEF g
  <2> QED BY <2>1, PeelEnds
<1>4. HasCycle(E) = g[E]
    BY DEF HasCycle, Tips
<1> QED
    BY <1>3, <1>4

-----------------------------------------------------------------------------
(* Small sets.                                                             *)
LEMMA Pair ==
    ASSUME NEW a, NEW b
    PROVE  /\ IsFiniteSet({a, b})
           /\ Cardinality({a, b}) = IF a = b THEN 1 ELSE 2
<1>1. IsFiniteSet({a}) /\ Cardinality({a}) = 1
    BY FS_Singleton
<1>2. CASE a = b
  <2>1. {a, b} = {a}
    BY <1>2
  <2> QED
    BY <2>1, <1>1, <1>2
<1>3. CASE a # b
  <2>1. {a, b} = {a} \cup {b} /\ b \notin {a}
    BY <1>3
  <2>2. IsFiniteSet({a} \cup {b}) /\ Cardinality({a} \cup {b}) = Cardinality({a}) + 1
    BY <1>1, <2>1, FS_AddElement
  <2> QED
    BY <2>1, <2>2, <1>1, <1>3
<1> QED
    BY <1>2, <1>3

LEMMA AtMost ==
    ASSUME NEW S, NEW a, NEW b, S \subseteq {a, b}
    PROVE  /\ IsFiniteSet(S) /\ Cardinality(S) \in Nat /\ Cardinality(S) <= 2
           /\ a = b => Cardinality(S) <= 1
<1>1. IsFiniteSet(S) /\ Cardinality(S) \in Nat /\ Cardinality(S) <= Cardinality({a, b})
    BY Pair, FS_Subset, FS_CardinalityType
<1>2. CASE a = b
  <2>1. Cardinality({a, b}) = 1
    BY <1>2, Pair
  <2> QED
    BY <1>1, <2>1
<1>3. CASE a # b
  <2>1. Cardinality({a, b}) = 2
    BY <1>3, Pair
  <2> QED
    BY <1>1, <2>1, <1>3
<1> QED
    BY <1>2, <1>3

LEMMA AtLeast ==
    ASSUME NEW S, IsFiniteSet(S), NEW a \in S, NEW b \in S, a # b
    PROVE  /\ Cardinality(S) # 1
           /\ Cardinality(S) = 2 => S = {a, b}
<1>1. {a, b} \subseteq S /\ Cardinality({a, b}) = 2
    BY Pair
<1>2. Cardinality({a, b}) <= Cardinality(S) /\ (Cardinality(S) = Cardinality({a, b}) => S = {a, b})
    BY <1>1, FS_Subset
<1>3. Cardinality(S) \in Nat
    BY FS_CardinalityType
<1> QED
    BY <1>1, <1>2, <1>3

LEMMA Degrees == ASSUME NEW c, NEW S, IsFiniteSet(S)
                 PROVE  IsFiniteSet(NeighborsIn(c, S)) /\ DegreeIn(c, S) \in Nat
<1>1. NeighborsIn(c, S) \subseteq S
    BY DEF NeighborsIn
<1> QED
    BY <1>1, FS_Subset, FS_CardinalityType DEF DegreeIn

-----------------------------------------------------------------------------
(* The write gate. P holds the edges of a path from cur over all of todo   *)
(* to end.                                                                 *)
At(P, x) == {e \in P : x \in e}
Once(P, x) == \E a \in Neighbors[x] : At(P, x) = {{x, a}}
Twice(P, x) == \E a, b \in Neighbors[x] : a # b /\ At(P, x) = {{x, a}, {x, b}}

Threads(cur, todo, P, end) ==
    /\ P \subseteq SUBSET (todo \cup {cur})
    /\ todo = {} => P = {} /\ end = cur
    /\ todo # {} => end \in todo /\ Once(P, cur) /\ Once(P, end)
    /\ \A x \in todo \ {end} : Twice(P, x)
    /\ \A F \in SUBSET P : F # {} => Tips(F) # {}

LEMMA ThreadStarts ==
    ASSUME NEW cur
    PROVE  Threads(cur, {}, {}, cur)
BY DEF Threads

LEMMA ThreadGrows ==
    ASSUME NEW cur, NEW todo, Placed(cur, todo), NEW P, NEW end, Threads(cur, todo, P, end),
           NEW v \in Neighbors[cur] \ todo
    PROVE  \E R : Threads(v, todo \cup {cur}, R, end)
<1> DEFINE n == {v, cur}
           Q == P \cup {n}
<1>1. v \in Neighbors[cur] /\ v \notin todo
    OBVIOUS
<1>2. v # cur /\ cur \in Neighbors[v] /\ cur \notin todo
    BY <1>1, Symmetric DEF Placed
<1>3. P \subseteq SUBSET (todo \cup {cur}) /\ v \notin todo \cup {cur}
    BY <1>1, <1>2 DEF Threads
<1>4. Once(Q, v)
  <2>1. At(Q, v) = {{v, cur}}
    BY <1>3 DEF At
  <2> QED
    BY <2>1, <1>2 DEF Once
<1>5. \A x \in todo : At(Q, x) = At(P, x)
    BY <1>1, <1>2 DEF At
<1>6. At(Q, cur) = At(P, cur) \cup {{cur, v}}
    BY DEF At
<1>7. todo = {} => Once(Q, cur) /\ end = cur
  <2> SUFFICES ASSUME todo = {} PROVE Once(Q, cur) /\ end = cur
    OBVIOUS
  <2>1. P = {} /\ end = cur
    BY DEF Threads
  <2>2. At(Q, cur) = {{cur, v}}
    BY <2>1, <1>6 DEF At
  <2> QED
    BY <2>1, <2>2, <1>1 DEF Once
<1>8. todo # {} => end \in todo /\ Once(Q, end) /\ Twice(Q, cur)
  <2> SUFFICES ASSUME todo # {} PROVE end \in todo /\ Once(Q, end) /\ Twice(Q, cur)
    OBVIOUS
  <2>1. end \in todo /\ Once(P, cur) /\ Once(P, end)
    BY DEF Threads
  <2>2. Once(Q, end)
    BY <2>1, <1>5 DEF Once
  <2>3. PICK a \in Neighbors[cur] : At(P, cur) = {{cur, a}}
    BY <2>1 DEF Once
  <2>4. {cur, a} \in P
    BY <2>3 DEF At
  <2>5. a # v
    BY <2>4, <1>3
  <2>6. At(Q, cur) = {{cur, a}, {cur, v}}
    BY <2>3, <1>6
  <2> QED
    BY <2>1, <2>2, <2>5, <2>6, <1>1 DEF Twice
<1>9. \A x \in todo \ {end} : Twice(Q, x)
  <2>1. ASSUME NEW x \in todo \ {end} PROVE Twice(Q, x)
    <3>1. Twice(P, x)
        BY <2>1 DEF Threads
    <3>2. At(Q, x) = At(P, x)
        BY <2>1, <1>5
    <3> HIDE DEF Q
    <3> QED
        BY <3>1, <3>2 DEF Twice
  <2> QED
    BY <2>1
<1>10. ASSUME NEW F \in SUBSET Q, F # {}
       PROVE  Tips(F) # {}
  <2>1. CASE n \in F
    <3>1. \A f \in F \ {n} : v \notin f
        BY <1>3
    <3> QED
        BY <2>1, <3>1 DEF Tips
  <2>2. CASE n \notin F
    <3>1. F \in SUBSET P
        BY <2>2
    <3> QED
        BY <3>1, <1>10 DEF Threads
  <2> QED
    BY <2>1, <2>2
<1>11. Q \subseteq SUBSET (todo \cup {cur} \cup {v})
    BY <1>3
<1>12. \A x \in (todo \cup {cur}) \ {end} : Twice(Q, x)
  <2>1. ASSUME NEW x \in (todo \cup {cur}) \ {end} PROVE Twice(Q, x)
    BY <2>1, <1>7, <1>8, <1>9
  <2> QED
    BY <2>1
<1>13. end \in todo \cup {cur} /\ Once(Q, end)
    BY <1>7, <1>8
<1>14. todo \cup {cur} # {} /\ (todo \cup {cur}) \cup {v} = todo \cup {cur} \cup {v}
    OBVIOUS
<1> HIDE DEF Q
<1>15. Threads(v, todo \cup {cur}, Q, end)
    BY <1>4, <1>10, <1>11, <1>12, <1>13, <1>14 DEF Threads
<1> QED
    BY <1>15

(* What a gate sees of the path: a vertex other than its ends has degree   *)
(* two or more, so a pinned end is the path's, and every forced edge is one *)
(* of the path's.                                                          *)
AtPair(P, v) == \E a, b : At(P, v) \subseteq {a, b}

LEMMA ThreadSeen ==
    ASSUME NEW cur, NEW todo, Placed(cur, todo), NEW P, NEW end, Threads(cur, todo, P, end)
    PROVE  /\ \A v \in todo : DegreeIn(v, todo \cup {cur}) = 1 => v = end
           /\ todo # {} => /\ ForcedEdges(todo \cup {cur}, cur, end) \subseteq P
                           /\ \E a : At(P, cur) \subseteq {a}
                           /\ \A v \in todo : AtPair(P, v)
<1> DEFINE h == todo \cup {cur}
<1>1. IsFiniteSet(h)
    BY Remainders
<1>2. \A e \in P : e \subseteq h
    BY DEF Threads
<1>3. \A x, a : At(P, x) = {{x, a}} => a \in h
  <2>1. ASSUME NEW x, NEW a, At(P, x) = {{x, a}} PROVE a \in h
    <3>1. {x, a} \in P
        BY <2>1 DEF At
    <3> QED
        BY <3>1, <1>2
  <2> QED
    BY <2>1
<1>4. \A x, a, b : At(P, x) = {{x, a}, {x, b}} => a \in h /\ b \in h
  <2>1. ASSUME NEW x, NEW a, NEW b, At(P, x) = {{x, a}, {x, b}} PROVE a \in h /\ b \in h
    <3>1. {x, a} \in P /\ {x, b} \in P
        BY <2>1 DEF At
    <3> QED
        BY <3>1, <1>2
  <2> QED
    BY <2>1
<1> HIDE DEF h
<1>5. ASSUME NEW v \in todo \ {end}
      PROVE  \E a, b \in NeighborsIn(v, h) : a # b /\ At(P, v) = {{v, a}, {v, b}}
  <2>1. PICK a \in Neighbors[v], b \in Neighbors[v] : a # b /\ At(P, v) = {{v, a}, {v, b}}
    BY DEF Threads, Twice
  <2>2. a \in h /\ b \in h
    BY <2>1, <1>4
  <2> QED
    BY <2>1, <2>2 DEF NeighborsIn
<1>6. ASSUME NEW v \in {cur, end}, todo # {}
      PROVE  \E a \in NeighborsIn(v, h) : At(P, v) = {{v, a}}
  <2>1. PICK a \in Neighbors[v] : At(P, v) = {{v, a}}
    BY <1>6 DEF Threads, Once
  <2>2. a \in h
    BY <2>1, <1>3
  <2> QED
    BY <2>1, <2>2 DEF NeighborsIn
<1>7. ASSUME NEW v \in todo, v # end
      PROVE  DegreeIn(v, h) # 1
  <2>1. PICK a \in NeighborsIn(v, h), b \in NeighborsIn(v, h) : a # b
    BY <1>5, <1>7
  <2>2. IsFiniteSet(NeighborsIn(v, h))
    BY <1>1, Degrees
  <2> QED
    BY <2>1, <2>2, AtLeast DEF DegreeIn
<1>8. ASSUME todo # {}, NEW e \in ForcedEdges(h, cur, end)
      PROVE  e \in P
  <2>1. PICK v \in h, w \in h : e = {v, w} /\ w \in Neighbors[v] /\ forcedVertex(h, cur, end, v)
    <3>1. e \in {{v, w} : v \in h, w \in h}
        BY DEF ForcedEdges
    <3>2. PICK v \in e, w \in e : e = {v, w} /\ w \in Neighbors[v] /\ forcedVertex(h, cur, end, v)
        BY DEF ForcedEdges
    <3>3. e \subseteq h
        BY <3>1
    <3> QED
        BY <3>2, <3>3
  <2>2. w \in NeighborsIn(v, h) /\ IsFiniteSet(NeighborsIn(v, h))
    BY <2>1, <1>1, Degrees DEF NeighborsIn
  <2>3. CASE v \in {cur, end}
    <3>1. PICK a \in NeighborsIn(v, h) : At(P, v) = {{v, a}}
        BY <2>3, <1>6, <1>8
    <3>2. Cardinality(NeighborsIn(v, h)) = 1
        BY <2>1, <2>3 DEF forcedVertex, DegreeIn
    <3>3. w = a
        BY <2>2, <3>1, <3>2, AtLeast
    <3> QED
        BY <2>1, <3>1, <3>3 DEF At
  <2>4. CASE v \notin {cur, end}
    <3>0. v \in todo \ {end}
        BY <2>1, <2>4 DEF h
    <3>1. PICK a \in NeighborsIn(v, h), b \in NeighborsIn(v, h) : a # b /\ At(P, v) = {{v, a}, {v, b}}
        BY <3>0, <1>5
    <3>2. Cardinality(NeighborsIn(v, h)) = 2
        BY <2>1, <2>4 DEF forcedVertex, DegreeIn
    <3>3. NeighborsIn(v, h) = {a, b}
        BY <2>2, <3>1, <3>2, AtLeast
    <3>4. w = a \/ w = b
        BY <3>3, <2>2
    <3> QED
        BY <2>1, <3>1, <3>4 DEF At
  <2> QED
    BY <2>3, <2>4
<1>9. ASSUME todo # {} PROVE \E a : At(P, cur) \subseteq {a}
    BY <1>9, <1>6
<1>10. ASSUME todo # {}, NEW v \in todo PROVE AtPair(P, v)
  <2>1. CASE v = end
    <3>1. PICK a \in NeighborsIn(v, h) : At(P, v) = {{v, a}}
        BY <2>1, <1>6, <1>10
    <3>2. At(P, v) \subseteq {{v, a}, {v, a}}
        BY <3>1
    <3> QED
        BY <3>2 DEF AtPair
  <2>2. CASE v # end
    <3>1. PICK a \in NeighborsIn(v, h), b \in NeighborsIn(v, h) : At(P, v) = {{v, a}, {v, b}}
        BY <2>2, <1>5
    <3>2. At(P, v) \subseteq {{v, a}, {v, b}}
        BY <3>1
    <3> QED
        BY <3>2 DEF AtPair
  <2> QED
    BY <2>1, <2>2
<1>11. todo \cup {cur} = h
    BY DEF h
<1> QED
    BY <1>7, <1>8, <1>9, <1>10, <1>11

LEMMA GatePasses ==
    ASSUME NEW cur, NEW todo, Placed(cur, todo), NEW P, NEW end, Threads(cur, todo, P, end)
    PROVE  ~ ShouldPruneState(cur, todo)
<1> DEFINE h == todo \cup {cur}
           ends == {v \in todo : DegreeIn(v, h) = 1}
           t == CHOOSE v \in ends : TRUE
           E == ForcedEdges(h, cur, t)
<1>1. Placed(cur, todo) /\ Threads(cur, todo, P, end)
    OBVIOUS
<1>2. ASSUME Pinned(ends)
      PROVE  /\ ~ Cardinality({e \in E : cur \in e}) > 1
             /\ \A v \in todo : ~ Cardinality({e \in E : v \in e}) > 2
             /\ ~ HasCycle(E)
  <2>1. ends # {} /\ ends \subseteq {end} /\ todo # {}
    <3>1. Cardinality(ends) = 1
        BY <1>2 DEF Pinned
    <3>2. ends # {}
        BY <3>1, FS_EmptySet
    <3>3. ends \subseteq {end}
        BY <1>1, ThreadSeen
    <3> QED
        BY <3>2, <3>3
  <2>2. t = end
    BY <2>1
  <2>3. E \subseteq P
    BY <1>1, <2>1, <2>2, ThreadSeen
  <2>9. \E a : At(P, cur) \subseteq {a}
    BY <1>1, <2>1, ThreadSeen
  <2>10. \A v \in todo : AtPair(P, v)
    BY <1>1, <2>1, ThreadSeen
  <2>4. IsFiniteSet(P)
    <3>1. IsFiniteSet(SUBSET (todo \cup {cur})) /\ P \subseteq SUBSET (todo \cup {cur})
        BY <1>1, Remainders, FS_SUBSET DEF Threads
    <3> QED
        BY <3>1, FS_Subset
  <2> HIDE DEF E, ends, t
  <2>5. \A x : {e \in E : x \in e} \subseteq At(P, x)
    BY <2>3 DEF At
  <2>6. ~ Cardinality({e \in E : cur \in e}) > 1
    <3>1. PICK a : At(P, cur) \subseteq {a}
        BY <2>9
    <3> DEFINE F == {e \in E : cur \in e}
    <3>2. F \subseteq {a, a}
        BY <2>5, <3>1
    <3> HIDE DEF F
    <3>3. Cardinality(F) \in Nat /\ Cardinality(F) <= 1
        BY <3>2, AtMost
    <3>4. ~ Cardinality(F) > 1
        BY <3>3
    <3> QED
        BY <3>4 DEF F
  <2>7. ASSUME NEW v \in todo PROVE ~ Cardinality({e \in E : v \in e}) > 2
    <3>1. PICK a, b : At(P, v) \subseteq {a, b}
        BY <2>10 DEF AtPair
    <3> DEFINE F == {e \in E : v \in e}
    <3>2. F \subseteq {a, b}
        BY <2>5, <3>1
    <3> HIDE DEF F
    <3>3. Cardinality(F) \in Nat /\ Cardinality(F) <= 2
        BY <3>2, AtMost
    <3>4. ~ Cardinality(F) > 2
        BY <3>3
    <3> QED
        BY <3>4 DEF F
  <2>8. ~ HasCycle(E)
    <3>1. IsFiniteSet(E)
        BY <2>3, <2>4, FS_Subset
    <3>2. \A F \in SUBSET E : F # {} => Tips(F) # {}
        BY <2>3, <1>1 DEF Threads
    <3> QED
        BY <3>1, <3>2, Forest
  <2> QED
    BY <2>6, <2>7, <2>8
<1>3. ~ forcedChainCut(cur, todo)
    BY <1>2 DEF forcedChainCut
<1> QED
    BY <1>3 DEF ShouldPruneState

-----------------------------------------------------------------------------
(* The flood fill. In a set that no smaller nonempty part of it closes off *)
(* it reaches everything, whatever cell it starts from.                    *)
Wider(S, seen) == seen \cup UNION {NeighborsIn(c, S) : c \in seen}
WholeOnly(S) == \A T \in SUBSET S : T # {} /\ Wider(S, T) = T => T = S

LEMMA Widens == ASSUME NEW S, NEW seen \in SUBSET S
                PROVE  Wider(S, seen) \in SUBSET S /\ seen \subseteq Wider(S, seen)
                       /\ Wider(S, {}) = {}
<1>1. \A c : NeighborsIn(c, S) \subseteq S
    BY DEF NeighborsIn
<1> QED
    BY <1>1 DEF Wider

LEMMA FillEnds ==
    ASSUME NEW S, IsFiniteSet(S), WholeOnly(S),
           NEW g, g = [seen \in SUBSET S |-> IF Wider(S, seen) = seen THEN seen ELSE g[Wider(S, seen)]]
    PROVE  \A seen \in SUBSET S : seen # {} => g[seen] = S
<1> DEFINE Bad == {seen \in SUBSET S : seen # {} /\ g[seen] # S}
           B == {S \ seen : seen \in Bad}
<1> SUFFICES ASSUME Bad # {} PROVE FALSE
    OBVIOUS
<1>1. B # {} /\ \A F \in B : IsFiniteSet(F)
  <2>1. \A F \in B : F \subseteq S
    OBVIOUS
  <2>2. \A F \in B : IsFiniteSet(F)
    <3> HIDE DEF B
    <3> QED BY <2>1, FS_Subset
  <2>3. B # {}
    <3>1. PICK seen \in Bad : TRUE
        OBVIOUS
    <3>2. S \ seen \in B
        BY <3>1
    <3> QED
        BY <3>2
  <2> QED
    BY <2>2, <2>3
<1>2. PICK F \in B : \A G \in B : Cardinality(F) <= Cardinality(G)
  <2> HIDE DEF B
  <2> QED
    BY <1>1, Smallest
<1>3. PICK seen \in Bad : F = S \ seen
    OBVIOUS
<1>4. seen \in SUBSET S /\ seen # {} /\ g[seen] # S /\ F = S \ seen
    BY <1>3
<1> DEFINE n == Wider(S, seen)
<1>5. n \in SUBSET S /\ seen \subseteq n
    BY <1>4, Widens
<1>6. g[seen] = IF n = seen THEN seen ELSE g[n]
    BY <1>4
<1> HIDE DEF n
<1>7. n # seen
  <2> SUFFICES ASSUME n = seen PROVE FALSE
    OBVIOUS
  <2>1. seen = S
    BY <1>4 DEF WholeOnly, n
  <2> QED
    BY <2>1, <1>6, <1>4
<1>8. n # {} /\ g[n] # S /\ S \ n \in B
    BY <1>4, <1>5, <1>6, <1>7
<1>9. Cardinality(F) <= Cardinality(S \ n)
    BY <1>2, <1>8
<1>10. S \ n \subseteq F /\ S \ n # F /\ IsFiniteSet(F)
    BY <1>1, <1>4, <1>5, <1>7
<1> QED
    BY <1>9, <1>10, FS_Subset, FS_CardinalityType

LEMMA Filled ==
    ASSUME NEW S \in SUBSET Nat, S # {}, IsFiniteSet(S), WholeOnly(S)
    PROVE  Connected(S)
<1> DEFINE Fills(g) == g = [seen \in SUBSET S |-> IF Wider(S, seen) = seen THEN seen ELSE g[Wider(S, seen)]]
           g == CHOOSE h : Fills(h)
           h == [seen \in SUBSET S |-> IF seen = {} THEN {} ELSE S]
           start == CHOOSE c \in S : \A d \in S : c <= d
<1>1. Fills(h)
  <2>1. ASSUME NEW seen \in SUBSET S
        PROVE  (IF Wider(S, seen) = seen THEN seen ELSE h[Wider(S, seen)]) = IF seen = {} THEN {} ELSE S
    <3>1. Wider(S, seen) \in SUBSET S /\ seen \subseteq Wider(S, seen) /\ Wider(S, {}) = {}
        BY Widens
    <3>2. CASE seen = {}
        BY <3>1, <3>2
    <3>3. CASE seen # {} /\ Wider(S, seen) = seen
        BY <3>3 DEF WholeOnly
    <3>4. CASE seen # {} /\ Wider(S, seen) # seen
      <4>1. Wider(S, seen) # {}
        BY <3>1, <3>4
      <4>2. h[Wider(S, seen)] = S
        BY <4>1, <3>1
      <4> QED
        BY <4>2, <3>4
    <3> QED
        BY <3>2, <3>3, <3>4
  <2>2. [seen \in SUBSET S |-> IF Wider(S, seen) = seen THEN seen ELSE h[Wider(S, seen)]]
          = [seen \in SUBSET S |-> IF seen = {} THEN {} ELSE S]
    <3> HIDE DEF h
    <3> QED BY <2>1
  <2> QED
    BY <2>2
<1>2. Fills(g)
  <2> HIDE DEF Fills, h
  <2> QED BY <1>1
<1>3. \A seen \in SUBSET S : seen # {} => g[seen] = S
  <2>1. g = [seen \in SUBSET S |-> IF Wider(S, seen) = seen THEN seen ELSE g[Wider(S, seen)]]
    BY <1>2
  <2> HIDE DEF g
  <2> QED BY <2>1, FillEnds
<1>4. start \in S
    BY Least
<1>5. Component(S) = g[{start}]
    BY DEF Component, Wider
<1> QED
  <2> HIDE DEF g, start
  <2> QED BY <1>3, <1>4, <1>5 DEF Connected

-----------------------------------------------------------------------------
(* The cuts of a visit. A path from cur enters todo at first and leaves it *)
(* at end.                                                                 *)
Trail(cur, todo, first, end) ==
    /\ first \in NeighborsIn(cur, todo) /\ end \in todo
    /\ first = end => todo = {first}
    /\ first # end => NeighborsIn(first, todo) # {} /\ NeighborsIn(end, todo) # {}
    /\ \A u \in todo \ {first, end} : \E a, b \in NeighborsIn(u, todo) : a # b
    /\ WholeOnly(todo)

LEMMA TrailStarts ==
    ASSUME NEW cur, Placed(cur, {}), NEW v \in Neighbors[cur]
    PROVE  Trail(v, {cur}, cur, cur)
<1>1. cur \in Neighbors[v]
    BY Symmetric DEF Placed
<1>2. WholeOnly({cur})
    BY DEF WholeOnly
<1> QED
    BY <1>1, <1>2 DEF Trail, NeighborsIn

LEMMA TrailGrows ==
    ASSUME NEW cur, NEW todo, Placed(cur, todo), NEW first, NEW end, Trail(cur, todo, first, end),
           NEW v \in Neighbors[cur] \ todo
    PROVE  Trail(v, todo \cup {cur}, cur, end)
<1>0. PICK f : f = cur
    OBVIOUS
<1> DEFINE S == todo \cup {f}
<1>1. v \in Neighbors[f] /\ f \in Neighbors[v] /\ f \notin todo /\ f \in Cell
    BY <1>0, Symmetric DEF Placed
<1>2. first \in Neighbors[f] /\ first \in todo /\ end \in todo /\ f \in Neighbors[first]
    BY <1>0, <1>1, Symmetric DEF Trail, NeighborsIn, Placed
<1>3. \A u : NeighborsIn(u, todo) \subseteq NeighborsIn(u, S)
    BY DEF NeighborsIn
<1>4. f \in NeighborsIn(v, S) /\ end \in S /\ f # end /\ first \in NeighborsIn(f, S) /\ f \in NeighborsIn(first, S)
    BY <1>1, <1>2 DEF NeighborsIn
<1>5. NeighborsIn(end, S) # {}
  <2>1. CASE first = end
    BY <2>1, <1>4
  <2>2. CASE first # end
    BY <2>2, <1>3 DEF Trail
  <2> QED
    BY <2>1, <2>2
<1>6. ASSUME NEW u \in S \ {f, end}
      PROVE  \E a, b \in NeighborsIn(u, S) : a # b
  <2>1. CASE u = first
    <3>1. PICK a \in NeighborsIn(first, todo) : TRUE
        BY <2>1, <1>6 DEF Trail
    <3>2. a \in NeighborsIn(u, S) /\ f \in NeighborsIn(u, S) /\ a # f
        BY <2>1, <3>1, <1>1, <1>3, <1>4 DEF NeighborsIn
    <3> QED
        BY <3>2
  <2>2. CASE u # first
    <3>1. u \in todo \ {first, end}
        BY <2>2
    <3>2. PICK a \in NeighborsIn(u, todo), b \in NeighborsIn(u, todo) : a # b
        BY <3>1 DEF Trail
    <3> QED
        BY <3>2, <1>3
  <2> QED
    BY <2>1, <2>2
<1>7. ASSUME NEW T \in SUBSET S, T # {}, Wider(S, T) = T
      PROVE  T = S
  <2>1. \A c \in T : NeighborsIn(c, S) \subseteq T
    BY <1>7 DEF Wider
  <2>2. \A c \in T \cap todo : NeighborsIn(c, todo) \subseteq T \cap todo
    BY <2>1 DEF NeighborsIn
  <2>3. Wider(todo, T \cap todo) = T \cap todo
    BY <2>2 DEF Wider
  <2>0. T \cap todo # {} => T \cap todo = todo
    <3>1. WholeOnly(todo) /\ T \cap todo \in SUBSET todo
        BY DEF Trail
    <3> QED
        BY <3>1, <2>3 DEF WholeOnly
  <2>4. first \in T
    <3>1. CASE f \in T
        BY <3>1, <2>1, <1>4
    <3>2. CASE f \notin T
      <4>1. T \cap todo # {}
        BY <3>2, <1>7
      <4>2. T \cap todo = todo
        BY <4>1, <2>0
      <4> QED
        BY <4>2, <1>2
    <3> QED
        BY <3>1, <3>2
  <2>5. f \in T
    BY <2>1, <2>4, <1>4
  <2>6. T \cap todo = todo
    BY <2>0, <2>4, <1>2
  <2> QED
    BY <2>5, <2>6
<1>8. WholeOnly(S)
    BY <1>7 DEF WholeOnly
<1> HIDE DEF S
<1>9. Trail(v, S, f, end)
    BY <1>1, <1>4, <1>5, <1>6, <1>8 DEF Trail
<1> QED
    BY <1>0, <1>9 DEF S

LEMMA VisitPasses ==
    ASSUME NEW cur, NEW todo, Placed(cur, todo),
           todo # {} => \E first, end : Trail(cur, todo, first, end)
    PROVE  ~ ShouldPruneAfterVisit(cur, todo)
<1>1. CASE todo = {}
    BY <1>1, FS_EmptySet DEF ShouldPruneAfterVisit
<1>2. CASE todo # {}
  <2>1. PICK first, end : Trail(cur, todo, first, end)
    BY <1>2
  <2>2. IsFiniteSet(todo) /\ todo \in SUBSET Nat
    BY Remainders, Boards DEF Placed
  <2>3. first \in NeighborsIn(cur, todo) /\ first \in todo /\ end \in todo
    BY <2>1 DEF Trail, NeighborsIn
  <2>4. CASE Cardinality(todo) = 1
    BY <2>3, <2>4, <1>2 DEF ShouldPruneAfterVisit
  <2>5. CASE Cardinality(todo) # 1
    <3>1. first # end
      <4>1. Cardinality({first}) = 1
        BY FS_Singleton
      <4> QED
        BY <4>1, <2>1, <2>5 DEF Trail
    <3>2. \A u \in todo : NeighborsIn(u, todo) # {}
        BY <2>1, <3>1 DEF Trail
    <3>3. ~ LocalDeadEnd(cur, todo)
        BY <3>2 DEF LocalDeadEnd, NeighborsIn
    <3>4. Connected(todo)
        BY <1>2, <2>1, <2>2, Filled DEF Trail
    <3> DEFINE deg1 == {u \in todo : DegreeIn(u, todo) = 1}
    <3>5. ASSUME NEW u \in todo, DegreeIn(u, todo) = 1 PROVE u \in {first, end}
      <4> SUFFICES ASSUME u \notin {first, end} PROVE FALSE
        OBVIOUS
      <4>1. PICK a \in NeighborsIn(u, todo), b \in NeighborsIn(u, todo) : a # b
        BY <2>1 DEF Trail
      <4>2. IsFiniteSet(NeighborsIn(u, todo))
        BY <2>2, Degrees
      <4> QED
        BY <4>1, <4>2, <3>5, AtLeast DEF DegreeIn
    <3>6. deg1 \subseteq {first, end}
        BY <3>5
    <3> HIDE DEF deg1
    <3>7. ~ Cardinality(deg1) > 2
      <4>1. Cardinality(deg1) \in Nat /\ Cardinality(deg1) <= 2
        BY <3>6, AtMost
      <4> QED
        BY <4>1
    <3>8. ASSUME Cardinality(deg1) = 2 PROVE NeighborsIn(cur, deg1) # {}
      <4>1. first \in deg1
        <5> SUFFICES ASSUME first \notin deg1 PROVE FALSE
            OBVIOUS
        <5>1. deg1 \subseteq {end, end}
            BY <3>6
        <5>2. Cardinality(deg1) \in Nat /\ Cardinality(deg1) <= 1
            BY <5>1, AtMost
        <5> QED
            BY <5>2, <3>8
      <4> QED
        BY <4>1, <2>3 DEF NeighborsIn
    <3>9. ~ EndpointsViolated(cur, todo)
        BY <3>7, <3>8 DEF EndpointsViolated, deg1
    <3>10. ~ globalCheck(cur, todo)
        BY <2>3, <3>4, <3>9 DEF globalCheck
    <3> QED
        BY <1>2, <2>5, <3>3, <3>10 DEF ShouldPruneAfterVisit
  <2> QED
    BY <2>4, <2>5
<1> QED
    BY <1>1, <1>2

-----------------------------------------------------------------------------
(* The eight transforms of the square. Times is their multiplication table, *)
(* Inverse(i) undoes i.                                                    *)
Times(i, j) ==
    CASE i = 0 -> j
      [] i = 1 -> <<1, 2, 3, 0, 7, 6, 4, 5>>[j + 1]
      [] i = 2 -> <<2, 3, 0, 1, 5, 4, 7, 6>>[j + 1]
      [] i = 3 -> <<3, 0, 1, 2, 6, 7, 5, 4>>[j + 1]
      [] i = 4 -> <<4, 6, 5, 7, 0, 2, 1, 3>>[j + 1]
      [] i = 5 -> <<5, 7, 4, 6, 2, 0, 3, 1>>[j + 1]
      [] i = 6 -> <<6, 5, 7, 4, 3, 1, 0, 2>>[j + 1]
      [] i = 7 -> <<7, 4, 6, 5, 1, 3, 2, 0>>[j + 1]

Undo(i) == IF i = 1 THEN 3 ELSE IF i = 3 THEN 1 ELSE i

LEMMA Rows ==
    /\ Times(0, 0) = 0 /\ Times(0, 1) = 1 /\ Times(0, 2) = 2 /\ Times(0, 3) = 3
    /\ Times(0, 4) = 4 /\ Times(0, 5) = 5 /\ Times(0, 6) = 6 /\ Times(0, 7) = 7
    /\ Times(1, 0) = 1 /\ Times(1, 1) = 2 /\ Times(1, 2) = 3 /\ Times(1, 3) = 0
    /\ Times(1, 4) = 7 /\ Times(1, 5) = 6 /\ Times(1, 6) = 4 /\ Times(1, 7) = 5
    /\ Times(2, 0) = 2 /\ Times(2, 1) = 3 /\ Times(2, 2) = 0 /\ Times(2, 3) = 1
    /\ Times(2, 4) = 5 /\ Times(2, 5) = 4 /\ Times(2, 6) = 7 /\ Times(2, 7) = 6
    /\ Times(3, 0) = 3 /\ Times(3, 1) = 0 /\ Times(3, 2) = 1 /\ Times(3, 3) = 2
    /\ Times(3, 4) = 6 /\ Times(3, 5) = 7 /\ Times(3, 6) = 5 /\ Times(3, 7) = 4
    /\ Times(4, 0) = 4 /\ Times(4, 1) = 6 /\ Times(4, 2) = 5 /\ Times(4, 3) = 7
    /\ Times(4, 4) = 0 /\ Times(4, 5) = 2 /\ Times(4, 6) = 1 /\ Times(4, 7) = 3
    /\ Times(5, 0) = 5 /\ Times(5, 1) = 7 /\ Times(5, 2) = 4 /\ Times(5, 3) = 6
    /\ Times(5, 4) = 2 /\ Times(5, 5) = 0 /\ Times(5, 6) = 3 /\ Times(5, 7) = 1
    /\ Times(6, 0) = 6 /\ Times(6, 1) = 5 /\ Times(6, 2) = 7 /\ Times(6, 3) = 4
    /\ Times(6, 4) = 3 /\ Times(6, 5) = 1 /\ Times(6, 6) = 0 /\ Times(6, 7) = 2
    /\ Times(7, 0) = 7 /\ Times(7, 1) = 4 /\ Times(7, 2) = 6 /\ Times(7, 3) = 5
    /\ Times(7, 4) = 1 /\ Times(7, 5) = 3 /\ Times(7, 6) = 2 /\ Times(7, 7) = 0
<1>1. /\ Times(0, 0) = 0 /\ Times(0, 1) = 1 /\ Times(0, 2) = 2 /\ Times(0, 3) = 3
      /\ Times(0, 4) = 4 /\ Times(0, 5) = 5 /\ Times(0, 6) = 6 /\ Times(0, 7) = 7
    BY DEF Times
<1>2. /\ Times(1, 0) = 1 /\ Times(1, 1) = 2 /\ Times(1, 2) = 3 /\ Times(1, 3) = 0
      /\ Times(1, 4) = 7 /\ Times(1, 5) = 6 /\ Times(1, 6) = 4 /\ Times(1, 7) = 5
    BY DEF Times
<1>3. /\ Times(2, 0) = 2 /\ Times(2, 1) = 3 /\ Times(2, 2) = 0 /\ Times(2, 3) = 1
      /\ Times(2, 4) = 5 /\ Times(2, 5) = 4 /\ Times(2, 6) = 7 /\ Times(2, 7) = 6
    BY DEF Times
<1>4. /\ Times(3, 0) = 3 /\ Times(3, 1) = 0 /\ Times(3, 2) = 1 /\ Times(3, 3) = 2
      /\ Times(3, 4) = 6 /\ Times(3, 5) = 7 /\ Times(3, 6) = 5 /\ Times(3, 7) = 4
    BY DEF Times
<1>5. /\ Times(4, 0) = 4 /\ Times(4, 1) = 6 /\ Times(4, 2) = 5 /\ Times(4, 3) = 7
      /\ Times(4, 4) = 0 /\ Times(4, 5) = 2 /\ Times(4, 6) = 1 /\ Times(4, 7) = 3
    BY DEF Times
<1>6. /\ Times(5, 0) = 5 /\ Times(5, 1) = 7 /\ Times(5, 2) = 4 /\ Times(5, 3) = 6
      /\ Times(5, 4) = 2 /\ Times(5, 5) = 0 /\ Times(5, 6) = 3 /\ Times(5, 7) = 1
    BY DEF Times
<1>7. /\ Times(6, 0) = 6 /\ Times(6, 1) = 5 /\ Times(6, 2) = 7 /\ Times(6, 3) = 4
      /\ Times(6, 4) = 3 /\ Times(6, 5) = 1 /\ Times(6, 6) = 0 /\ Times(6, 7) = 2
    BY DEF Times
<1>8. /\ Times(7, 0) = 7 /\ Times(7, 1) = 4 /\ Times(7, 2) = 6 /\ Times(7, 3) = 5
      /\ Times(7, 4) = 1 /\ Times(7, 5) = 3 /\ Times(7, 6) = 2 /\ Times(7, 7) = 0
    BY DEF Times
<1> QED
    BY <1>1, <1>2, <1>3, <1>4, <1>5, <1>6, <1>7, <1>8

LEMMA Group ==
    \A i, j \in Transforms :
        /\ Times(i, j) \in Transforms /\ Undo(i) \in Transforms
        /\ Times(Undo(i), Times(i, j)) = j
        /\ Times(i, Times(Undo(i), j)) = j
<1> SUFFICES ASSUME NEW i \in Transforms, NEW j \in Transforms
             PROVE  /\ Times(i, j) \in Transforms /\ Undo(i) \in Transforms
                    /\ Times(Undo(i), Times(i, j)) = j
                    /\ Times(i, Times(Undo(i), j)) = j
    OBVIOUS
<1>0. i \in 0 .. 7 /\ j \in 0 .. 7
    BY DEF Transforms
<1>1. CASE i = 0
    BY <1>0, <1>1, Rows DEF Undo, Transforms
<1>2. CASE i = 1
    BY <1>0, <1>2, Rows DEF Undo, Transforms
<1>3. CASE i = 2
    BY <1>0, <1>3, Rows DEF Undo, Transforms
<1>4. CASE i = 3
    BY <1>0, <1>4, Rows DEF Undo, Transforms
<1>5. CASE i = 4
    BY <1>0, <1>5, Rows DEF Undo, Transforms
<1>6. CASE i = 5
    BY <1>0, <1>6, Rows DEF Undo, Transforms
<1>7. CASE i = 6
    BY <1>0, <1>7, Rows DEF Undo, Transforms
<1>8. CASE i = 7
    BY <1>0, <1>8, Rows DEF Undo, Transforms
<1> QED
    BY <1>0, <1>1, <1>2, <1>3, <1>4, <1>5, <1>6, <1>7, <1>8

(* Where a transform moves a point of the square.                          *)
LEMMA Moves ==
    \A x, y :
        /\ Moved(0, x, y) = <<x, y>>
        /\ Moved(1, x, y) = <<y, Size - 1 - x>>
        /\ Moved(2, x, y) = <<Size - 1 - x, Size - 1 - y>>
        /\ Moved(3, x, y) = <<Size - 1 - y, x>>
        /\ Moved(4, x, y) = <<x, Size - 1 - y>>
        /\ Moved(5, x, y) = <<Size - 1 - x, y>>
        /\ Moved(6, x, y) = <<y, x>>
        /\ Moved(7, x, y) = <<Size - 1 - y, Size - 1 - x>>
BY DEF Moved

LEMMA MovesOnBoard ==
    ASSUME NEW t \in Transforms, NEW x \in 0 .. (Size - 1), NEW y \in 0 .. (Size - 1)
    PROVE  \E p, q \in 0 .. (Size - 1) : Moved(t, x, y) = <<p, q>>
<1>1. t \in 0 .. 7
    BY DEF Transforms
<1>2. Size - 1 - x \in 0 .. (Size - 1) /\ Size - 1 - y \in 0 .. (Size - 1)
    BY Boards
<1>3. \E p, q \in {x, y, Size - 1 - x, Size - 1 - y} : Moved(t, x, y) = <<p, q>>
    BY <1>1, Moves
<1> QED
    BY <1>2, <1>3

LEMMA MovesCompose ==
    ASSUME NEW i \in Transforms, NEW j \in Transforms, NEW x \in Int, NEW y \in Int
    PROVE  Moved(i, Moved(j, x, y)[1], Moved(j, x, y)[2]) = Moved(Times(i, j), x, y)
<1>0. i \in 0 .. 7 /\ j \in 0 .. 7
    BY DEF Transforms
<1> DEFINE u == Size - 1 - x
           v == Size - 1 - y
<1>a. Size - 1 - u = x /\ Size - 1 - v = y
    BY Boards
<1> DEFINE p == Moved(j, x, y)[1]
           q == Moved(j, x, y)[2]
<1>b. /\ j = 0 => p = x /\ q = y
      /\ j = 1 => p = y /\ q = u
      /\ j = 2 => p = u /\ q = v
      /\ j = 3 => p = v /\ q = x
      /\ j = 4 => p = x /\ q = v
      /\ j = 5 => p = u /\ q = y
      /\ j = 6 => p = y /\ q = x
      /\ j = 7 => p = v /\ q = u
    BY Moves
<1>c. \A k : 
      /\ k = 0 => Moved(k, x, y) = <<x, y>>
      /\ k = 1 => Moved(k, x, y) = <<y, u>>
      /\ k = 2 => Moved(k, x, y) = <<u, v>>
      /\ k = 3 => Moved(k, x, y) = <<v, x>>
      /\ k = 4 => Moved(k, x, y) = <<x, v>>
      /\ k = 5 => Moved(k, x, y) = <<u, y>>
      /\ k = 6 => Moved(k, x, y) = <<y, x>>
      /\ k = 7 => Moved(k, x, y) = <<v, u>>
    BY Moves
<1>d. /\ i = 0 => Moved(i, p, q) = <<p, q>>
      /\ i = 1 => Moved(i, p, q) = <<q, Size - 1 - p>>
      /\ i = 2 => Moved(i, p, q) = <<Size - 1 - p, Size - 1 - q>>
      /\ i = 3 => Moved(i, p, q) = <<Size - 1 - q, p>>
      /\ i = 4 => Moved(i, p, q) = <<p, Size - 1 - q>>
      /\ i = 5 => Moved(i, p, q) = <<Size - 1 - p, q>>
      /\ i = 6 => Moved(i, p, q) = <<q, p>>
      /\ i = 7 => Moved(i, p, q) = <<Size - 1 - q, Size - 1 - p>>
    BY Moves
<1>e. /\ Size - 1 - x = u /\ Size - 1 - y = v
    OBVIOUS
<1> HIDE DEF u, v, p, q
<1>1. CASE i = 0
    BY <1>0, <1>a, <1>b, <1>c, <1>d, <1>e, <1>1, Rows
<1>2. CASE i = 1
    BY <1>0, <1>a, <1>b, <1>c, <1>d, <1>e, <1>2, Rows
<1>3. CASE i = 2
    BY <1>0, <1>a, <1>b, <1>c, <1>d, <1>e, <1>3, Rows
<1>4. CASE i = 3
    BY <1>0, <1>a, <1>b, <1>c, <1>d, <1>e, <1>4, Rows
<1>5. CASE i = 4
    BY <1>0, <1>a, <1>b, <1>c, <1>d, <1>e, <1>5, Rows
<1>6. CASE i = 5
    BY <1>0, <1>a, <1>b, <1>c, <1>d, <1>e, <1>6, Rows
<1>7. CASE i = 6
    BY <1>0, <1>a, <1>b, <1>c, <1>d, <1>e, <1>7, Rows
<1>8. CASE i = 7
    BY <1>0, <1>a, <1>b, <1>c, <1>d, <1>e, <1>8, Rows
<1> QED
    BY <1>0, <1>1, <1>2, <1>3, <1>4, <1>5, <1>6, <1>7, <1>8 DEF p, q

-----------------------------------------------------------------------------
(* Cells and points.                                                       *)
LEMMA Divide ==
    ASSUME NEW n \in 1 .. 8, NEW p \in 0 .. (n - 1), NEW q \in 0 .. (n - 1)
    PROVE  /\ (p * n + q) \div n = p /\ (p * n + q) % n = q
           /\ p * n + q \in 0 .. (n * n - 1)
<1>1. CASE n = 1
    BY <1>1
<1>2. CASE n = 2
    BY <1>2
<1>3. CASE n = 3
    BY <1>3
<1>4. CASE n = 4
    BY <1>4
<1>5. CASE n = 5
    BY <1>5
<1>6. CASE n = 6
    BY <1>6
<1>7. CASE n = 7
    BY <1>7
<1>8. CASE n = 8
    BY <1>8
<1> QED
    BY <1>1, <1>2, <1>3, <1>4, <1>5, <1>6, <1>7, <1>8

LEMMA Multiply ==
    ASSUME NEW n \in 1 .. 8, NEW c \in 0 .. (n * n - 1)
    PROVE  c \div n \in 0 .. (n - 1) /\ c % n \in 0 .. (n - 1) /\ c = (c \div n) * n + (c % n)
<1>1. CASE n = 1
    BY <1>1
<1>2. CASE n = 2
    BY <1>2
<1>3. CASE n = 3
    BY <1>3
<1>4. CASE n = 4
    BY <1>4
<1>5. CASE n = 5
    BY <1>5
<1>6. CASE n = 6
    BY <1>6
<1>7. CASE n = 7
    BY <1>7
<1>8. CASE n = 8
    BY <1>8
<1> QED
    BY <1>1, <1>2, <1>3, <1>4, <1>5, <1>6, <1>7, <1>8

LEMMA Points ==
    /\ \A c \in Cell : /\ RowOf(c) \in 0 .. (Size - 1) /\ ColumnOf(c) \in 0 .. (Size - 1)
                       /\ c = RowOf(c) * Size + ColumnOf(c)
    /\ \A p, q \in 0 .. (Size - 1) : /\ p * Size + q \in Cell
                                     /\ RowOf(p * Size + q) = p /\ ColumnOf(p * Size + q) = q
<1>1. Size \in 1 .. 8 /\ Cell = 0 .. (Size * Size - 1)
    BY BoardAssumption DEF Cell, totalCells
<1>2. \A c \in Cell : /\ RowOf(c) \in 0 .. (Size - 1) /\ ColumnOf(c) \in 0 .. (Size - 1)
                       /\ c = RowOf(c) * Size + ColumnOf(c)
    BY <1>1, Multiply DEF RowOf, ColumnOf
<1>3. \A p, q \in 0 .. (Size - 1) : /\ p * Size + q \in Cell
                                     /\ RowOf(p * Size + q) = p /\ ColumnOf(p * Size + q) = q
    BY <1>1, Divide DEF RowOf, ColumnOf
<1> QED
    BY <1>2, <1>3

(* A transform moves a cell to a cell, and the table composes them.        *)
LEMMA PermsMove ==
    ASSUME NEW t \in Transforms, NEW c \in Cell
    PROVE  /\ perms[t][c] \in Cell
           /\ Moved(t, RowOf(c), ColumnOf(c)) = <<RowOf(perms[t][c]), ColumnOf(perms[t][c])>>
<1>1. PICK p \in 0 .. (Size - 1), q \in 0 .. (Size - 1) : Moved(t, RowOf(c), ColumnOf(c)) = <<p, q>>
    BY Points, MovesOnBoard
<1>2. perms[t][c] = p * Size + q
    BY <1>1 DEF perms
<1> QED
    BY <1>1, <1>2, Points

LEMMA PermsCompose ==
    ASSUME NEW i \in Transforms, NEW j \in Transforms, NEW c \in Cell
    PROVE  perms[Times(i, j)][c] = perms[i][perms[j][c]]
<1> DEFINE d == perms[j][c]
           e == perms[i][d]
           f == perms[Times(i, j)][c]
<1>1. d \in Cell /\ Moved(j, RowOf(c), ColumnOf(c)) = <<RowOf(d), ColumnOf(d)>>
    BY PermsMove
<1>2. e \in Cell /\ Moved(i, RowOf(d), ColumnOf(d)) = <<RowOf(e), ColumnOf(e)>>
  <2> HIDE DEF d
  <2> QED BY <1>1, PermsMove
<1>3. f \in Cell /\ Moved(Times(i, j), RowOf(c), ColumnOf(c)) = <<RowOf(f), ColumnOf(f)>>
    BY Group, PermsMove
<1> HIDE DEF d, e, f
<1>4. Moved(i, RowOf(d), ColumnOf(d)) = Moved(Times(i, j), RowOf(c), ColumnOf(c))
    BY <1>1, Coordinates, MovesCompose
<1>5. RowOf(e) = RowOf(f) /\ ColumnOf(e) = ColumnOf(f)
    BY <1>2, <1>3, <1>4
<1>6. e = RowOf(e) * Size + ColumnOf(e) /\ f = RowOf(f) * Size + ColumnOf(f)
    BY <1>2, <1>3, Points
<1>7. e = f
    BY <1>5, <1>6
<1> QED
    BY <1>7 DEF d, e, f

LEMMA PermsStay == \A c \in Cell : perms[0][c] = c
<1> SUFFICES ASSUME NEW c \in Cell PROVE perms[0][c] = c
    OBVIOUS
<1>1. Moved(0, RowOf(c), ColumnOf(c)) = <<RowOf(c), ColumnOf(c)>>
    BY Moves
<1>2. 0 \in Transforms
    BY DEF Transforms
<1>3. perms[0][c] = RowOf(c) * Size + ColumnOf(c)
    BY <1>1, <1>2 DEF perms
<1> QED
    BY <1>3, Points

LEMMA PermsUndo ==
    ASSUME NEW t \in Transforms, NEW c \in Cell
    PROVE  /\ Undo(t) \in Transforms
           /\ perms[Undo(t)][perms[t][c]] = c /\ perms[t][perms[Undo(t)][c]] = c
<1>0. 0 \in Transforms /\ Undo(t) \in Transforms
    BY Group DEF Transforms
<1>1. Times(Undo(t), t) = 0 /\ Times(t, Undo(t)) = 0
  <2>1. \A i \in Transforms : Times(i, 0) = i
    BY Rows DEF Transforms
  <2>2. Times(Undo(t), Times(t, 0)) = 0 /\ Times(t, Times(Undo(t), 0)) = 0
    BY <1>0, Group
  <2> QED
    BY <1>0, <2>1, <2>2
<1>2. perms[Times(Undo(t), t)][c] = perms[Undo(t)][perms[t][c]]
    BY <1>0, PermsCompose
<1>3. perms[Times(t, Undo(t))][c] = perms[t][perms[Undo(t)][c]]
    BY <1>0, PermsCompose
<1> QED
    BY <1>0, <1>1, <1>2, <1>3, PermsStay

(* The same for masks.                                                     *)
LEMMA Masks ==
    ASSUME NEW st \in State
    PROVE  /\ \A t \in Transforms : transformState(t, st) \in State
           /\ transformState(0, st) = st
           /\ \A i, j \in Transforms : transformState(Times(i, j), st) = transformState(i, transformState(j, st))
<1>0. st \subseteq Cell
    BY DEF State
<1>1. ASSUME NEW t \in Transforms PROVE transformState(t, st) \in State
    BY <1>0, PermsMove DEF State, transformState
<1>2. transformState(0, st) = st
    BY <1>0, PermsStay DEF transformState
<1>3. ASSUME NEW i \in Transforms, NEW j \in Transforms
      PROVE  transformState(Times(i, j), st) = transformState(i, transformState(j, st))
  <2>1. \A c \in st : perms[Times(i, j)][c] = perms[i][perms[j][c]]
    BY <1>0, PermsCompose
  <2>2. {perms[Times(i, j)][c] : c \in st} = {perms[i][d] : d \in {perms[j][c] : c \in st}}
    BY <2>1
  <2> QED
    BY <2>2 DEF transformState
<1> QED
    BY <1>1, <1>2, <1>3

LEMMA MasksUndo ==
    ASSUME NEW t \in Transforms, NEW st \in State
    PROVE  /\ transformState(Undo(t), transformState(t, st)) = st
           /\ transformState(t, transformState(Undo(t), st)) = st
<1>0. 0 \in Transforms /\ Undo(t) \in Transforms
    BY Group DEF Transforms
<1>1. Times(Undo(t), t) = 0 /\ Times(t, Undo(t)) = 0
  <2>1. \A i \in Transforms : Times(i, 0) = i
    BY Rows DEF Transforms
  <2>2. Times(Undo(t), Times(t, 0)) = 0 /\ Times(t, Times(Undo(t), 0)) = 0
    BY <1>0, Group
  <2> QED
    BY <1>0, <2>1, <2>2
<1> QED
    BY <1>0, <1>1, Masks

(* The composition table of the code, whatever row it names first.         *)
LEMMA Composed ==
    ASSUME NEW i \in Transforms, NEW j \in Transforms, NEW st \in State
    PROVE  /\ compose[i][j] \in Transforms
           /\ transformState(compose[i][j], st) = transformState(i, transformState(j, st))
<1> DEFINE T == {k \in Transforms : \A c \in Cell : perms[k][c] = perms[i][perms[j][c]]}
           k == compose[i][j]
<1>1. Times(i, j) \in T
    BY Group, PermsCompose
<1>2. T \in SUBSET Nat
    BY DEF Transforms
<1>3. k = Min(T)
    BY DEF compose
<1>4. \E x \in T : \A y \in T : x <= y
  <2> HIDE DEF T
  <2> QED BY <1>1, <1>2, Least
<1>5. k \in T
  <2> HIDE DEF T, k
  <2> QED BY <1>3, <1>4 DEF Min
<1>6. k \in Transforms /\ \A c \in Cell : perms[k][c] = perms[i][perms[j][c]]
    BY <1>5
<1>7. \A c \in Cell : perms[k][c] = perms[Times(i, j)][c]
    BY <1>6, PermsCompose
<1> HIDE DEF k, T
<1>8. transformState(k, st) = transformState(Times(i, j), st)
    BY <1>7 DEF transformState, State
<1> QED
    BY <1>6, <1>8, Masks DEF k

-----------------------------------------------------------------------------
(* The order of masks: p decides between a and b.                          *)
Decides(p, a, b) == /\ p \in b \ a
                    /\ \A x \in Cell : x > p => (x \in a <=> x \in b)

LEMMA Greatest ==
    ASSUME NEW S \in SUBSET Cell, S # {}
    PROVE  Max(S) \in S /\ \A x \in S : x <= Max(S)
<1> DEFINE T == {totalCells - x : x \in S}
<1>1. T \in SUBSET Nat /\ T # {}
  <2>1. \A x \in S : totalCells - x \in Nat
    BY Boards DEF Cell
  <2> QED
    BY <2>1
<1>2. PICK n \in T : \A k \in T : n <= k
  <2> HIDE DEF T
  <2> QED BY <1>1, Least
<1>3. PICK x \in S : n = totalCells - x
    BY <1>2
<1>4. ASSUME NEW y \in S PROVE x >= y
  <2>1. totalCells - x <= totalCells - y
    BY <1>2, <1>3
  <2>2. x \in Nat /\ y \in Nat /\ totalCells \in Nat
    BY Boards
  <2> QED
    BY <2>1, <2>2
<1>5. \E m \in S : \A y \in S : m >= y
    BY <1>4
<1>6. Max(S) \in S /\ \A y \in S : Max(S) >= y
    BY <1>5 DEF Max
<1>7. S \subseteq Nat
    BY Boards
<1>8. \A y \in S : y <= Max(S)
    BY <1>6, <1>7
<1> QED
    BY <1>6, <1>8

LEMMA BelowDecides ==
    ASSUME NEW a \in State, NEW b \in State
    PROVE  Below(a, b) <=> \E p \in Cell : Decides(p, a, b)
<1> DEFINE D == (a \ b) \cup (b \ a)
<1>0. D \in SUBSET Cell /\ a \subseteq Cell /\ b \subseteq Cell /\ Cell \subseteq Nat
    BY Boards DEF State
<1>1. ASSUME Below(a, b) PROVE \E p \in Cell : Decides(p, a, b)
  <2>1. a # b /\ Max(D) \in b
    BY <1>1 DEF Below, SymDiff
  <2>2. D # {}
    BY <2>1
  <2>3. Max(D) \in D /\ \A x \in D : x <= Max(D)
    <3> HIDE DEF D
    <3> QED BY <1>0, <2>2, Greatest
  <2>4. PICK p \in Cell : p = Max(D)
    BY <1>0, <2>3
  <2>5. p \in b \ a
    BY <2>1, <2>3, <2>4
  <2>6. ASSUME NEW x \in Cell, x > p PROVE x \in a <=> x \in b
    <3>1. x \notin D
        BY <2>3, <2>4, <2>6, <1>0
    <3> QED
        BY <3>1
  <2> QED
    BY <2>5, <2>6 DEF Decides
<1>2. ASSUME NEW p \in Cell, Decides(p, a, b) PROVE Below(a, b)
  <2>1. p \in D /\ a # b
    BY <1>2 DEF Decides
  <2>2. Max(D) \in D /\ \A x \in D : x <= Max(D)
    <3> HIDE DEF D
    <3> QED BY <1>0, <2>1, Greatest
  <2>3. Max(D) >= p /\ Max(D) \in Cell
    BY <2>1, <2>2, <1>0
  <2>4. Max(D) = p
    <3> SUFFICES ASSUME Max(D) # p PROVE FALSE
        OBVIOUS
    <3>1. Max(D) > p
      <4>1. PICK m \in Cell : m = Max(D)
        BY <2>3
      <4>2. m >= p /\ m # p /\ m \in Nat /\ p \in Nat
        BY <4>1, <2>3, <1>0
      <4>3. m > p
        BY <4>2
      <4> QED
        BY <4>1, <4>3
    <3>2. Max(D) \in a <=> Max(D) \in b
        BY <1>2, <2>3, <3>1 DEF Decides
    <3> QED
        BY <3>2, <2>2
  <2> QED
    BY <2>1, <2>4, <1>2 DEF Below, SymDiff, Decides
<1> QED
    BY <1>1, <1>2

(* It is a strict total order.                                             *)
LEMMA BelowOrders ==
    /\ \A a, b, c \in State : Below(a, b) /\ Below(b, c) => Below(a, c)
    /\ \A a \in State : ~ Below(a, a)
    /\ \A a, b \in State : a = b \/ Below(a, b) \/ Below(b, a)
<1>0. Cell \subseteq Nat
    BY Boards
<1>1. ASSUME NEW a \in State, NEW b \in State, NEW c \in State, Below(a, b), Below(b, c)
      PROVE  Below(a, c)
  <2>1. PICK p \in Cell : Decides(p, a, b)
    BY <1>1, BelowDecides
  <2>2. PICK q \in Cell : Decides(q, b, c)
    BY <1>1, BelowDecides
  <2>3. p \in Nat /\ q \in Nat /\ p # q
    BY <1>0, <2>1, <2>2 DEF Decides
  <2>4. CASE p < q
    <3>1. q \in c \ a
        BY <2>1, <2>2, <2>3, <2>4 DEF Decides
    <3>2. ASSUME NEW x \in Cell, x > q PROVE x \in a <=> x \in c
      <4>1. x > p
        BY <2>3, <2>4, <3>2, <1>0
      <4> QED
        BY <4>1, <3>2, <2>1, <2>2 DEF Decides
    <3>3. Decides(q, a, c)
        BY <3>1, <3>2 DEF Decides
    <3> QED
        BY <3>3, BelowDecides
  <2>5. CASE q < p
    <3>1. p \in c \ a
        BY <2>1, <2>2, <2>3, <2>5 DEF Decides
    <3>2. ASSUME NEW x \in Cell, x > p PROVE x \in a <=> x \in c
      <4>1. x > q
        BY <2>3, <2>5, <3>2, <1>0
      <4> QED
        BY <4>1, <3>2, <2>1, <2>2 DEF Decides
    <3>3. Decides(p, a, c)
        BY <3>1, <3>2 DEF Decides
    <3> QED
        BY <3>3, BelowDecides
  <2> QED
    BY <2>3, <2>4, <2>5
<1>2. ASSUME NEW a \in State PROVE ~ Below(a, a)
    BY DEF Below
<1>3. ASSUME NEW a \in State, NEW b \in State, a # b PROVE Below(a, b) \/ Below(b, a)
  <2> DEFINE D == (a \ b) \cup (b \ a)
             E == (b \ a) \cup (a \ b)
  <2>1. D \in SUBSET Cell /\ D # {}
    BY <1>3 DEF State
  <2>2. Max(D) \in D
    <3> HIDE DEF D
    <3> QED BY <2>1, Greatest
  <2>3. E = D
    OBVIOUS
  <2>4. Below(a, b) <=> Max(D) \in b
    BY <1>3 DEF Below, SymDiff
  <2>5. Below(b, a) <=> Max(E) \in a
    BY <1>3 DEF Below, SymDiff
  <2> QED
    BY <2>2, <2>3, <2>4, <2>5
<1> QED
    BY <1>1, <1>2, <1>3

(* Of eight masks one has none below it.                                   *)
LEMMA Lowest ==
    ASSUME NEW f \in [Transforms -> State]
    PROVE  \E t \in Transforms : \A u \in Transforms : ~ Below(f[u], f[t])
<1> DEFINE Under(t) == {u \in Transforms : Below(f[u], f[t])}
           A == {Under(t) : t \in Transforms}
<1>1. IsFiniteSet(Transforms) /\ Transforms # {}
  <2>1. IsFiniteSet(0 .. 7)
    <3>1. 0 \in Int /\ 7 \in Int
        OBVIOUS
    <3> QED
        BY <3>1, FS_Interval
  <2> QED
    BY <2>1 DEF Transforms
<1>2. \A F \in A : IsFiniteSet(F)
  <2>1. \A F \in A : F \subseteq Transforms
    OBVIOUS
  <2> HIDE DEF A
  <2> QED BY <1>1, <2>1, FS_Subset
<1>3. A # {}
  <2>1. Under(0) \in A
    BY DEF Transforms
  <2> QED
    BY <2>1
<1>4. PICK F \in A : \A G \in A : Cardinality(F) <= Cardinality(G)
  <2> HIDE DEF A
  <2> QED BY <1>2, <1>3, Smallest
<1>5. PICK t \in Transforms : F = Under(t)
    BY <1>4
<1>6. ASSUME NEW u \in Transforms, Below(f[u], f[t]) PROVE FALSE
  <2>1. u \in Under(t) /\ u \notin Under(u)
    BY <1>6, BelowOrders
  <2>2. Under(u) \subseteq Under(t)
    BY <1>6, BelowOrders
  <2>3. Under(u) \in A
    OBVIOUS
  <2>4. IsFiniteSet(Under(t)) /\ Cardinality(Under(t)) <= Cardinality(Under(u))
    BY <1>2, <1>4, <1>5, <2>3
  <2> HIDE DEF Under
  <2>5. Under(u) # Under(t)
    BY <2>1
  <2>6. Cardinality(Under(u)) < Cardinality(Under(t))
    BY <2>2, <2>4, <2>5, FS_Subset, FS_CardinalityType
  <2>7. Cardinality(Under(u)) \in Nat /\ Cardinality(Under(t)) \in Nat
    BY <2>2, <2>4, FS_Subset, FS_CardinalityType
  <2> QED
    BY <2>4, <2>6, <2>7
<1> QED
    BY <1>6

-----------------------------------------------------------------------------
(* What CanonicalMaskFrame returns: the one image with none below it, a    *)
(* transform that reaches it, and the transforms that leave it alone.      *)
Canonical(K, st) ==
    /\ \E t \in Transforms : K = transformState(t, st)
    /\ \A u \in Transforms : ~ Below(transformState(u, st), K)

LEMMA CanonicalOne ==
    ASSUME NEW st \in State, NEW K, Canonical(K, st), NEW L, Canonical(L, st)
    PROVE  K = L
<1>1. K \in State /\ L \in State /\ ~ Below(K, L) /\ ~ Below(L, K)
    BY Masks DEF Canonical
<1> QED
    BY <1>1, BelowOrders

LEMMA Frame ==
    ASSUME NEW st \in State
    PROVE  LET f == CanonicalMaskFrame(st)
           IN  /\ Canonical(f.K, st) /\ f.K \in State
               /\ f.frame \in Transforms /\ transformState(f.frame, st) = f.K
               /\ f.stab = {t \in Transforms : transformState(t, f.K) = f.K}
<1> DEFINE imgs == [t \in Transforms |-> transformState(t, st)]
           K == imgs[CHOOSE t \in Transforms : \A u \in Transforms : ~ Below(imgs[u], imgs[t])]
           T == {t \in Transforms : imgs[t] = K}
           frame == Min(T)
           stab == {t \in Transforms : imgs[compose[t][frame]] = K}
<1>1. imgs \in [Transforms -> State] /\ \A t \in Transforms : imgs[t] = transformState(t, st)
    BY Masks
<1> HIDE DEF imgs
<1>2. \E t \in Transforms : K = imgs[t] /\ \A u \in Transforms : ~ Below(imgs[u], imgs[t])
    BY <1>1, Lowest
<1> HIDE DEF K
<1>3. Canonical(K, st) /\ K \in State
    BY <1>1, <1>2 DEF Canonical
<1>4. T \in SUBSET Nat /\ T # {}
    BY <1>2 DEF Transforms
<1>5. frame \in T
  <2> HIDE DEF T
  <2>1. \E x \in T : \A y \in T : x <= y
    BY <1>4, Least
  <2> QED
    BY <2>1 DEF Min
<1> HIDE DEF frame
<1>6. frame \in Transforms /\ imgs[frame] = K /\ transformState(frame, st) = K
    BY <1>1, <1>5
<1>7. stab = {t \in Transforms : transformState(t, K) = K}
  <2>1. ASSUME NEW t \in Transforms PROVE imgs[compose[t][frame]] = transformState(t, K)
    <3>1. compose[t][frame] \in Transforms /\ transformState(compose[t][frame], st) = transformState(t, transformState(frame, st))
        BY <1>6, Composed
    <3> QED
        BY <3>1, <1>1, <1>6
  <2> QED
    BY <2>1
<1>8. CanonicalMaskFrame(st) = [K |-> K, frame |-> frame, stab |-> stab]
    BY DEF CanonicalMaskFrame, imgs, K, frame
<1> HIDE DEF stab
<1> QED
    BY <1>3, <1>6, <1>7, <1>8

-----------------------------------------------------------------------------
(* Placements: a mask and a cell moved together, the orbit of one and what *)
(* leaves it alone.                                                        *)
Move(t, z) == <<transformState(t, z[1]), perms[t][z[2]]>>
Images(z) == {Move(t, z) : t \in Transforms}
Fixing(z) == {t \in Transforms : Move(t, z) = z}

LEMMA Acts ==
    ASSUME NEW z \in Placement
    PROVE  /\ \A t \in Transforms : /\ Undo(t) \in Transforms
                                    /\ Move(t, z) \in Placement
                                    /\ Move(Undo(t), Move(t, z)) = z
                                    /\ Move(t, Move(Undo(t), z)) = z
           /\ \A i, j \in Transforms : Times(i, j) \in Transforms /\ Move(Times(i, j), z) = Move(i, Move(j, z))
<1> DEFINE st == z[1]
           c == z[2]
<1>0. st \in State /\ c \in Cell /\ z = <<st, c>>
    BY DEF Placement
<1>1. \A t, s, d : Move(t, <<s, d>>) = <<transformState(t, s), perms[t][d]>>
    BY DEF Move
<1> HIDE DEF st, c
<1>2. ASSUME NEW t \in Transforms
      PROVE  /\ Undo(t) \in Transforms /\ Move(t, z) \in Placement
             /\ Move(Undo(t), Move(t, z)) = z /\ Move(t, Move(Undo(t), z)) = z
  <2>1. transformState(t, st) \in State /\ perms[t][c] \in Cell /\ Undo(t) \in Transforms
    BY <1>0, Masks, PermsMove, Group
  <2>2. Move(t, z) \in Placement
    BY <1>0, <1>1, <2>1 DEF Placement
  <2>3. Move(Undo(t), Move(t, z)) = z
    <3>1. Move(t, z) = <<transformState(t, st), perms[t][c]>>
        BY <1>0, <1>1
    <3>2. Move(Undo(t), Move(t, z)) = <<transformState(Undo(t), transformState(t, st)), perms[Undo(t)][perms[t][c]]>>
        BY <3>1, <1>1
    <3> QED
        BY <1>0, <3>2, MasksUndo, PermsUndo
  <2>4. Move(t, Move(Undo(t), z)) = z
    <3>1. Move(Undo(t), z) = <<transformState(Undo(t), st), perms[Undo(t)][c]>>
        BY <1>0, <1>1
    <3>2. Move(t, Move(Undo(t), z)) = <<transformState(t, transformState(Undo(t), st)), perms[t][perms[Undo(t)][c]]>>
        BY <3>1, <1>1
    <3> QED
        BY <1>0, <3>2, MasksUndo, PermsUndo
  <2> QED
    BY <2>1, <2>2, <2>3, <2>4
<1>3. ASSUME NEW i \in Transforms, NEW j \in Transforms
      PROVE  Times(i, j) \in Transforms /\ Move(Times(i, j), z) = Move(i, Move(j, z))
  <2>1. Move(Times(i, j), z) = <<transformState(Times(i, j), st), perms[Times(i, j)][c]>>
    BY <1>0, <1>1
  <2>2. Move(j, z) = <<transformState(j, st), perms[j][c]>>
    BY <1>0, <1>1
  <2>3. Move(i, Move(j, z)) = <<transformState(i, transformState(j, st)), perms[i][perms[j][c]]>>
    BY <2>2, <1>1
  <2>4. transformState(Times(i, j), st) = transformState(i, transformState(j, st))
    BY <1>0, Masks
  <2>5. perms[Times(i, j)][c] = perms[i][perms[j][c]]
    BY <1>0, PermsCompose
  <2>6. Times(i, j) \in Transforms
    BY Group
  <2> QED
    BY <2>1, <2>3, <2>4, <2>5, <2>6
<1> QED
    BY <1>2, <1>3

(* Moving a placement leaves its orbit as it was.                          *)
LEMMA ImagesSame ==
    ASSUME NEW z \in Placement, NEW u \in Transforms
    PROVE  Images(Move(u, z)) = Images(z)
<1>1. ASSUME NEW w \in Placement, NEW t \in Transforms PROVE Images(Move(t, w)) \subseteq Images(w)
    BY <1>1, Acts DEF Images
<1>2. Images(Move(u, z)) \subseteq Images(z)
    BY <1>1
<1>3. Undo(u) \in Transforms /\ Move(u, z) \in Placement /\ Move(Undo(u), Move(u, z)) = z
    BY Acts
<1>4. Images(Move(Undo(u), Move(u, z))) \subseteq Images(Move(u, z))
    BY <1>1, <1>3
<1> QED
    BY <1>2, <1>3, <1>4

LEMMA Eight == IsFiniteSet(Transforms) /\ Cardinality(Transforms) = 8
<1>1. 0 \in Int /\ 7 \in Int
    OBVIOUS
<1>2. IsFiniteSet(0 .. 7) /\ Cardinality(0 .. 7) = IF 0 > 7 THEN 0 ELSE 7 - 0 + 1
    BY ONLY <1>1, FS_Interval
<1> QED
    BY <1>2 DEF Transforms

(* Orbit and stabilizer: together they have eight members.                 *)
LEMMA OrbitStabilizer ==
    ASSUME NEW z \in Placement
    PROVE  /\ Cardinality(Images(z)) \in Nat /\ Cardinality(Fixing(z)) \in Nat
           /\ Cardinality(Images(z)) * Cardinality(Fixing(z)) = 8
<1> DEFINE I == Images(z)
           H == Fixing(z)
           g == [w \in I |-> CHOOSE t \in Transforms : Move(t, z) = w]
           f == [p \in I \X H |-> Times(g[p[1]], p[2])]
<1>0. IsFiniteSet(Transforms) /\ Cardinality(Transforms) = 8
    BY Eight
<1>1. \A w \in I : g[w] \in Transforms /\ Move(g[w], z) = w
    BY DEF Images
<1>2. \A h \in H : h \in Transforms /\ Move(h, z) = z
    BY DEF Fixing
<1>3. IsFiniteSet(I) /\ IsFiniteSet(H)
  <2>1. H \subseteq Transforms
    BY DEF Fixing
  <2>2. IsFiniteSet(H)
    BY <1>0, <2>1, FS_Subset
  <2> DEFINE m == [t \in Transforms |-> Move(t, z)]
  <2>3. m \in Surjection(Transforms, I)
    <3>1. m \in [Transforms -> I] /\ \A w \in I : \E t \in Transforms : m[t] = w
        BY DEF Images
    <3> HIDE DEF m, I
    <3> QED
        BY <3>1, Fun_IsSurj
  <2>5. IsFiniteSet(I)
    <3> HIDE DEF I, m
    <3> QED BY <1>0, <2>3, FS_Surjection
  <2> QED
    BY <2>2, <2>5
<1> HIDE DEF I, H, g
<1>4. ASSUME NEW w \in I, NEW h \in H
      PROVE  Times(g[w], h) \in Transforms /\ Move(Times(g[w], h), z) = w
  <2>1. g[w] \in Transforms /\ h \in Transforms /\ Move(h, z) = z /\ Move(g[w], z) = w
    BY <1>1, <1>2
  <2>2. Times(g[w], h) \in Transforms /\ Move(Times(g[w], h), z) = Move(g[w], Move(h, z))
    BY <2>1, Acts
  <2> QED
    BY <2>1, <2>2
<1>5. f \in [I \X H -> Transforms]
    BY <1>4
<1>6. ASSUME NEW p \in I \X H, NEW q \in I \X H, f[p] = f[q]
      PROVE  p = q
  <2>1. p[1] \in I /\ p[2] \in H /\ q[1] \in I /\ q[2] \in H /\ p = <<p[1], p[2]>> /\ q = <<q[1], q[2]>>
    OBVIOUS
  <2>2. Times(g[p[1]], p[2]) = Times(g[q[1]], q[2])
    BY <1>6
  <2>3. p[1] = q[1]
    BY <2>1, <2>2, <1>4
  <2>4. Times(g[p[1]], p[2]) = Times(g[p[1]], q[2])
    BY <2>2, <2>3
  <2>5. p[2] = q[2]
    <3>1. g[p[1]] \in Transforms /\ p[2] \in Transforms /\ q[2] \in Transforms
        BY <2>1, <1>1, <1>2
    <3>2. Times(Undo(g[p[1]]), Times(g[p[1]], p[2])) = p[2] /\ Times(Undo(g[p[1]]), Times(g[p[1]], q[2])) = q[2]
        BY <3>1, Group
    <3> QED
        BY <3>2, <2>4
  <2> QED
    BY <2>1, <2>3, <2>5
<1>7. ASSUME NEW t \in Transforms PROVE \E p \in I \X H : f[p] = t
  <2> DEFINE w == Move(t, z)
             k == g[w]
             h == Times(Undo(k), t)
  <2>1. w \in I /\ k \in Transforms /\ Move(k, z) = w
    <3>1. w \in I
        BY DEF I, Images
    <3> QED
        BY <3>1, <1>1
  <2> HIDE DEF w, k
  <2>2. Undo(k) \in Transforms /\ h \in Transforms /\ Times(k, h) = t
    BY <2>1, Group
  <2>3. Move(h, z) = z
    <3>1. Move(h, z) = Move(Undo(k), Move(t, z))
        BY <2>2, Acts
    <3>2. Move(Undo(k), Move(k, z)) = z
        BY <2>1, Acts
    <3> QED
        BY <3>1, <3>2, <2>1 DEF w
  <2>4. h \in H
    BY <2>2, <2>3 DEF H, Fixing
  <2>5. f[<<w, h>>] = Times(k, h)
    <3> HIDE DEF h
    <3> QED BY <2>1, <2>4 DEF k
  <2> QED
    BY <2>1, <2>2, <2>4, <2>5
<1>8. ExistsBijection(I \X H, Transforms)
  <2> HIDE DEF f
  <2>1. f \in Bijection(I \X H, Transforms)
    BY <1>5, <1>6, <1>7, Fun_IsBij
  <2> QED
    BY <2>1 DEF ExistsBijection
<1>9. IsFiniteSet(I \X H) /\ Cardinality(I \X H) = Cardinality(I) * Cardinality(H)
    BY <1>3, FS_Product
<1>10. Cardinality(Transforms) = Cardinality(I \X H)
    BY <1>8, <1>9, FS_Bijection
<1>11. Cardinality(I) \in Nat /\ Cardinality(H) \in Nat
    BY <1>3, FS_CardinalityType
<1> QED
    BY <1>0, <1>9, <1>10, <1>11 DEF I, H

-----------------------------------------------------------------------------
(* The class of a placement, in terms of its orbit alone: the mask K, the  *)
(* least cell that stands beside K there, and the number of its members.   *)
Beside(K, z) == {w[2] : w \in {v \in Images(z) : v[1] = K}}

LEMMA Represents ==
    ASSUME NEW st \in State, NEW c \in Cell
    PROVE  LET f == CanonicalMaskFrame(st)
           IN  {perms[s][perms[f.frame][c]] : s \in f.stab} = Beside(f.K, <<st, c>>)
<1> DEFINE f == CanonicalMaskFrame(st)
           z == <<st, c>>
           K == f.K
           i == f.frame
           d == perms[i][c]
           R == {perms[s][d] : s \in f.stab}
<1>1. /\ K \in State /\ i \in Transforms /\ transformState(i, st) = K
      /\ f.stab = {t \in Transforms : transformState(t, K) = K}
    BY Frame
<1>2. z \in Placement /\ z[1] = st /\ z[2] = c
    BY DEF Placement
<1> HIDE DEF f
<1>3. d \in Cell /\ Undo(i) \in Transforms
    BY <1>1, PermsMove, Group
<1> HIDE DEF K, i, z
<1>4. ASSUME NEW s \in f.stab PROVE perms[s][d] \in Beside(K, z)
  <2>1. s \in Transforms /\ transformState(s, K) = K
    BY <1>1
  <2> DEFINE t == Times(s, i)
  <2>2. t \in Transforms /\ transformState(t, st) = K /\ perms[t][c] = perms[s][d]
    BY <1>1, <2>1, Group, Masks, PermsCompose
  <2> HIDE DEF t
  <2>3. Move(t, z) \in Images(z) /\ Move(t, z) = <<K, perms[s][d]>>
    BY <2>2, <1>2 DEF Images, Move
  <2>4. Move(t, z)[1] = K /\ Move(t, z)[2] = perms[s][d]
    BY <2>3
  <2> QED
    BY <2>3, <2>4 DEF Beside
<1>5. ASSUME NEW e \in Beside(K, z) PROVE \E s \in f.stab : e = perms[s][d]
  <2>1. PICK t \in Transforms : Move(t, z)[1] = K /\ e = Move(t, z)[2]
    BY DEF Beside, Images
  <2>2. transformState(t, st) = K /\ e = perms[t][c]
    BY <2>1, <1>2 DEF Move
  <2> DEFINE s == Times(t, Undo(i))
  <2>3. s \in Transforms
    BY <1>3, Group
  <2>4. transformState(Undo(i), K) = st /\ perms[Undo(i)][d] = c
    BY <1>1, MasksUndo, PermsUndo
  <2>5. transformState(s, K) = transformState(t, transformState(Undo(i), K))
    BY <1>1, <1>3, Masks
  <2>6. perms[s][d] = perms[t][perms[Undo(i)][d]]
    BY <1>3, PermsCompose
  <2>7. s \in f.stab
    BY <1>1, <2>2, <2>3, <2>4, <2>5
  <2> QED
    BY <2>2, <2>4, <2>6, <2>7
<1>6. R = Beside(K, z)
    BY <1>4, <1>5
<1> QED
    BY <1>6 DEF K, i, z, f

(* Eight divided by the number of transforms that leave mask and cell alone. *)
LEMMA OrbitSizes ==
    ASSUME NEW K \in State, NEW d \in Cell,
           NEW stab, stab = {t \in Transforms : transformState(t, K) = K}
    PROVE  /\ CellOrbitSize(stab, d) = Cardinality(Images(<<K, d>>))
           /\ CellOrbitSize(stab, d) \in {1, 2, 4, 8}
<1> DEFINE w == <<K, d>>
           H == {s \in stab : perms[s][d] = d}
           m == Cardinality(Images(w))
           n == Cardinality(H)
<1>1. w \in Placement
    BY DEF Placement
<1>2. H = Fixing(w)
  <2>1. \A t : Move(t, w) = <<transformState(t, K), perms[t][d]>>
    BY DEF Move
  <2> QED
    BY <2>1 DEF Fixing
<1>3. m \in Nat /\ n \in Nat /\ m * n = 8
  <2> HIDE DEF w, H
  <2> QED BY <1>1, <1>2, OrbitStabilizer
<1>4. CellOrbitSize(stab, d) = 8 \div n
  <2>1. CellOrbitSize(stab, d) = Cardinality(Transforms) \div Cardinality(H)
    BY DEF CellOrbitSize
  <2> HIDE DEF H
  <2> QED BY <2>1, Eight
<1> HIDE DEF m, n
<1>5. 8 \div n = m /\ m \in {1, 2, 4, 8}
  <2>1. \A x, y \in Nat : x * y = 8 => x \in 1 .. 8 /\ y \in 1 .. 8
    OBVIOUS
  <2>2. m \in 1 .. 8 /\ n \in 1 .. 8
    BY <1>3, <2>1
  <2>3. n = 1 \/ n = 2 \/ n = 3 \/ n = 4 \/ n = 5 \/ n = 6 \/ n = 7 \/ n = 8
    BY <2>2
  <2> QED
    BY <1>3, <2>2, <2>3
<1> QED
    BY <1>4, <1>5 DEF m

LEMMA ClassOfOrbit ==
    ASSUME NEW st \in State, NEW c \in Cell
    PROVE  \E K : /\ Canonical(K, st)
                  /\ CanonicalClass(st, c) = [K |-> K, rep |-> Min(Beside(K, <<st, c>>)),
                                              orbitSize |-> Cardinality(Images(<<st, c>>))]
                  /\ <<K, Min(Beside(K, <<st, c>>))>> \in Images(<<st, c>>)
<1> DEFINE f == CanonicalMaskFrame(st)
           z == <<st, c>>
           K == f.K
           i == f.frame
           d == perms[i][c]
           w == <<K, d>>
           rep == Min(Beside(K, z))
<1>1. /\ Canonical(K, st) /\ K \in State /\ i \in Transforms /\ transformState(i, st) = K
      /\ f.stab = {t \in Transforms : transformState(t, K) = K}
    BY Frame
<1>2. z \in Placement /\ z[1] = st /\ z[2] = c
    BY DEF Placement
<1>3. d \in Cell /\ w \in Placement /\ w = Move(i, z)
    BY <1>1, <1>2, PermsMove DEF Placement, Move
<1>4. Images(w) = Images(z)
  <2> HIDE DEF w, z
  <2> QED BY <1>1, <1>2, <1>3, ImagesSame
<1>5. ClassRep(f.stab, d) = rep
  <2>1. {perms[s][d] : s \in f.stab} = Beside(K, z)
    BY Represents
  <2> QED
    BY <2>1 DEF ClassRep
<1>7. CellOrbitSize(f.stab, d) = Cardinality(Images(z))
  <2>1. CellOrbitSize(f.stab, d) = Cardinality(Images(w))
    <3> HIDE DEF f, d
    <3> QED BY <1>1, <1>3, OrbitSizes
  <2> QED
    BY <2>1, <1>4
<1>8. CanonicalClass(st, c) = [K |-> K, rep |-> rep, orbitSize |-> Cardinality(Images(z))]
  <2>1. CanonicalClass(st, c) = [K |-> f.K, rep |-> ClassRep(f.stab, d), orbitSize |-> CellOrbitSize(f.stab, d)]
    BY DEF CanonicalClass
  <2> QED
    BY <2>1, <1>5, <1>7
<1>9. <<K, rep>> \in Images(z)
  <2>1. \A x \in Beside(K, z) : <<K, x>> \in Images(z) /\ x \in Cell
    <3>1. ASSUME NEW v \in Images(z), v[1] = K PROVE <<K, v[2]>> \in Images(z) /\ v[2] \in Cell
      <4>1. v \in Placement
        BY <1>2, Acts DEF Images
      <4> QED
        BY <3>1, <4>1 DEF Placement
    <3> QED
        BY <3>1 DEF Beside
  <2>2. d \in Beside(K, z)
    <3>1. w \in Images(z) /\ w[1] = K /\ w[2] = d
        BY <1>1, <1>3 DEF Images
    <3> QED
        BY <3>1 DEF Beside
  <2>3. \E x \in Beside(K, z) : \A y \in Beside(K, z) : x <= y
    <3>1. Beside(K, z) \in SUBSET Nat /\ Beside(K, z) # {}
        BY <2>1, <2>2, Boards
    <3> QED
        BY <3>1, Least
  <2>4. rep \in Beside(K, z)
    BY <2>3 DEF Min
  <2> QED
    BY <2>1, <2>4
<1> QED
    BY <1>1, <1>8, <1>9

(* The placements of an orbit have one class.                              *)
LEMMA SameClass ==
    ASSUME NEW st \in State, NEW c \in Cell, NEW u \in Transforms
    PROVE  CanonicalClass(transformState(u, st), perms[u][c]) = CanonicalClass(st, c)
<1> DEFINE su == transformState(u, st)
           cu == perms[u][c]
<1>1. su \in State /\ cu \in Cell /\ Undo(u) \in Transforms
    BY Masks, PermsMove, Group
<1>2. <<st, c>> \in Placement /\ Move(u, <<st, c>>) = <<su, cu>>
    BY DEF Placement, Move
<1> HIDE DEF su, cu
<1>3. Images(<<su, cu>>) = Images(<<st, c>>)
    BY <1>2, ImagesSame
<1>4. PICK K : /\ Canonical(K, st)
               /\ CanonicalClass(st, c) = [K |-> K, rep |-> Min(Beside(K, <<st, c>>)),
                                           orbitSize |-> Cardinality(Images(<<st, c>>))]
    BY ClassOfOrbit
<1>5. PICK L : /\ Canonical(L, su)
               /\ CanonicalClass(su, cu) = [K |-> L, rep |-> Min(Beside(L, <<su, cu>>)),
                                            orbitSize |-> Cardinality(Images(<<su, cu>>))]
    BY <1>1, ClassOfOrbit
<1>6. Canonical(L, st)
  <2>1. PICK t \in Transforms : L = transformState(t, su)
    BY <1>5 DEF Canonical
  <2>2. Times(t, u) \in Transforms /\ L = transformState(Times(t, u), st)
    BY <2>1, Group, Masks DEF su
  <2>3. ASSUME NEW v \in Transforms PROVE ~ Below(transformState(v, st), L)
    <3>1. Times(v, Undo(u)) \in Transforms
        BY <1>1, Group
    <3>2. transformState(Times(v, Undo(u)), su) = transformState(v, transformState(Undo(u), su))
        BY <1>1, Masks
    <3>3. transformState(Undo(u), su) = st
        BY MasksUndo DEF su
    <3> QED
        BY <3>1, <3>2, <3>3, <1>5 DEF Canonical
  <2> QED
    BY <2>2, <2>3 DEF Canonical
<1>7. L = K
    BY <1>4, <1>6, CanonicalOne
<1>8. Beside(L, <<su, cu>>) = Beside(K, <<st, c>>)
    BY <1>3, <1>7 DEF Beside
<1>9. CanonicalClass(su, cu) = CanonicalClass(st, c)
    BY <1>3, <1>4, <1>5, <1>7, <1>8
<1> QED
    BY <1>9 DEF su, cu

(* The tag of a placement, the key K and the representative under which    *)
(* the table keeps it, is the same for two placements exactly when some    *)
(* symmetry takes one to the other: no two orbits share a slot and none is *)
(* split over two.                                                         *)
THEOREM ClassDecides ==
    ASSUME NEW st \in State, NEW c \in Cell, NEW so \in State, NEW d \in Cell
    PROVE  LET one == CanonicalClass(st, c)
               two == CanonicalClass(so, d)
           IN  one.K = two.K /\ one.rep = two.rep
               <=> \E t \in Transforms : so = transformState(t, st) /\ d = perms[t][c]
<1> DEFINE one == CanonicalClass(st, c)
           two == CanonicalClass(so, d)
<1>1. ASSUME NEW t \in Transforms, so = transformState(t, st), d = perms[t][c]
      PROVE  one.K = two.K /\ one.rep = two.rep
  <2>1. CanonicalClass(so, d) = CanonicalClass(st, c)
    BY <1>1, SameClass
  <2> QED
    BY <2>1
<1>2. \A s \in State, e \in Cell : <<CanonicalClass(s, e).K, CanonicalClass(s, e).rep>> \in Images(<<s, e>>)
  <2> SUFFICES ASSUME NEW s \in State, NEW e \in Cell
               PROVE  <<CanonicalClass(s, e).K, CanonicalClass(s, e).rep>> \in Images(<<s, e>>)
    OBVIOUS
  <2>1. PICK K, r, n : CanonicalClass(s, e) = [K |-> K, rep |-> r, orbitSize |-> n] /\ <<K, r>> \in Images(<<s, e>>)
    BY ClassOfOrbit
  <2> QED
    BY <2>1
<1>3. ASSUME one.K = two.K, one.rep = two.rep
      PROVE  \E t \in Transforms : so = transformState(t, st) /\ d = perms[t][c]
  <2> DEFINE y == <<st, c>>
             z == <<so, d>>
             w == <<one.K, one.rep>>
  <2>1. y \in Placement /\ z \in Placement
    BY DEF Placement
  <2>2. w \in Images(y) /\ w \in Images(z)
    BY <1>2, <1>3
  <2> HIDE DEF y, z, w
  <2>3. PICK i \in Transforms : w = Move(i, y)
    BY <2>2 DEF Images
  <2>4. PICK j \in Transforms : w = Move(j, z)
    BY <2>2 DEF Images
  <2>5. Undo(j) \in Transforms /\ z = Move(Undo(j), Move(i, y))
    BY <2>1, <2>3, <2>4, Acts
  <2>6. Times(Undo(j), i) \in Transforms /\ z = Move(Times(Undo(j), i), y)
    BY <2>1, <2>5, Acts
  <2> QED
    BY <2>6 DEF y, z, Move
<1> QED
    BY <1>1, <1>3

-----------------------------------------------------------------------------
(* What a reader of the table divides by. ClassRep is idempotent, and the  *)
(* orbit size is the same for every cell of a class, so that completions   *)
(* may compute it at the representative, and is 1, 2, 4 or 8.              *)
THEOREM ClassSizes ==
    ASSUME NEW st \in State, NEW c \in Cell
    PROVE  LET f == CanonicalMaskFrame(st)
               d == perms[f.frame][c]
               rep == ClassRep(f.stab, d)
           IN  /\ ClassRep(f.stab, rep) = rep
               /\ CellOrbitSize(f.stab, rep) = CellOrbitSize(f.stab, d)
               /\ CellOrbitSize(f.stab, d) \in {1, 2, 4, 8}
<1> DEFINE f == CanonicalMaskFrame(st)
           d == perms[f.frame][c]
           rep == ClassRep(f.stab, d)
           E(e) == {perms[t][e] : t \in f.stab}
<1>1. /\ f.K \in State /\ f.frame \in Transforms
      /\ f.stab = {t \in Transforms : transformState(t, f.K) = f.K}
    BY Frame
<1>2. d \in Cell
    BY <1>1, PermsMove
<1> HIDE DEF f, d
<1>3. rep = Min(E(d)) /\ ClassRep(f.stab, rep) = Min(E(rep))
    BY DEF ClassRep
<1>4. E(d) \in SUBSET Nat /\ E(d) # {}
  <2>1. 0 \in f.stab
    BY <1>1, Masks DEF Transforms
  <2>2. E(d) \subseteq Cell
    BY <1>1, <1>2, PermsMove
  <2> QED
    BY <2>1, <2>2, Boards
<1>5. rep \in E(d)
  <2> HIDE DEF rep, E
  <2>1. \E x \in E(d) : \A y \in E(d) : x <= y
    BY <1>4, Least
  <2> QED
    BY <1>3, <2>1 DEF Min
<1>6. PICK s \in f.stab : rep = perms[s][d]
    BY <1>5
<1>7. s \in Transforms /\ transformState(s, f.K) = f.K /\ Undo(s) \in Transforms /\ rep \in Cell
  <2>1. s \in Transforms /\ transformState(s, f.K) = f.K
    BY <1>1
  <2>2. Undo(s) \in Transforms
    BY <2>1, Group
  <2>3. perms[s][d] \in Cell
    BY <1>2, <2>1, PermsMove
  <2> HIDE DEF rep
  <2> QED
    BY <2>1, <2>2, <2>3, <1>6
<1> HIDE DEF rep
<1>a. ASSUME NEW t \in Transforms, transformState(t, f.K) = f.K,
             NEW i \in Transforms, transformState(i, f.K) = f.K
      PROVE  Times(t, i) \in f.stab
  <2>1. Times(t, i) \in Transforms
    BY Group
  <2>2. transformState(Times(t, i), f.K) = transformState(t, transformState(i, f.K))
    BY <1>1, Masks
  <2> QED
    BY <1>a, <1>1, <2>1, <2>2
<1>8. ASSUME NEW t \in f.stab PROVE perms[t][rep] \in E(d)
  <2>1. t \in Transforms /\ transformState(t, f.K) = f.K
    BY <1>1
  <2>2. Times(t, s) \in f.stab
    BY <1>a, <1>7, <2>1
  <2>3. perms[Times(t, s)][d] = perms[t][rep]
    BY <1>2, <1>6, <1>7, <2>1, PermsCompose
  <2> QED
    BY <2>2, <2>3
<1>9. ASSUME NEW t \in f.stab PROVE perms[t][d] \in E(rep)
  <2>1. t \in Transforms /\ transformState(t, f.K) = f.K
    BY <1>1
  <2>2. transformState(Undo(s), f.K) = f.K
    BY <1>1, <1>7, MasksUndo
  <2>3. Times(t, Undo(s)) \in f.stab
    BY <1>a, <1>7, <2>1, <2>2
  <2>4. perms[Undo(s)][rep] = d
    BY <1>2, <1>6, <1>7, PermsUndo
  <2>5. perms[Times(t, Undo(s))][rep] = perms[t][d]
    BY <1>7, <2>1, <2>4, PermsCompose
  <2> QED
    BY <2>3, <2>5
<1>10. E(rep) = E(d)
    BY <1>8, <1>9
<1>11. ClassRep(f.stab, rep) = rep
    BY <1>3, <1>10
<1>12. CellOrbitSize(f.stab, rep) = CellOrbitSize(f.stab, d)
  <2>1. <<f.K, d>> \in Placement /\ Move(s, <<f.K, d>>) = <<f.K, rep>>
    BY <1>1, <1>2, <1>6, <1>7 DEF Placement, Move
  <2>2. Images(<<f.K, rep>>) = Images(<<f.K, d>>)
    BY <1>7, <2>1, ImagesSame
  <2>3. CellOrbitSize(f.stab, rep) = Cardinality(Images(<<f.K, rep>>))
    BY <1>1, <1>7, OrbitSizes
  <2>4. CellOrbitSize(f.stab, d) = Cardinality(Images(<<f.K, d>>))
    BY <1>1, <1>2, OrbitSizes
  <2> QED
    BY <2>2, <2>3, <2>4
<1>13. CellOrbitSize(f.stab, d) \in {1, 2, 4, 8}
    BY <1>1, <1>2, OrbitSizes
<1> QED
    BY <1>11, <1>12, <1>13 DEF rep, d, f

(* The start groups share the board out: every cell is in the orbit of the *)
(* group its canonical position names, and in no other group's, so that    *)
(* starting once per group with the orbit's size for a weight counts every *)
(* start once.                                                             *)
THEOREM StartGroups ==
    /\ \A c \in Cell : /\ GetCanonicalPosition(c) \in GetCanonicalGroups
                       /\ c \in Orbit(GetCanonicalPosition(c))
    /\ \A g, h \in GetCanonicalGroups : g # h => Orbit(g) \cap Orbit(h) = {}
<1>1. ASSUME NEW c \in Cell, NEW d \in Orbit(c) PROVE d \in Cell /\ Orbit(d) = Orbit(c)
  <2>1. PICK t \in Transforms : d = perms[t][c]
    BY <1>1 DEF Orbit
  <2>2. d \in Cell /\ Undo(t) \in Transforms /\ perms[Undo(t)][d] = c
    BY <2>1, PermsMove, PermsUndo
  <2>3. ASSUME NEW i \in Transforms PROVE perms[i][d] \in Orbit(c)
    <3>1. Times(i, t) \in Transforms /\ perms[Times(i, t)][c] = perms[i][d]
        BY <2>1, Group, PermsCompose
    <3> QED
        BY <3>1 DEF Orbit
  <2>4. ASSUME NEW i \in Transforms PROVE perms[i][c] \in Orbit(d)
    <3>1. Times(i, Undo(t)) \in Transforms /\ perms[Times(i, Undo(t))][d] = perms[i][c]
        BY <2>2, Group, PermsCompose
    <3> QED
        BY <3>1 DEF Orbit
  <2>5. Orbit(d) = Orbit(c)
    BY <2>3, <2>4 DEF Orbit
  <2> QED
    BY <2>2, <2>5
<1>2. ASSUME NEW c \in Cell PROVE c \in Orbit(c) /\ GetCanonicalPosition(c) \in Orbit(c)
  <2>1. c \in Orbit(c)
    BY PermsStay DEF Orbit, Transforms
  <2>2. Orbit(c) \in SUBSET Nat
    BY PermsMove, Boards DEF Orbit
  <2>3. \E x \in Orbit(c) : \A y \in Orbit(c) : x <= y
    BY <2>1, <2>2, Least
  <2>4. GetCanonicalPosition(c) \in Orbit(c)
    BY <2>3 DEF GetCanonicalPosition, Min
  <2> QED
    BY <2>1, <2>4
<1>3. ASSUME NEW c \in Cell
      PROVE  GetCanonicalPosition(c) \in GetCanonicalGroups /\ c \in Orbit(GetCanonicalPosition(c))
  <2> DEFINE g == GetCanonicalPosition(c)
  <2>1. g \in Cell /\ Orbit(g) = Orbit(c)
    BY <1>1, <1>2
  <2>2. GetCanonicalPosition(g) = g
    BY <2>1 DEF GetCanonicalPosition
  <2> QED
    BY <2>1, <2>2, <1>2 DEF GetCanonicalGroups
<1>4. ASSUME NEW g \in GetCanonicalGroups, NEW h \in GetCanonicalGroups, NEW c \in Orbit(g) \cap Orbit(h)
      PROVE  g = h
  <2>1. g \in Cell /\ h \in Cell /\ GetCanonicalPosition(g) = g /\ GetCanonicalPosition(h) = h
    BY DEF GetCanonicalGroups
  <2>2. Orbit(g) = Orbit(h)
    BY <2>1, <1>1, <1>4
  <2> QED
    BY <2>1, <2>2 DEF GetCanonicalPosition
<1> QED
    BY <1>3, <1>4

-----------------------------------------------------------------------------
(* The suffixes. *)
OnBoard == Placed(cell, unvisited)
Threaded == OnBoard /\ \E P, end : Threads(cell, unvisited, P, end)
Trailed == OnBoard /\ (unvisited # {} => \E first, end : Trail(cell, unvisited, first, end))

LEMMA Prepends ==
    ASSUME OnBoard, [SuffixNext]_suffix
    PROVE  /\ OnBoard'
           /\ \/ cell' = cell /\ unvisited' = unvisited
              \/ cell' \in Neighbors[cell] \ unvisited /\ unvisited' = unvisited \cup {cell}
<1>1. CASE UNCHANGED suffix
    BY <1>1 DEF suffix, OnBoard
<1>2. CASE SuffixNext
  <2>1. cell' \in Neighbors[cell] \ unvisited /\ unvisited' = unvisited \cup {cell}
    BY <1>2 DEF SuffixNext, Prepend
  <2>2. Placed(cell', unvisited \cup {cell})
    BY <2>1, PlacedKept DEF OnBoard
  <2> QED
    BY <2>1, <2>2 DEF OnBoard
<1> QED
    BY <1>1, <1>2

LEMMA StartsOnBoard == SuffixInit => OnBoard
BY DEF SuffixInit, OnBoard, Placed

(* The write gate drops no placement that has a completion.                *)
THEOREM GateSound == SuffixSpec => []GateCutsSound
<1>1. SuffixInit => Threaded
    BY StartsOnBoard, ThreadStarts DEF SuffixInit, Threaded
<1>2. Threaded /\ [SuffixNext]_suffix => Threaded'
  <2> SUFFICES ASSUME Threaded, [SuffixNext]_suffix
               PROVE  OnBoard' /\ \E P, end : Threads(cell', unvisited', P, end)
    BY DEF Threaded
  <2>1. OnBoard /\ OnBoard'
    BY Prepends DEF Threaded
  <2>2. PICK P, end : Threads(cell, unvisited, P, end)
    BY DEF Threaded
  <2>3. CASE cell' = cell /\ unvisited' = unvisited
    BY <2>1, <2>2, <2>3
  <2>4. CASE cell' \in Neighbors[cell] \ unvisited /\ unvisited' = unvisited \cup {cell}
    <3>1. \E R : Threads(cell', unvisited \cup {cell}, R, end)
        BY <2>1, <2>2, <2>4, ThreadGrows DEF OnBoard
    <3> QED
        BY <2>1, <2>4, <3>1
  <2> QED
    BY <2>1, <2>3, <2>4, Prepends
<1>3. Threaded => GateCutsSound
    BY GatePasses DEF Threaded, OnBoard, GateCutsSound
<1> QED
    BY <1>1, <1>2, <1>3, PTL DEF SuffixSpec

(* No cut of a visit loses a tour.                                         *)
THEOREM VisitSound == SuffixSpec => []VisitCutsSound
<1>1. SuffixInit => Trailed
    BY StartsOnBoard DEF SuffixInit, Trailed
<1>2. Trailed /\ [SuffixNext]_suffix => Trailed'
  <2> SUFFICES ASSUME Trailed, [SuffixNext]_suffix
               PROVE  OnBoard' /\ (unvisited' # {} => \E first, end : Trail(cell', unvisited', first, end))
    BY DEF Trailed
  <2>1. OnBoard /\ OnBoard'
    BY Prepends DEF Trailed
  <2>2. CASE cell' = cell /\ unvisited' = unvisited
    BY <2>1, <2>2 DEF Trailed
  <2>3. CASE cell' \in Neighbors[cell] \ unvisited /\ unvisited' = unvisited \cup {cell}
    <3>1. CASE unvisited = {}
      <4>1. Trail(cell', {cell}, cell, cell)
        BY <2>1, <2>3, <3>1, TrailStarts DEF OnBoard
      <4>2. unvisited' = {cell}
        BY <2>3, <3>1
      <4> QED
        BY <2>1, <4>1, <4>2
    <3>2. CASE unvisited # {}
      <4>1. PICK first, end : Trail(cell, unvisited, first, end)
        BY <3>2 DEF Trailed
      <4>2. Trail(cell', unvisited \cup {cell}, cell, end)
        BY <2>1, <2>3, <4>1, TrailGrows DEF OnBoard
      <4> QED
        BY <2>1, <2>3, <4>2
    <3> QED
        BY <3>1, <3>2
  <2> QED
    BY <2>1, <2>2, <2>3, Prepends
<1>3. Trailed => VisitCutsSound
    BY VisitPasses DEF Trailed, OnBoard, VisitCutsSound
<1> QED
    BY <1>1, <1>2, <1>3, PTL DEF SuffixSpec

LEMMA ClassLets == ASSUME OnBoard PROVE ClassIsCanonical
<1> DEFINE st == unvisited \cup {cell}
           class == CanonicalClass(st, cell)
           images == {<<transformState(t, st), perms[t][cell]>> : t \in Transforms}
<1>1. st \in State /\ cell \in Cell
    BY DEF OnBoard, Placed, State
<1>2. images = Images(<<st, cell>>)
    BY DEF Images, Move
<1> HIDE DEF st
<1>3. \A t \in {1, 4} : CanonicalClass(transformState(t, st), perms[t][cell]) = class
    BY <1>1, SameClass DEF Transforms
<1>4. PICK K : /\ class = [K |-> K, rep |-> Min(Beside(K, <<st, cell>>)),
                           orbitSize |-> Cardinality(Images(<<st, cell>>))]
               /\ <<K, Min(Beside(K, <<st, cell>>))>> \in Images(<<st, cell>>)
    BY <1>1, ClassOfOrbit
<1> HIDE DEF class
<1>5. class.K = K /\ class.rep = Min(Beside(K, <<st, cell>>)) /\ class.orbitSize = Cardinality(Images(<<st, cell>>))
    BY <1>4
<1>6. <<class.K, class.rep>> \in images /\ class.orbitSize = Cardinality(images)
    BY <1>2, <1>4, <1>5
<1> QED
    BY <1>3, <1>6 DEF ClassIsCanonical, st, class

(* CanonicalClass names the symmetry class of every placement.             *)
THEOREM ClassCanonical == SuffixSpec => []ClassIsCanonical
<1>1. OnBoard /\ [SuffixNext]_suffix => OnBoard'
    BY Prepends
<1>2. OnBoard => ClassIsCanonical
    BY ClassLets
<1> QED
    BY <1>1, <1>2, StartsOnBoard, PTL DEF SuffixSpec
=============================================================================
