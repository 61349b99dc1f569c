------------------------------- MODULE Pruner -------------------------------
(***************************************************************************)
(* The cuts of the descents (package pruner): necessary conditions for a   *)
(* path that starts at a cell and covers the unvisited ones. Which of the  *)
(* conditions failed only feeds the statistics and is left out.            *)
(***************************************************************************)
EXTENDS Board

NeighborsIn(c, S) == Neighbors[c] \cap S
DegreeIn(c, S) == Cardinality(NeighborsIn(c, S))

(* The flood fill of globalCheck: what is reached from one cell of S.      *)
Component(S) ==
    LET grow[seen \in SUBSET S] ==
            LET next == seen \cup UNION {NeighborsIn(c, S) : c \in seen}
            IN  IF next = seen THEN seen ELSE grow[next]
    IN  grow[{CHOOSE c \in S : \A d \in S : c <= d}]

Connected(S) == Component(S) = S

(* Visiting last may have isolated one of its own neighbours.              *)
LocalDeadEnd(last, unvisited) ==
    \E u \in NeighborsIn(last, unvisited) : NeighborsIn(u, unvisited) = {}

EndpointsOne(last, unvisited) ==   \* mutant of EndpointsViolated: one vertex too few allowed
    LET deg1 == {u \in unvisited : DegreeIn(u, unvisited) = 1}
    IN  \/ Cardinality(deg1) > 1
        \/ Cardinality(deg1) = 2 /\ NeighborsIn(last, deg1) = {}

(* Vertices of degree one must be ends of the path: at most two, and with  *)
(* two of them the path enters the remainder through one.                  *)
EndpointsViolated(last, unvisited) ==
    LET deg1 == {u \in unvisited : DegreeIn(u, unvisited) = 1}
    IN  \/ Cardinality(deg1) > 2
        \/ Cardinality(deg1) = 2 /\ NeighborsIn(last, deg1) = {}

globalCheck(last, unvisited) ==
    \/ NeighborsIn(last, unvisited) = {}
    \/ ~Connected(unvisited)
    \/ EndpointsViolated(last, unvisited)

ShouldPruneAfterVisit(last, unvisited) ==
    CASE unvisited = {} -> FALSE
      [] Cardinality(unvisited) = 1 -> NeighborsIn(last, unvisited) = {}
      [] OTHER -> LocalDeadEnd(last, unvisited) \/ globalCheck(last, unvisited)

forcedVertexInner(h, cur, t, v) == DegreeIn(v, h) = 2   \* mutant of forcedVertex: ends like any other

(* The write gate. All edges of a vertex are forced when the path uses as  *)
(* many edges at it as there are: one at cur and at the far end t, two     *)
(* elsewhere.                                                              *)
forcedVertex(h, cur, t, v) == DegreeIn(v, h) = IF v \in {cur, t} THEN 1 ELSE 2

ForcedEdges(h, cur, t) ==
    {e \in {{v, w} : v \in h, w \in h} :
        \E v, w \in e : e = {v, w} /\ w \in Neighbors[v] /\ forcedVertex(h, cur, t, v)}

(* The union-find: edges that can be taken away from their ends inwards    *)
(* hold no cycle.                                                          *)
HasCycle(E) ==
    LET peel[F \in SUBSET E] ==
            LET tips == {e \in F : \E v \in e : \A f \in F \ {e} : v \notin f}
            IN  IF tips = {} THEN F # {} ELSE peel[F \ tips]
    IN  peel[E]

(* The far end is known only when a single vertex must be one.             *)
Pinned(ends) == Cardinality(ends) = 1

forcedChainCut(cur, todo) ==
    LET h == todo \cup {cur}
        ends == {v \in todo : DegreeIn(v, h) = 1}
        t == CHOOSE v \in ends : TRUE
        E == ForcedEdges(h, cur, t)
        ForcedAt(v) == Cardinality({e \in E : v \in e})
    IN  /\ Pinned(ends)
        /\ \/ ForcedAt(cur) > 1
           \/ \E v \in todo : ForcedAt(v) > 2
           \/ HasCycle(E)

ShouldPruneState(cur, todo) == forcedChainCut(cur, todo)
=============================================================================
