------------------------------ MODULE Suffixes ------------------------------
(***************************************************************************)
(* The remainders that can be completed, built backwards. A state is a     *)
(* cell and a set of unvisited cells that some path from the cell covers;  *)
(* Prepend puts a cell before the path. Every completable remainder of the *)
(* board is reached and no other, so an invariant over these states speaks *)
(* of all descents that must not be cut, however they came there.          *)
(***************************************************************************)
EXTENDS Pruner, Symmetry

CONSTANT MaxTodo   \* bound on the length of a suffix

VARIABLES cell, unvisited
suffix == <<cell, unvisited>>

SuffixInit == cell \in Cell /\ unvisited = {}

(* The step of dfsTask and dfsCount from cell to an unvisited neighbour,   *)
(* taken backwards: v was visited just before cell.                        *)
Prepend(v) ==
    /\ Cardinality(unvisited) < MaxTodo
    /\ v \in Neighbors[cell] \ unvisited
    /\ cell' = v
    /\ unvisited' = unvisited \cup {cell}

SuffixNext == \E v \in Cell : Prepend(v)

SuffixSpec == SuffixInit /\ [][SuffixNext]_suffix

(* No cut of the descent loses a tour: whatever was visited before, the    *)
(* check after a visit (ShouldPruneAfterVisit) lets every completable      *)
(* remainder pass.                                                         *)
VisitCutsSound == ~ShouldPruneAfterVisit(cell, unvisited)

(* The write gate at the end of the descent (ShouldPruneState) drops no    *)
(* placement that has a completion.                                        *)
GateCutsSound == ~ShouldPruneState(cell, unvisited)

(* CanonicalClass names the symmetry class of a placement: the same class  *)
(* for every image of it (a quarter turn and a reflection generate them),  *)
(* a member of the placement's own orbit, so that different orbits never   *)
(* share a slot, and with the orbit's true size, by which completions      *)
(* divides.                                                                *)
ClassIsCanonical ==
    LET st == unvisited \cup {cell}
        class == CanonicalClass(st, cell)
        images == {<<transformState(t, st), perms[t][cell]>> : t \in Transforms}
    IN  /\ \A t \in {1, 4} : CanonicalClass(transformState(t, st), perms[t][cell]) = class
        /\ <<class.K, class.rep>> \in images
        /\ class.orbitSize = Cardinality(images)
=============================================================================
