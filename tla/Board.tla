------------------------------- MODULE Board -------------------------------
(***************************************************************************)
(* The board (packages graph and state). A cell is numbered row by row; a  *)
(* State, one bit per cell in the code, is the set of its visited cells.   *)
(***************************************************************************)
EXTENDS Integers, FiniteSets

CONSTANT Size

ASSUME BoardAssumption == Size \in 1 .. 8   \* a State has 64 bits

totalCells == Size * Size
Cell == 0 .. totalCells - 1
State == SUBSET Cell
Placement == State \X Cell   \* the cells of a path and its end

RowOf(c) == c \div Size
ColumnOf(c) == c % Size

KnightMoves == {d \in (-2 .. 2) \X (-2 .. 2) : d[1] * d[1] + d[2] * d[2] = 5}

(* buildNeighbors, the masks of GetNeighborMask.                           *)
Neighbors == [c \in Cell |->
    {d \in Cell : <<RowOf(d) - RowOf(c), ColumnOf(d) - ColumnOf(c)>> \in KnightMoves}]

Invert(st) == Cell \ st

(* On an odd board a tour visits one cell more of the corners' colour.     *)
ShouldSkip(pos) == Size % 2 # 0 /\ pos % 2 # 0
=============================================================================
