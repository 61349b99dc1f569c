------------------------------ MODULE Symmetry ------------------------------
(***************************************************************************)
(* Canonical forms under the symmetries of the square (package symmetry).  *)
(* A mask's canonical form K is the smallest of its eight images, and the  *)
(* end of a path is reduced to the smallest cell it can be moved to by the *)
(* symmetries that leave K alone. Both the writers of the table and its    *)
(* readers go through these operators.                                     *)
(***************************************************************************)
EXTENDS Board, FiniteSetsExt

Transforms == 0 .. 7

(* GetSymmetries, in the order of the table.                               *)
Moved(t, x, y) ==
    LET m == Size - 1
    IN  CASE t = 0 -> <<x, y>>          [] t = 1 -> <<y, m - x>>
          [] t = 2 -> <<m - x, m - y>>  [] t = 3 -> <<m - y, x>>
          [] t = 4 -> <<x, m - y>>      [] t = 5 -> <<m - x, y>>
          [] t = 6 -> <<y, x>>          [] t = 7 -> <<m - y, m - x>>

perms == [t \in Transforms |-> [c \in Cell |->
            LET p == Moved(t, RowOf(c), ColumnOf(c)) IN p[1] * Size + p[2]]]

composeSwapped == [i \in Transforms |-> [j \in Transforms |->   \* mutant of compose: j after i
    Min({k \in Transforms : \A c \in Cell : perms[k][c] = perms[j][perms[i][c]]})]]

(* compose[i][j] is the first row of perms equal to i after j.             *)
compose == [i \in Transforms |-> [j \in Transforms |->
    Min({k \in Transforms : \A c \in Cell : perms[k][c] = perms[i][perms[j][c]]})]]

transformState(t, st) == {perms[t][c] : c \in st}

(* The order of masks as numbers: the largest cell not in both decides.    *)
Below(a, b) == a # b /\ Max(SymDiff(a, b)) \in b

(* CanonicalMaskFrame: the least image, the first transform that reaches   *)
(* it, and the transforms that leave it alone.                             *)
CanonicalMaskFrame(st) ==
    LET imgs == [t \in Transforms |-> transformState(t, st)]
        K == imgs[CHOOSE t \in Transforms : \A u \in Transforms : ~Below(imgs[u], imgs[t])]
        frame == Min({t \in Transforms : imgs[t] = K})
    IN  [K |-> K, frame |-> frame, stab |-> {t \in Transforms : imgs[compose[t][frame]] = K}]

ClassRepCell(stab, cell) == cell   \* mutant of ClassRep: the cell itself

ClassRep(stab, cell) == Min({perms[s][cell] : s \in stab})

CellOrbitSize(stab, cell) ==
    Cardinality(Transforms) \div Cardinality({s \in stab : perms[s][cell] = cell})

CanonicalClass(st, end) ==
    LET f == CanonicalMaskFrame(st)
        c == perms[f.frame][end]
    IN  [K |-> f.K, rep |-> ClassRep(f.stab, c), orbitSize |-> CellOrbitSize(f.stab, c)]

(* Start groups: the orbits of cells, each with its least member.          *)
Orbit(pos) == {perms[t][pos] : t \in Transforms}
GetCanonicalPosition(pos) == Min(Orbit(pos))
GetCanonicalGroups == {c \in Cell : GetCanonicalPosition(c) = c}
GetOrbitSize(pos) == Cardinality(Orbit(pos))
=============================================================================
