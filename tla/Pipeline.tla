------------------------------ MODULE Pipeline ------------------------------
(***************************************************************************)
(* The count of all open tours as the three phases compute it              *)
(* (counter.ParallelCountWithDepth with the descents of the searcher):     *)
(* gen A descends from one start per group of symmetric cells, gen B       *)
(* carries every entry of its table on to the split depth, and counting    *)
(* extends every entry of the second table until the rest of the board is  *)
(* as large as the table's masks, and looks that rest up in the table: a   *)
(* path over the rest, reversed, is a way to complete the tour.            *)
(*                                                                         *)
(* A task is one step here and tasks are taken in one order, as a run with *)
(* a single worker takes them; how several workers share the tasks of a    *)
(* phase is the subject of GenPhase and CountPhase.                        *)
(***************************************************************************)
EXTENDS Symmetry, Pruner, CommandLine, Functions, Bags

CONSTANTS
    CommandLines, \* the flags the program is started with
    Depths,       \* split depths of direct calls of ParallelCountWithDepth
    KnownTours    \* the number of open tours of the board, from the tests

VARIABLES
    precomputeDepth,
    phase,        \* "gen A", "gen B", "counting" or "returned"
    tasks,        \* what is left of the phase's worklist, <<mask, rep>> -> weight
    table,        \* the table the phase writes or, when counting, reads
    total,
    cancelled     \* ctx has ended
vars == <<precomputeDepth, phase, tasks, table, total, cancelled>>

ASSUME PipelineAssumption ==
    /\ Depths \subseteq 1 .. totalCells
    /\ \A flags \in CommandLines : Flags(flags)
    /\ KnownTours \in Nat

Either(S) == CHOOSE x \in S : TRUE
Entry(placement, weight) == [p \in {placement} |-> weight]
Union(bags) == FoldFunction((+), EmptyBag, bags)

(* A placement: the visited cells and the one the path has come to.        *)
Visit(p, n) == <<p[1] \cup {n}, n>>
Rest(p) == Invert(p[1])
Onward(p) == Neighbors[p[2]] \cap Rest(p)

(* The loop of both descents: the unvisited neighbours that are not cut.   *)
Steps(p) == {n \in Onward(p) : ~ShouldPruneAfterVisit(n, Rest(p) \ {n})}

ClassOf(p) == LET class == CanonicalClass(p[1], p[2]) IN <<class.K, class.rep>>

(* dfsTask: the classes written below a placement, each with the weight.   *)
dfsTask(placement, depth, weight) ==
    LET written[p \in Placement] ==
            IF Cardinality(p[1]) < depth
            THEN Union([n \in Steps(p) |-> written[Visit(p, n)]])
            ELSE IF ShouldPruneState(p[2], Rest(p)) THEN EmptyBag ELSE Entry(ClassOf(p), weight)
    IN  written[placement]

GenerateTasks(start, orbitSize, depth) ==
    IF ShouldSkip(start) THEN EmptyBag ELSE dfsTask(<<{start}, start>>, depth, orbitSize)

ExtendTaskGated(entry, weight, depth) ==   \* mutant of ExtendTask: entries at the depth are lost
    IF Cardinality(entry[1]) >= depth THEN EmptyBag ELSE dfsTask(entry, depth, weight)

(* An entry already at the depth is written as it is.                      *)
ExtendTask(entry, weight, depth) ==
    IF Cardinality(entry[1]) >= depth THEN Entry(entry, weight) ELSE dfsTask(entry, depth, weight)

Stored(class) == IF class \in DOMAIN table THEN table[class] ELSE 0

(* completions: what the table knows of the ways to cover the unvisited    *)
(* cells from a neighbour of the path's end.                               *)
completions(p) ==
    LET f == CanonicalMaskFrame(Rest(p))
        Ways(u) == LET rep == ClassRep(f.stab, perms[f.frame][u])
                   IN  Stored(<<f.K, rep>>) \div CellOrbitSize(f.stab, rep)
    IN  SumFunction([u \in Onward(p) |-> Ways(u)])

dfsCount(placement, stopLevel) ==
    LET found[p \in Placement] ==
            IF p[1] = Cell THEN 1
            ELSE IF Cardinality(p[1]) = stopLevel THEN completions(p)
            ELSE SumFunction([n \in Steps(p) |-> found[Visit(p, n)]])
    IN  found[placement]

(* Where the rest of the board is as large as the masks of the table. No   *)
(* level of a descent is FullDescent.                                      *)
FullDescent == -1
StopLevelPast == totalCells - precomputeDepth + 1   \* mutant of StopLevel: one cell later
StopLevel ==
    IF 2 * precomputeDepth <= totalCells THEN totalCells - precomputeDepth ELSE FullDescent

CountPathsWithCacheReversal(task) == dfsCount(task, StopLevel)

base == Min({precomputeDepth, TwoPhaseBaseDepth})

Runs == {flags \in CommandLines : Accepted(flags) /\ appArgs(flags).size = Size}

Init ==
    /\ precomputeDepth \in Depths \cup {appArgs(flags).precomputeDepth : flags \in Runs}
    /\ phase = "gen A"
    /\ tasks = [p \in {<<{c}, c>> : c \in GetCanonicalGroups} |-> GetOrbitSize(p[2])]
    /\ table = EmptyBag
    /\ total = 0
    /\ cancelled = FALSE

Task == Either(DOMAIN tasks)
TakeTask == tasks' = [p \in DOMAIN tasks \ {Task} |-> tasks[p]]

GenerateIntermediate ==
    /\ phase = "gen A" /\ tasks # EmptyBag
    /\ TakeTask
    /\ table' = table (+) GenerateTasks(Task[2], tasks[Task], base)
    /\ UNCHANGED <<precomputeDepth, phase, total, cancelled>>

(* The worklist of gen B is the table of gen A, which is dropped.          *)
MaterializeWorklist ==
    /\ phase = "gen A" /\ tasks = EmptyBag
    /\ phase' = "gen B"
    /\ tasks' = table
    /\ table' = EmptyBag
    /\ UNCHANGED <<precomputeDepth, total, cancelled>>

ExtendInto ==
    /\ phase = "gen B" /\ tasks # EmptyBag
    /\ TakeTask
    /\ table' = table (+) ExtendTask(Task, tasks[Task], precomputeDepth)
    /\ UNCHANGED <<precomputeDepth, phase, total, cancelled>>

(* The sealed table is both the worklist of counting and its memo.         *)
Seal ==
    /\ phase = "gen B" /\ tasks = EmptyBag
    /\ phase' = "counting"
    /\ tasks' = table
    /\ UNCHANGED <<precomputeDepth, table, total, cancelled>>

CountOneTask ==
    /\ phase = "counting" /\ tasks # EmptyBag
    /\ TakeTask
    /\ total' = total + CountPathsWithCacheReversal(Task) * tasks[Task]
    /\ UNCHANGED <<precomputeDepth, phase, table, cancelled>>

Return ==
    /\ phase = "counting" /\ tasks = EmptyBag
    /\ phase' = "returned"
    /\ UNCHANGED <<precomputeDepth, tasks, table, total, cancelled>>

(* ctx ends during a generation phase. What its tables hold is of no       *)
(* account then: the walk of the sealed table yields nothing and counting  *)
(* has no task.                                                            *)
CancelGeneration ==
    /\ phase \in {"gen A", "gen B"}
    /\ cancelled' = TRUE
    /\ phase' = "returned"
    /\ UNCHANGED <<precomputeDepth, tasks, table, total>>

(* ctx ends while a task is counted: its descent returns the part found so *)
(* far, which is folded in like a full count, and no other task is begun.  *)
CancelCounting ==
    /\ phase = "counting" /\ tasks # EmptyBag
    /\ \E part \in 0 .. CountPathsWithCacheReversal(Task) :
            total' = total + part * tasks[Task]
    /\ cancelled' = TRUE
    /\ phase' = "returned"
    /\ UNCHANGED <<precomputeDepth, tasks, table>>

Next ==
    \/ GenerateIntermediate \/ MaterializeWorklist
    \/ ExtendInto \/ Seal
    \/ CountOneTask \/ Return
    \/ CancelGeneration \/ CancelCounting

Spec == Init /\ [][Next]_vars

(* The total of a run is the number of tours, whatever the split depth,    *)
(* and a cancelled run reports part of it (ParallelCountWithDepth; the     *)
(* number is pinned by TestNaiveBruteForceMatchesKnownTotal).              *)
TotalExact ==
    phase = "returned" => IF cancelled THEN total <= KnownTours ELSE total = KnownTours

(* Stopping early and reading the table counts what a descent to the full  *)
(* board would (specs/searcher.md, the reversal duality), for every task   *)
(* on its own and not only in the sum. Checked for the task counted next.  *)
ReversalExact ==
    phase = "counting" /\ tasks # EmptyBag =>
        CountPathsWithCacheReversal(Task) = dfsCount(Task, FullDescent)

(* The paths over the cells of a placement that end at its cell, by brute  *)
(* force.                                                                  *)
Paths(placement) ==
    LET paths[p \in Placement] ==
            LET before == p[1] \ {p[2]}
            IN  IF p[1] = {p[2]} THEN 1
                ELSE SumFunction([c \in Neighbors[p[2]] \cap before |-> paths[<<before, c>>]])
    IN  paths[placement]

(* The weight of a class is a sum of whole orbits, so that the division in *)
(* completions is exact, and in a class that some tour passes through no   *)
(* path is missing from it: one for every path over the mask that ends at  *)
(* rep, times the orbit. Checked for the task that is counted next.        *)
WholeOrbits ==
    phase = "counting" /\ tasks # EmptyBag =>
        LET class == CanonicalClass(Task[1], Task[2])
            exact == class.orbitSize * Paths(Task)
        IN  /\ Task = <<class.K, class.rep>>
            /\ tasks[Task] % class.orbitSize = 0
            /\ tasks[Task] <= exact
            /\ CountPathsWithCacheReversal(Task) > 0 => tasks[Task] = exact
=============================================================================
