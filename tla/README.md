# Specifications of knighttour

`knighttour` counts the open knight's tours of an `n`×`n` board. It works in
three phases over one shared table: *gen A* descends from the canonical start
cells to a small depth, *gen B* extends every entry of that table to the split
depth, and *counting* completes every entry from the other half of the tour,
which it finds in the same table. Every phase is run by a crew of goroutines;
`ctx` may end at any moment and the run then reports a partial total.

This directory holds TLA+ modules of the parts of that program, the TLC
configurations that check them and TLAPS proofs about them. Line numbers in the
modules' comments refer to the sources.

## The system

| part | state | operations | talks to |
|---|---|---|---|
| `workerpool` | cursor and wait group of one call | `Run`, `claims`, `Fanout` | runs the callers' bodies; nothing survives a call |
| `cache` | 128 shards: map, slab, free baskets, mutex; `Staging` per worker | `Set`, `Staging.Set`, `Flush`, `Seal`, `View.Get`, `Len`, `All` | written by gen A and gen B, read lock-free by counting after the barrier |
| `counter` | the worklist, `total`, the GC percent | `ParallelCountWithDepth`, `CensusWithDepth`, phases, `effectiveBatch`, dispatch | drives `workerpool`, `cache`, `searcher`, `monitoring` |
| `monitoring` | phases, active pointer, counters, `started` | `Start`, `BeginPhase`, `AddTasks`, `Report…`, `Finish`, `Phase`/`Totals`, reporter loop | called by orchestrator and workers, prints from a goroutine of its own |
| `searcher`, `pruner`, `symmetry`, `graph`, `state` | none (pure) | descents, cuts, canonical forms | called by the bodies of the phases |
| `main` | none | `parseArgs`, signals, one run | gives the pipeline its split depth; `Start`, run, look at `ctx`, deferred `Finish` |
| `.opencode/plugins` (gates) | green stamps of a session | `before` and `after` each bash call | the shell, `make check` and `git`, all external |

### What is hard

* *Interleavings*: workers claim from one cursor, fold into shared slots, report
  to shared counters; the reporter reads those counters at any time.
* *Cancellation*: `ctx` is a flag that is tested, not a lock. It may end between
  a test and what the test guards: a claim, a send, a registration, a line.
* *Barriers*: the table is read without locks because its writers are gone. That
  rests on `Wait`, and on the deferred `Flush` that comes before it.
* *A bounded channel* between one producer and several consumers, with a `select`
  on `ctx.Done()`.
* *Layout*: histograms live in recycled blocks of a slab addressed by packed words.
* *Evidence that ages*: the gate looks at the tree before a line runs and stamps it
  after; the line itself and everybody else write in between.
* *Algorithm*: the split, the D4 canonical forms, the division by orbit sizes and
  the two kinds of cuts must agree, or the total is silently wrong.

`PROJECT.json` lists these hazards line by line with the properties that cover them.

## Modules

**`WorkOnce`** is what both crews promise: an item goes to at most one goroutine,
the call returns only when no item is in a goroutine's hands, and unless the run
was stopped every item is done then.

**`PoolRun`** is `workerpool.Run` with `claims`. `pc[w]` is where a goroutine is
in its range loop: `Check` is the test of `ctx`, `Claim` the atomic add with the
bound test and the yield, `Finish` and `Break` the two ways the loop body ends,
`Leave` the rest of the worker function, `Join` the return from `wg.Wait()`.
`Cancel` may happen anywhere, also before the call. `n <= 0` is a legal argument.
`yields`, `done`, `broke` and `atCancel` are history variables.

**`Histogram`** is the table as its users see it, `mask -> classes in order of
first contribution`, with `Contribute` as its one operation. **`CacheShard`** is
one shard word by word: `data` the map, `slab` the words, `free` the baskets. One
`Set` is one step (it holds the mutex all along); the branches of `add` are its
disjuncts. `yieldRecord` and `WeightOf` are the two read paths of a sealed table.
Words are numbers, packed as in the code with smaller fields: `WBase` for 2^56,
`RepLimit` for 2^7, `MaxLog` for the six capacity classes. **`SlabPeak`** adds a
history to it: how many blocks of each capacity masks have occupied at one time.

**`GenPhase`** is a generation phase. It instantiates `PoolRun` for the crew and
refines its loop body: `Emit` is a leaf that reaches `Sink.Set`, with the
automatic flush; `Lock`, `Load`, `Store`, `FlushEnd` are `Staging.Flush`, the
addition to a slot taken apart into its read and its write so that the mutex
matters; `Leave` needs the deferred release. `Limit = 1` is the direct
`Cache.Set` of gen A (every emission locks its shard at once), and `discard`, the
caller's choice, the `NullSink` of the census. A descent is abstracted to the
sequence of classes it emits and where `ctx` may cut it short.

**`CountPhase`** is `countTasks` over `Fanout`. The producer is the one that walks
`View.All` (`NextShard`, `NextRecord`, `Yield`), fills, registers and sends
batches (`Register`, `Send`, `AbandonSend`), handles the tail (`Tail_`), closes
and waits. Consumers receive until the channel is closed *and* empty, skip tasks
not begun when `ctx` has ended, fold, publish and complete. `consumers`,
`effectiveBatch`, `capacity` and `Slots` are the code's formulas. A task's
contribution is `none`, `partial` (a descent cut short) or `full`.

**`Monitor`** is the monitor under the orchestrator (`main`, `run`), the workers,
the reporter goroutine and a reader of snapshots. Counters are separate atomics
and `active` is a pointer, so each of a worker's two reports (`ReportSubtask`, then
`ReportTaskCompleted`) is a load and an add, `BeginPhase` is a record and a
publication, a live line is three loads and a print, and a snapshot (`Totals`) one
load per counter and phase with `phasesMu` held. `verbose` tells the monitor that
prints from the silent one that is read back. `told` is what `main` prints after
its one look at `ctx`. Of the counters that `ReportSubtask` folds, one stands for all.

**`Eta`** is `estimateRemaining` with the width of `time.Duration` as a parameter.

**`Board`**, **`Symmetry`** and **`Pruner`** are the pure packages as operators,
parameterised by the size of the board. A mask is the set of its cells; the order
of masks as numbers, which decides canonical forms, is `Below`. A cut is a
predicate: which check fired only matters to the statistics. The union-find of the
write gate is modelled by what it decides, a cycle among the forced edges.

**`Suffixes`** walks backwards from the ends of tours: its reachable states are all
pairs of a cell and a set of cells that some path from the cell covers. That a cut
is sound then is an invariant, with no search inside it.

**`Pipeline`** is the whole count with these operators: gen A from the start groups
to the base depth, gen B to the split depth, counting with the early stop and the
table as memo (`completions`). Here a task is one step and the tasks are taken one
after the other, as with one worker; it is the data that this module is about, and
`GenPhase` and `CountPhase` show that with several workers every task is done once
and nothing that is emitted is lost. `CancelCounting` ends `ctx` inside a descent,
which then returns any part of what it would have found.

**`CommandLine`** is `parseArgs`: a function from the flags that are set to the
arguments of the run, and the predicate that accepts them. `Pipeline` takes its
split depths from it; `MCPipeline` gives the command lines.

**`CheckGate`** is gate G7 of the development plugin with the shell, `make check`,
`git` and other writers around it. `line` is the bash call in flight; `BeforePlain`
and `BeforeCommit` are the `before` hook letting it through (a blocked line changes
nothing and is no step), `Shell` executes it segment by segment, `After` takes the
stamp. The rest is history: `basis` is what the line's commits rest on, `quiet` and
`calm` say whether anybody has written since (others, or the line itself behind its
check), `skipped` that the shell has passed over a check, so that an exit code 0 is not
the check's. A stamp inherits `quiet` and `skipped`, and a line from the stamp that lets
it through. `MCCheckGate` enumerates the lines.

**`PoolRunProofs`**, **`CacheShardProofs`**, **`GenPhaseProofs`**,
**`CountPhaseProofs`**, **`MonitorProofs`**, **`CheckGateProofs`**, **`SuffixesProofs`**
and **`PipelineProofs`** hold the theorems about the modules they are named after; the
last one also those about `CommandLine`.

## Runs

| run | bounds | shows |
|---|---|---|
| `pool_run` | 3 workers, 4 indices | the properties of the crew; all of `Break`, cancellation and overshoot occur |
| `cache` | 3 masks, 5 classes (10 of all masks together), capacities 2, 4, 8, contributions of 1 and 2, sums up to 3 | tiling of the slab, never more blocks of a capacity than masks have needed at once, recycled blocks with old words in them, agreement of the two read paths, refinement of `Histogram` |
| `gen_phase` | 2 workers, 3 tasks, 3 classes in 2 shards, limit 2; table or discarding sink | no emission lost or added twice, the barrier, termination |
| `count_phase` | 2 consumers, 4 masks with 5 classes in 3 shards (one empty), batches of 2, one slot | accounting, progress, totals, return from `Fanout` |
| `monitor_phases` | 2 phases, 2 workers, 2 tasks each, verbose or silent | live lines, frozen phases, final report, growing snapshots, end of the reporter |
| `suffixes` | 4×4 board, all of its 13172 completable remainders | no cut and no gate drops a placement that has a completion; canonical classes: one per orbit, inside it, with its true size |
| `pipeline` | 5×5 board, the depth of every accepted command line, and 13 and 25 as direct calls; base depth 5 | the total is 1728 at every depth, never more when cancelled; every task's early stop counts what a full descent would; weights are whole orbits |
| `check_gate` | 1 path, 2 contents of which one passes, lines of up to 3 commands (check, commit, add with `&&`, `\|\|`, `;`, `\|`) and one that edits, 1 stamp | unless somebody wrote behind the check or the shell passed over it: a stamp is of a green tree; a commit rests on a green check and carries nothing that moved since |
| `count_dropped`, `monitor_late_line` | as above | statements of documents that the code does not keep, see below |
| `check_gate_gaps` | 3 contents of which one passes, 3 lines: `check`, `add \|\| check`, `edit && add && commit`; nobody else writes | a false-green commit, see below |
| `eta_wraps` | 9 bits, 60 time units, 12 tasks | the estimate wraps, see below |

Three workers are the fewest with a worker that is neither the one acting nor
the one it races with; the other crews have two because every race in them is
between two goroutines. Five classes cross the boundaries 1-2, 2-3 and 4-5, and
three masks let a block pass from one owner to another while a third stays. In
`count_phase` records, classes, batches and shards do not line up, and the single
slot makes every second send block. `MCClassesAscend` only removes renamings of
class tags: tags are compared for equality within one mask and nowhere ordered.
`MCOneSum` lets one slot at a time be added to twice, because sums and layout do
not depend on each other, and `MCClasses` bounds the classes of all masks together;
ten let one mask have five, another three and a third two, so that blocks of every
capacity pass from one mask to another.

In `check_gate` one path is enough because no condition of the gate relates two
paths, one tree because a stamp is a content without a root (a call in another tree
is a call after `MoveBetween`), one call at a time because a second call is to the
first one more writer (`MoveDuring`), and a single stamp makes every new one evict.
`||` stands in front of checks as well; where the shell then passes over a check the
history says so. Of three commands only those with a check before a commit and no pipe
before the last are taken, which keeps the run small; the theorem has every line.
`count_phase` has one table; tiny and empty ones are covered by its theorems, which hold
for every table.
`MaxWeight`, `MaxTasks`, `MaxElapsed` and `NumPhases` are the bounds on counters,
`MaxTodo` the one on the length of a suffix.

A 4×4 board is small enough for every remainder, and has chains, pinned ends and
dead ends. 5×5 is the program's default board: it has a fixed centre cell, an odd
colour that is skipped, and a number of tours that a test of the repository pins by
brute force. Its split depths are all that `parseArgs` accepts (1 to 12, with those up to
the base depth, where gen B passes entries through, and the default), 13, where counting no longer
stops early, and 25, where a task is a whole tour.

Deadlock checking is off in every run because all of these parts end; where
goroutines could wait for each other, that they end is a liveness property of the
run instead.

### Fairness

Every goroutine is weakly fair: the Go scheduler runs a runnable goroutine again
and again, and a loop body is a finite search. A goroutine waiting for a shard's
mutex is weakly fair too: each holder finishes its basket, and there are finitely
many baskets, so at some point the lock stays free until the waiter has it. The
monitor's reporter is strongly fair in taking `ctx.Done()`, because Go's `select`
chooses among ready cases at random, and its ticker is assumed to keep firing. The
orchestrator is strongly fair because it waits for `phasesMu`, which a reader of
snapshots may take again and again; Go's mutex hands itself to a waiter that
starves. The reader itself is weakly fair between `Lock` and `Unlock`. Nothing is
assumed to end `ctx`, and `CheckGate` has no fairness: it promises nothing will happen.

### What the code does not keep

* `monitor_late_line`: a live line can follow the final report (`monitor.go:172`).
* `count_dropped`: a cancelled counting phase that drops its tail can end at 100%
  (`counter.go:269`), because the tail is dropped before it is registered.
* `eta_wraps`: the estimate of a long phase overflows (`monitor.go:192`).
* `check_gate_gaps`: two statements about the gate at once. ADR-029
  (`specs/decisions/029-…:48-49`) says that v1's class of false-green commits is
  closed completely, since an edit of any kind between check and commit is noticed by
  its content; the tree is compared before a line runs, so `edit && add && commit` after
  a stamp passes. And `gates.ts:331-334` (`specs/gates.md:113-114`) says that there is no
  stamp without confirmation; the plugin looks at the separators behind a check only, so
  `add || check` is stamped although the shell passes over the check (`true || make check
  && git commit` is taken for self-gated in the same way, `gates.ts:340-350`). The
  property says that a commit let through by a stamp is of a passing tree, or that one
  of the two statements holds of it. In the run all three fail: the tree is stamped
  unchecked, then one line edits, stages and commits something else.

None of them changes a total.

## Proofs

`PoolRunProofs` proves, for every crew size and every `n`, each of `TypeOK`,
`HandedOncePrefix`, `ClaimedIsOwned`, `Barrier`, `LateClaimsBounded`,
`OvershootBounded` and `ImplementsWorkOnce`. The only assumption is
`PoolAssumption` (at least one worker, `n` an integer).

The invariant of the first group says that the handed-out indices are the prefix
below the cursor, that each is done or held by exactly one worker, that a worker
on its way out has a reason to be (`LeavesForAReason`), and that `returned`
implies that the crew is gone. `Barrier` alone is not inductive: that the last
worker finds everything done needs the second and the third part together. The
bounds on the cursor count the workers that are between their test of `ctx` and
their claim, or past their last claim; with each such claim one worker leaves that
set, which is what keeps the bound. The refinement maps an index to `todo`,
`active` or `done` and each step of the crew to a step of `WorkOnce` or a stutter.

`CacheShardProofs` proves, for every finite set of masks, every set of classes and
weights and every width of a word's fields (`ShardAssumption`), all that the run
`cache` checks: `TypeOK`, `BlocksTileSlab`, `ReadersAgree`, `BlocksAtPeak` and
`ImplementsHistogram`. The assumption is the writer contract of the source (classes
below 2^7 and at most `2^MaxLog` of them, sums below 2^wBits, as the guard of `Set`
keeps them below `MaxWeight`) and that the field of a reference has an address for
every block: the code checks neither. The invariant says that a stored word is a
pair or a reference to two classes or more (`Words`); that a referenced block lies in
the slab and its live slots hold pairs of different classes (`Distinct`), so that a
mask never has more classes than there are; that each slab position has exactly one
owner (`Tiled`); and that the slab has no more positions than addresses
(`Addressed`). The last needs a counting argument: a mask extends the slab at most
once per capacity, since its capacities only grow, so an injection maps the slab into
the masks times `1 .. 2^(MaxLog+1) - 2`. Without it a start would be truncated in its
reference, and the tiling is not inductive. That capacities are powers of two, two of
them a factor of two apart, is proved from the subsets of `1 .. n`, as there is no
induction. `AllocFacts` states what `allocBlock` returns, from a basket or fresh:
words nobody owns; `InWord`, `InBlock` and `Moved` are the three kinds of step. For
`BlocksAtPeak` the same steps are sorted by what they make of the blocks (`Layout`): only
a fresh block adds to those of a capacity, and the basket of that capacity is empty then
and stays so, because the block left behind has another one (`BlocksNext`). The
refinement compares the record of a mask, as `yieldRecord` streams it, with
`Added` of the record before, branch by branch of `add`.

`GenPhaseProofs` proves, for every crew, worklist, assignment of classes to shards,
set of descents and flush limit (`GenAssumption`), each of `TypeOK`,
`EmissionsConserved`, `BarrierSeesAll`, `CompleteRun` and `StagingBounded`, and that
a phase is a run of the pool (`PhaseIsARun`): its steps are steps of `PoolRun` or
leave the crew alone, so that the invariant of `PoolRunProofs` holds inside it and is
not proved again (`Crewed`). The rest of the invariant says
how far a worker can be inside its loop body (`Placed`); that a task emits its leaves
in order and has emitted all of them when its descent ends without `ctx`
(`Descending`), which is why a new emission is in no slot and in no staging; that who
adds to a shard holds its lock and nobody else does, so that the word it read is still
there when it writes it back (`Locked`); that an emission is in its slot or in one
staging (`Placewise`); that `pending` counts what is staged (`Bounded`); and that the
monitor's writes and those of the tasks at work are all emissions (`Booked`, with the
theorems on cardinality). Without `Locked` the write-back could overwrite a sum:
`EmissionsConserved` alone is not inductive.

`CountPhaseProofs` proves, for every sealed table, crew and setting of batches and
slots (`CountAssumption`: the masks are finitely many and in one shard each), each
of `TypeOK`, `TaskAccounted`, `RegisteredFirst`, `CompleteRun` and `TotalIsPublished`,
and `ImplementsWorkOnce`. The invariant follows a task on its way. `Walk` and `Stage`
say what the producer has ahead of it and what it has left behind, `Crew` what a
consumer holds; `Apart` that no two places hold the same task and none holds it twice,
which is what makes the walk of `All`, the batches and the channel add up; `Credits`
that only a task which a consumer has begun, or let go, is in the total, and that
without a cancellation none is nowhere; `Reports` which of the credited tasks are
published; `CompletedCount` and `Registers` that what is registered is what is
completed, sent, or in a consumer's hands, exactly so until something is skipped. The
refinement maps a task to `active` from its `BeginTask` to its `Complete`.

`MonitorProofs` proves, for every finite set of workers and every number of phases
and tasks (`MonitorAssumption`), `TypeOK`, `LineBelowFull`, `FinalReportComplete`,
`ClosedPhaseFrozen` and `SnapshotsGrow`. None of them is inductive. `Run` adds what the orchestrator
keeps in order: its position fixes the active phase (`Placed`), the newest phase is
open until the end (`LastOpen`), a worker that holds a phase pointer holds the active
one and the orchestrator is waiting for it (`Hands`), and the tasks of the phase at
work are those completed, those in a worker's hands and those ready (`Booked`; the
hands are counted, so the proof uses the theorems on cardinality). `LineBelowFull`
follows because the reporter loads `completed` first (`Reading`): what it read can
only be overtaken by the counter, which stays below `tasks`. `FinalReportComplete`
needs `Untold`: if `main` saw no cancellation when it looked, every phase had
completed all its tasks, and after that look nothing is counted any more.
`SnapshotsGrow` has an invariant of its own: what the reader has added up is exact
for the phases before the one it is in, and for the newest one between the last
snapshot and the present (`SnapSound`), and in no phase are there more completions
than folds (`Folded`, which counts the workers between their two reports). A total
over phases is a fold in the module; `FoldCounts` shows that it is the size of a set
of pairs, with which it can be split at any phase and compared.

`CheckGateProofs` proves, for every set of lines of any length, every tree and every
`StampLimit`, `TypeOK`, `StampsAreGreen` and `CommitsAttested`, whatever separators the
lines have. The only assumption is `CheckGateAssumption` (types). Both properties set
two cases apart, which `check_gate_gaps` shows to be real: a write behind the check and
a check passed over by the shell.
The invariant says what the shell's state has to do with the check: a check that
will succeed has read a passing tree (`RunningCheck`); unless a check was passed over,
what the line rests on was checked and the tree has not left it since, unless somebody
wrote (`BasisHolds`), and there is something to rest on behind a check whose success is
still the exit code (`CheckIsBasis`) and in a line with a commit that no check of its
own guards (`StampIsBasis`).

`SuffixesProofs` proves, for every board of 1 to 8 rows and suffixes of any length,
`VisitCutsSound`, `GateCutsSound` and `ClassIsCanonical`. The first two say that
necessary conditions are necessary, so their invariants describe the path that
exists. For the cuts after a visit (`Trailed`) it has a first cell and an end, and no
part of the remainder can be taken away that has no edge to the rest; every vertex of
degree one is the first cell or the end. For the gate (`Threaded`) it is a set of edges: at
most two at each cell, one at `cell` and one at the far end, and in every part of
it some edge has an end that no other has. The forced edges are among them, so the
union-find, which is the definition `HasCycle`, peels them all off. Canonical forms
need no invariant: the eight transforms are a group that acts on masks (`Undo`,
`Acts`), `Below` is a strict total order, the stabiliser of the mask moves the end
through the cells that share its class, and `OrbitStabilizer` counts. `ClassDecides`
(two placements have one class exactly if a transform carries one to the other),
`ClassSizes` and `StartGroups` say the same of all placements, not only of those with a
completion.

`PipelineProofs` proves, for every board of 1 to 8 rows and every split depth,
`TotalExact`, `ReversalExact` and `WholeOrbits`, the first from the hypothesis that
`KnownTours` is the number of tours, counted path by path without cuts or table
(`Tours`). The
argument is one about *values*. A table has a worth under a value of placements: the
sum, by weight, of the values of its entries. A value is carried by a descent
(`Carried`) if it is the same for symmetric placements, splits over the steps that are
not cut, and is 0 where the descents cut or the gate drops; then the classes a descent
writes have the worth of the placement it set out from (`Transfer`), so that what is
left to do and what is in the table have, together, the worth of the starts throughout
a phase (`GenerationA`, `GenerationB`), and that of one cell per start group is that of all
cells (`GroupSums`). Three kinds of values are used. The number of tours below a placement gives
the total. The number of ways in which a placement leads to the class of a given one,
provided that one can be completed (`Leads`), gives the content of one slot; as the
paths through each level of the board are the same number (`FlowEven`), the table holds
for every such class its paths times the size of its orbit (`Complete`). A cut never
matters to these values because `SuffixesProofs` shows that what is cut has no
completion, and a skipped colour because of `Skipped`. A path over the rest of the
board, read backwards, is one that the table has counted, so a lookup divided by the
size of its orbit is the number of ways to continue (`Reversal`), and an early stop
counts what the descent to the full board would (`NextCount`). For `WholeOrbits`,
where no tour may pass through the class, the third value is the number of ways in which
the descents themselves, cuts and gate included, come to a class (`Kept`). It is a
carried value because the cuts, the gate and the colour rule treat a placement and its
images alike (`AfterVisitMove`, `GatesMove`, `SkipMoves`; for the gate the symmetry goes
down to the forced edges and their cycles). It is a sum over the placements of the class
(`KeptJoin`), each of which has the same share (`KeptSame`), so the weight is a multiple of
the size of the orbit, and no more than when nothing is cut (`KeptBelow`). The same module shows
that the table of default depths never runs into the bound that `parseArgs` puts on
depths, and that every accepted command line splits the board so that counting reads
the table.

A recursive definition of a module is a recursive function there, and a function that
solves the equation is all that the prover knows of it. Where a solution can be
written down (what is left of the edges, what has been reached, a sum) the proofs
exhibit it, and show by the smallest counterexample that every solution is that one.

Only model-checked: what needs fairness (`Terminates`, `ReporterStops`), which is
beyond the prover. Every other property of the passing runs is a theorem.

## Not modelled

* The hash of `shardIndex` (any assignment of masks to shards will do), widths
  of 56 and 7 bits (smaller fields instead), Go's slice growth.
* The text of the reports, the counters that are plain sums (prune reasons, cache
  hits and misses among them), the syntax of flags, which is package `flag`'s.
* Boards of more than 25 cells: the algorithm's modules take any size, the runs do not.
* Of the gates, G9 to G11 keep no state between calls, G8 (a set of worktrees) and
  G12 are left out; of G7 the auto-commit subcommands, quoting, `&` and the
  resolution of roots.
* The benchmark and extrapolation scripts, which only report.
* Two pipelines in one process, which share the GC percent: the source accepts the
  race in a comment and the program never starts a second one.

## Plan

The order was: the crew and its proofs, the table, the generation phase, the
counting phase, the monitor with snapshots and its proofs, the algorithm and its
pipeline, the command line, the commit gate and its proofs, the proofs of the
two phases, those of the table, of the cuts, of the canonical forms, of the total and
of the whole orbits. What is left:

1. An abstract specification of a phase that both `GenPhase` and the steps of
   `Pipeline` implement, to tie the task-at-a-time pipeline to the crews.
2. The scope of the GC percent with two pipelines in one process, and gate G8.
