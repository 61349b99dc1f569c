------------------------------- MODULE Monitor -------------------------------
(***************************************************************************)
(* monitoring.monitor under its four kinds of callers: the orchestrating   *)
(* goroutine (Start, BeginPhase per phase, AddTasks before it hands tasks  *)
(* over, Finish), the workers of a phase (ReportSubtask, then              *)
(* ReportTaskCompleted), the reporter goroutine that a verbose Start       *)
(* spawns (loop), and a reader of snapshots (Totals).  Counters are        *)
(* separate atomics and the active phase is an atomic pointer, so a live   *)
(* line and a snapshot are read in several steps while everybody else      *)
(* moves.  Of the counters that ReportSubtask folds, subtasks stands for   *)
(* all: the others are added after it and read after it in the same way.   *)
(***************************************************************************)
EXTENDS Integers, Sequences, FiniteSets, Functions

CONSTANTS
    Worker,       \* goroutines that report
    NumPhases,    \* phases of the run: gen A, gen B, counting
    MaxTasks      \* bound: tasks registered per phase

ASSUME MonitorAssumption ==
    IsFiniteSet(Worker) /\ NumPhases \in Nat \ {0} /\ MaxTasks \in Nat

VARIABLES
    verbose,     \* RealMonitor or FakeMonitor; never changed
    phases,      \* m.phases: counters, and whether endTime is set
    active,      \* m.active: index into phases, 0 for nil
    started,     \* m.started
    cancelled,   \* the ctx given to Start has ended
    main,        \* where the orchestrator is
    job,         \* what each worker is at, and the phase pointer it has loaded
    ready,       \* tasks registered and not yet taken by a worker
    reported,    \* history: completions reported by the workers, per phase
    rep,         \* the reporter goroutine
    snap,        \* the snapshot being read; phasesMu is held meanwhile
    shown,       \* history: the last snapshot returned
    told,        \* history: main has printed that its run was interrupted
    line,        \* history: the last live line, NoLine before the first
    final,       \* history: what the final report printed, << >> before it
    lateLine     \* history: the reporter printed a live line after the final report

runVars == <<phases, active, started, main, job, ready, reported>>
snapVars == <<snap, shown>>
outVars == <<told, line, final, lateLine>>
sideVars == <<verbose, cancelled, rep, snapVars, outVars>>   \* not the run's own
vars == <<runVars, sideVars>>

Last == Len(phases)
Counters(p) == [completed |-> phases[p].completed, tasks |-> phases[p].tasks]
NoLine == [completed |-> 0, tasks |-> 0]
Idle == [at |-> "idle", ph |-> 0]
Counter == {"tasks", "completed", "subtasks"}
NoCounts == [c \in Counter |-> 0]
NewPhase == [tasks |-> 0, completed |-> 0, subtasks |-> 0, endTime |-> "zero"]

Phase == [tasks : 0 .. MaxTasks, completed : Nat, subtasks : Nat, endTime : {"zero", "set"}]

TypeOK ==
    /\ verbose \in BOOLEAN
    /\ phases \in Seq(Phase)
    /\ Last <= NumPhases /\ active \in 0 .. Last
    /\ started \in BOOLEAN /\ cancelled \in BOOLEAN
    /\ main \in {"start", "begin", "publish", "work", "returned", "finish", "lastLine", "report", "over"}
    /\ job \in [Worker -> [at : {"idle", "subtask", "between", "complete"}, ph : 0 .. NumPhases]]
    /\ ready \in Nat
    /\ reported \in [1 .. NumPhases -> Nat]
    /\ rep \in [at : {"off", "select", "tick", "done", "active", "first", "second",
                      "print", "exit"},
                via : {"tick", "done"}, ph : 0 .. NumPhases, completed : Nat, tasks : Nat]
    /\ snap \in [ph : 0 .. NumPhases, field : 1 .. 3, sum : [Counter -> Nat]]
    /\ shown \in [Counter -> Nat]
    /\ told \in BOOLEAN /\ line \in [completed : Nat, tasks : Nat]
    /\ final = << >> \/ Len(final) = NumPhases
    /\ lateLine \in BOOLEAN

NoSnapshot == [ph |-> 0, field |-> 1, sum |-> NoCounts]

Init ==
    /\ verbose \in BOOLEAN
    /\ phases = << >> /\ active = 0
    /\ started = FALSE /\ cancelled = FALSE
    /\ main = "start"
    /\ job = [w \in Worker |-> Idle]
    /\ ready = 0
    /\ reported = [p \in 1 .. NumPhases |-> 0]
    /\ rep = [at |-> "off", via |-> "tick", ph |-> 0, completed |-> 0, tasks |-> 0]
    /\ snap = NoSnapshot /\ shown = NoCounts
    /\ told = FALSE /\ line = NoLine /\ final = << >> /\ lateLine = FALSE

(* External: a signal ends the ctx of the run. *)
Cancel ==
    /\ ~cancelled
    /\ cancelled' = TRUE
    /\ UNCHANGED <<runVars, verbose, rep, snapVars, outVars>>

MuFree == snap.ph = 0   \* m.phasesMu: the other holders are single steps here
-----------------------------------------------------------------------------
(* The orchestrator. *)

Start ==
    /\ main = "start"
    /\ started' = TRUE
    /\ rep' = IF verbose THEN [rep EXCEPT !.at = "select"] ELSE rep
    /\ main' = "begin"
    /\ UNCHANGED <<phases, active, job, ready, reported, verbose, cancelled, snapVars, outVars>>

(* BeginPhase under phasesMu: the previous phase ends, a new one is        *)
(* recorded.  The reporter still sees the old one until the Store.         *)
ClosePhase(p) == [phases[p] EXCEPT !.endTime = "set"]

BeginPhase ==
    /\ main = "begin" /\ MuFree
    /\ phases' = Append([p \in 1 .. Last |-> IF p = active THEN ClosePhase(p) ELSE phases[p]],
                        NewPhase)
    /\ main' = "publish"
    /\ UNCHANGED <<active, started, job, ready, reported, sideVars>>

NewestOffByOne == Last + 1   \* mutant
Newest == Last

PublishPhase ==   \* m.active.Store(ph)
    /\ main = "publish"
    /\ active' = Newest
    /\ main' = "work"
    /\ UNCHANGED <<phases, started, job, ready, reported, sideVars>>

(* The phase's crew returns to the orchestrator only with every worker     *)
(* gone (workerpool); a cancelled phase leaves registered tasks behind.    *)
CrewReturnedEarly == ready = 0   \* mutant: no barrier behind the workers
CrewReturned ==
    /\ \A w \in Worker : job[w] = Idle
    /\ ready = 0 \/ cancelled

AddTasks ==   \* before the tasks are handed to the crew
    /\ main = "work" /\ phases[active].tasks < MaxTasks
    /\ phases' = [phases EXCEPT ![active].tasks = @ + 1]
    /\ ready' = ready + 1
    /\ UNCHANGED <<active, started, main, job, reported, sideVars>>

EndPhase ==
    /\ main = "work"
    /\ CrewReturned
    /\ ready' = 0
    /\ main' = IF Last < NumPhases THEN "begin" ELSE "returned"
    /\ UNCHANGED <<phases, active, started, job, reported, sideVars>>

(* main looks at ctx once, after run has returned.  Its deferred Finish    *)
(* follows.                                                                *)
TellInterrupted ==
    /\ main = "returned"
    /\ told' = cancelled
    /\ main' = "finish"
    /\ UNCHANGED <<phases, active, started, job, ready, reported, verbose, cancelled, rep,
                   snapVars, line, final, lateLine>>

FinishSwap ==   \* if !m.started.Swap(false) { return }
    /\ main = "finish"
    /\ started' = FALSE
    /\ main' = IF started THEN "lastLine" ELSE "over"
    /\ UNCHANGED <<phases, active, job, ready, reported, sideVars>>

FinishLine ==   \* m.report() of Finish itself
    /\ main = "lastLine"
    /\ line' = IF verbose THEN Counters(active) ELSE line
    /\ main' = "report"
    /\ UNCHANGED <<phases, active, started, job, ready, reported, verbose, cancelled, rep,
                   snapVars, told, final, lateLine>>

FinishReport ==   \* under phasesMu: the active phase ends, then the final report
    /\ main = "report" /\ MuFree
    /\ phases' = [phases EXCEPT ![active] = ClosePhase(active)]
    /\ final' = IF verbose THEN [p \in 1 .. Last |-> Counters(p)] ELSE final
    /\ main' = "over"
    /\ UNCHANGED <<active, started, job, ready, reported, verbose, cancelled, rep, snapVars,
                   told, line, lateLine>>

Orchestrator ==
    Start \/ BeginPhase \/ PublishPhase \/ AddTasks \/ EndPhase
    \/ TellInterrupted \/ FinishSwap \/ FinishLine \/ FinishReport
-----------------------------------------------------------------------------
(* The workers.  Each report loads the active pointer, then adds.          *)
WorkerAt(w, where) == job' = [job EXCEPT ![w] = [at |-> where, ph |-> active]]

TakeTask(w) ==   \* the task is done, ReportSubtask begins
    /\ main = "work" /\ job[w] = Idle /\ ready > 0
    /\ ready' = ready - 1
    /\ WorkerAt(w, "subtask")
    /\ UNCHANGED <<phases, active, started, main, reported, sideVars>>

ReportSubtask(w) ==
    /\ job[w].at = "subtask"
    /\ phases' = [phases EXCEPT ![job[w].ph].subtasks = @ + 1]
    /\ job' = [job EXCEPT ![w].at = "between"]
    /\ UNCHANGED <<active, started, main, ready, reported, sideVars>>

LoadPhase(w) ==
    /\ job[w].at = "between"
    /\ WorkerAt(w, "complete")
    /\ UNCHANGED <<phases, active, started, main, ready, reported, sideVars>>

ReportTaskCompleted(w) ==
    /\ job[w].at = "complete"
    /\ phases' = [phases EXCEPT ![job[w].ph].completed = @ + 1]
    /\ reported' = [reported EXCEPT ![job[w].ph] = @ + 1]
    /\ job' = [job EXCEPT ![w] = Idle]
    /\ UNCHANGED <<active, started, main, ready, sideVars>>

Work(w) == TakeTask(w) \/ ReportSubtask(w) \/ LoadPhase(w) \/ ReportTaskCompleted(w)
-----------------------------------------------------------------------------
(* The reporter goroutine: loop and report. *)
RepGoTo(where) == rep' = [rep EXCEPT !.at = where]
ReporterOnly == UNCHANGED <<runVars, verbose, cancelled, snapVars, outVars>>

TickerFires ==   \* case <-ticker.C
    /\ rep.at = "select"
    /\ RepGoTo("tick")
    /\ ReporterOnly

CtxDone ==   \* case <-ctx.Done()
    /\ rep.at = "select" /\ cancelled
    /\ RepGoTo("done")
    /\ ReporterOnly

(* Either way the reporter goes on only while started, and after ctx's end *)
(* it prints at most one more line.                                        *)
StaysAlways == TRUE   \* mutant: the tick does not look at started
Stays == started

LookStarted ==
    /\ rep.at \in {"tick", "done"}
    /\ rep' = [rep EXCEPT !.at = IF Stays THEN "active" ELSE "exit", !.via = rep.at]
    /\ ReporterOnly

AfterLine == IF rep.via = "done" THEN "exit" ELSE "select"

LoadActive ==
    /\ rep.at = "active"
    /\ rep' = [rep EXCEPT !.at = IF active = 0 THEN AfterLine ELSE "first", !.ph = active]
    /\ ReporterOnly

(* report loads completed before tasks. *)
LineReadsSwapped == <<"tasks", "completed">>   \* mutant
LineReads == <<"completed", "tasks">>

FirstLoad ==
    /\ rep.at = "first"
    /\ rep' = [rep EXCEPT !.at = "second", ![LineReads[1]] = phases[rep.ph][LineReads[1]]]
    /\ ReporterOnly

SecondLoad ==
    /\ rep.at = "second"
    /\ rep' = [rep EXCEPT !.at = "print", ![LineReads[2]] = phases[rep.ph][LineReads[2]]]
    /\ ReporterOnly

PrintLine ==
    /\ rep.at = "print"
    /\ line' = [completed |-> rep.completed, tasks |-> rep.tasks]
    /\ lateLine' = (lateLine \/ final # << >>)
    /\ RepGoTo(AfterLine)
    /\ UNCHANGED <<runVars, verbose, cancelled, snapVars, told, final>>

Reporter ==
    TickerFires \/ CtxDone \/ LookStarted \/ LoadActive \/ FirstLoad \/ SecondLoad
    \/ PrintLine
-----------------------------------------------------------------------------
(* Totals, and Phase for the phases of one name: phasesMu is held while    *)
(* the counters of one phase after the other are added up (add).  It is    *)
(* the silent FakeMonitor that is read back so, the RealMonitor prints.    *)
SnapReadsSwapped == <<"tasks", "subtasks", "completed">>   \* mutant
SnapReads == <<"tasks", "completed", "subtasks">>

SnapshotOnly == UNCHANGED <<runVars, verbose, cancelled, rep, outVars>>

LockPhases ==   \* m.phasesMu.Lock()
    /\ ~verbose /\ MuFree /\ Last > 0
    /\ snap' = [NoSnapshot EXCEPT !.ph = 1]
    /\ UNCHANGED shown
    /\ SnapshotOnly

SnapLoad ==   \* one Load of add; the last one also unlocks and returns
    LET f == SnapReads[snap.field]
        sum == [snap.sum EXCEPT ![f] = @ + phases[snap.ph][f]]
    IN
    /\ snap.ph > 0
    /\ IF snap.field < Len(SnapReads)
       THEN snap' = [snap EXCEPT !.sum = sum, !.field = @ + 1] /\ UNCHANGED shown
       ELSE IF snap.ph < Last
       THEN snap' = [snap EXCEPT !.sum = sum, !.field = 1, !.ph = @ + 1] /\ UNCHANGED shown
       ELSE snap' = NoSnapshot /\ shown' = sum
    /\ SnapshotOnly

Reader == LockPhases \/ SnapLoad

Next == Cancel \/ Orchestrator \/ Reporter \/ Reader \/ \E w \in Worker : Work(w)

Spec == Init /\ [][Next]_vars

(* The orchestrator and the workers keep running and a phase ends (the     *)
(* other modules show it), a mutex is handed on; the ticker keeps firing;  *)
(* a select that finds ctx.Done() ready again and again takes it some      *)
(* time, because Go chooses among ready cases at random.                   *)
FairSpec ==
    /\ Spec
    /\ SF_vars(Orchestrator)
    /\ \A w \in Worker : WF_vars(Work(w))
    /\ WF_vars(Reporter) /\ SF_vars(CtxDone) /\ WF_vars(SnapLoad)
-----------------------------------------------------------------------------
(* "progress never exceeds 100%" for what the user sees (counter.go:265,   *)
(* specs/monitoring.md:76-79): although a line is put together from two    *)
(* counters read at different moments.                                     *)
LineBelowFull == line.completed <= line.tasks /\ (rep.at = "print" => rep.completed <= rep.tasks)

(* "switching the active phase never races with worker reports"            *)
(* (monitor.go:66-68): the counters of a closed phase are never touched    *)
(* again, and no phase is ever dropped or reopened.                        *)
ClosedPhaseFrozen ==
    [][\A p \in 1 .. Last :
          /\ p \in DOMAIN phases'
          /\ phases[p].endTime = "set" => phases'[p] = phases[p]]_vars

(* The final report shows every phase with all that its workers reported,  *)
(* and every phase at exactly 100% unless main has told before that the    *)
(* run was interrupted (monitor.go:295-321, main.go:95-100).               *)
FinalReportComplete ==
    final # << >> =>
        /\ Len(final) = NumPhases
        /\ \A p \in 1 .. NumPhases :
              /\ final[p] = Counters(p) /\ final[p].completed = reported[p]
              /\ ~told => final[p].completed = final[p].tasks

(* A snapshot taken at any moment of a run ("additive and never reset",    *)
(* specs/monitoring.md): it never shows less than the one before, whatever *)
(* phases began and ended in between, never more than was reported, and    *)
(* no completed task without its statistics, because a worker folds them   *)
(* in first and the snapshot reads them last.  Registered tasks it reads   *)
(* first of all, so against them completed may run ahead.                  *)
TotalOf(c) == FoldFunction(LAMBDA a, b : a + b, 0, [p \in 1 .. Last |-> phases[p][c]])

SnapshotsGrow ==
    [][shown' # shown =>
          /\ \A c \in Counter : shown[c] <= shown'[c] /\ shown'[c] <= TotalOf(c)
          /\ shown'.completed <= shown'.subtasks]_vars

(* "the end of ctx stops the monitoring goroutine" (specs/monitoring.md),  *)
(* and so does Finish, at the next tick.                                   *)
ReporterStops == (cancelled /\ started) \/ main = "over" ~> rep.at \in {"off", "exit"}

-----------------------------------------------------------------------------
(* What the comment in loop says of the two ways out of a run: after       *)
(* Finish has printed the final report no live line follows it.            *)
NothingAfterFinalReport == ~lateLine
=============================================================================
