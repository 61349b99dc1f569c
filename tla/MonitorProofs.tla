---------------------------- MODULE MonitorProofs ----------------------------
(* The monitor's promises for any finite set of workers, any number of     *)
(* phases and of tasks, and an interruption at any moment.                 *)
EXTENDS Monitor, FiniteSetTheorems, FunctionTheorems, WellFoundedInduction, TLAPS

(* Where the orchestrator is says which phase is active and which of its   *)
(* entries is still open.                                                  *)
Placed ==
    /\ active = IF main = "publish" THEN Last - 1 ELSE Last
    /\ main = "start" => Last = 0
    /\ main = "begin" => Last < NumPhases
    /\ main \in {"publish", "work"} => Last >= 1
    /\ main \in {"returned", "finish", "lastLine", "report", "over"} => Last = NumPhases
    /\ main \in {"begin", "publish", "work", "returned", "finish"} => started

LastOpen == Last > 0 /\ main # "over" => phases[Last].endTime = "zero"

(* A worker between its loads and its adds is inside the phase it loaded.  *)
Hands ==
    /\ \A w \in Worker : job[w] # Idle => main = "work" /\ job[w].ph = active
    /\ main # "work" => ready = 0

(* Every registered task of the phase at work is completed, in a worker's  *)
(* hands or ready; a phase that has ended has completed its tasks, unless  *)
(* ctx ended.  This is what makes LineBelowFull inductive.                 *)
InHand == {w \in Worker : job[w] # Idle}

Booked(p) ==
    IF main = "work" /\ p = active
    THEN phases[p].tasks = phases[p].completed + Cardinality(InHand) + ready
    ELSE /\ phases[p].completed <= phases[p].tasks
         /\ ~cancelled => phases[p].completed = phases[p].tasks

AllBooked == \A p \in 1 .. Last : Booked(p)

Reported == \A p \in 1 .. Last : reported[p] = phases[p].completed
NotYet == \A p \in 1 .. NumPhases : p > Last => reported[p] = 0

(* What the reporter has read so far of the phase it has loaded.           *)
Reading ==
    /\ rep.at \in {"first", "second"} => rep.ph \in 1 .. Last
    /\ rep.at = "second" => rep.completed <= phases[rep.ph].completed

SnapBehind == snap.ph <= Last

(* Once main has looked at ctx nothing is counted any more.                *)
Untold ==
    main \in {"finish", "lastLine", "report", "over"} /\ ~told =>
        \A p \in 1 .. Last : phases[p].completed = phases[p].tasks

Printed == final # << >> => main = "over"

Fresh == main = "publish" => phases[Last].completed = phases[Last].tasks

Run == Placed /\ LastOpen /\ Fresh /\ Hands /\ AllBooked /\ Reported /\ NotYet
IInv == TypeOK /\ Run /\ Reading /\ SnapBehind /\ LineBelowFull /\ Untold /\ Printed /\ FinalReportComplete

-----------------------------------------------------------------------------
(* Phases and the sequence of phases under the updates of the actions.     *)
LEMMA PhaseFields ==
    ASSUME NEW ph \in Phase
    PROVE  /\ ph.tasks \in 0 .. MaxTasks /\ ph.tasks \in Nat
           /\ ph.completed \in Nat /\ ph.subtasks \in Nat
           /\ ph.endTime \in {"zero", "set"}
BY MonitorAssumption DEF Phase

LEMMA PhaseUpdates ==
    ASSUME NEW ph \in Phase
    PROVE  /\ [ph EXCEPT !.endTime = "set"] \in Phase
           /\ [ph EXCEPT !.subtasks = ph.subtasks + 1] \in Phase
           /\ [ph EXCEPT !.completed = ph.completed + 1] \in Phase
           /\ ph.tasks < MaxTasks => [ph EXCEPT !.tasks = ph.tasks + 1] \in Phase
BY MonitorAssumption DEF Phase

LEMMA NewPhaseType == NewPhase \in Phase
BY MonitorAssumption DEF NewPhase, Phase

LEMMA Updated ==
    ASSUME NEW S, NEW s \in Seq(S), NEW p \in 1 .. Len(s), NEW x \in S
    PROVE  /\ [s EXCEPT ![p] = x] \in Seq(S)
           /\ Len([s EXCEPT ![p] = x]) = Len(s)
           /\ [s EXCEPT ![p] = x][p] = x
           /\ \A q \in 1 .. Len(s) : q # p => [s EXCEPT ![p] = x][q] = s[q]
OBVIOUS

-----------------------------------------------------------------------------
LEMMA TypeInit == Init => TypeOK
<1> SUFFICES ASSUME Init
             PROVE  TypeOK
    OBVIOUS
<1>1. NoCounts \in [Counter -> Nat]
    BY DEF NoCounts
<1>2. NoSnapshot \in [ph : 0 .. NumPhases, field : 1 .. 3, sum : [Counter -> Nat]]
    BY <1>1, MonitorAssumption DEF NoSnapshot
<1>3. job \in [Worker -> [at : {"idle", "subtask", "between", "complete"}, ph : 0 .. NumPhases]]
    BY MonitorAssumption DEF Init, Idle
<1>4. phases \in Seq(Phase) /\ Last = 0
    BY DEF Init, Last
<1>5. /\ reported \in [1 .. NumPhases -> Nat]
      /\ rep \in [at : {"off", "select", "tick", "done", "active", "first", "second",
                        "print", "exit"},
                  via : {"tick", "done"}, ph : 0 .. NumPhases, completed : Nat, tasks : Nat]
    BY MonitorAssumption DEF Init
<1>6. verbose \in BOOLEAN /\ started \in BOOLEAN /\ cancelled \in BOOLEAN /\ told \in BOOLEAN /\ lateLine \in BOOLEAN
    BY Zenon DEF Init
<1>7. line \in [completed : Nat, tasks : Nat] /\ ready \in Nat /\ final = << >>
    BY DEF Init, NoLine
<1>8. active \in 0 .. Last /\ Last <= NumPhases
    BY <1>4, MonitorAssumption DEF Init
<1> QED
    BY <1>1, <1>2, <1>3, <1>4, <1>5, <1>6, <1>7, <1>8 DEF Init, TypeOK

(* One phase's counter moves, and nothing else of the run.                 *)
LEMMA OnePhaseMoves ==
    ASSUME TypeOK, NEW p \in 1 .. Last, NEW x \in Phase, phases' = [phases EXCEPT ![p] = x]
    PROVE  /\ phases' \in Seq(Phase) /\ Last' = Last /\ Last' <= NumPhases
           /\ phases'[p] = x /\ \A q \in 1 .. Last : q # p => phases'[q] = phases[q]
BY Updated DEF TypeOK, Last

LEMMA PhaseAt ==
    ASSUME TypeOK, NEW p \in 1 .. Last
    PROVE  phases[p] \in Phase
BY DEF TypeOK, Last

LEMMA HandsHoldPhase ==
    ASSUME TypeOK, Run, NEW w \in Worker, job[w] # Idle
    PROVE  /\ main = "work" /\ job[w].ph = active /\ active = Last
           /\ active \in 1 .. Last /\ phases[active] \in Phase
<1>1. main = "work" /\ job[w].ph = active /\ active = Last /\ Last >= 1
    BY DEF Run, Hands, Placed
<1>2. Last \in Nat
    BY DEF TypeOK, Last
<1>3. active \in 1 .. Last
    BY <1>1, <1>2
<1> QED
    BY <1>1, <1>3, PhaseAt

RepRec ==
    [at : {"off", "select", "tick", "done", "active", "first", "second", "print", "exit"},
     via : {"tick", "done"}, ph : 0 .. NumPhases, completed : Nat, tasks : Nat]
SnapRec == [ph : 0 .. NumPhases, field : 1 .. 3, sum : [Counter -> Nat]]

LEMMA SnapUpdates ==
    ASSUME NEW s \in SnapRec, NEW x \in [Counter -> Nat],
           NEW i \in 1 .. 3, NEW p \in 0 .. NumPhases
    PROVE  /\ [s EXCEPT !.sum = x, !.field = i] \in SnapRec
           /\ [s EXCEPT !.sum = x, !.field = i, !.ph = p] \in SnapRec
BY DEF SnapRec

LEMMA ReporterStep ==
    ASSUME TypeOK, ReporterOnly, rep' \in RepRec
    PROVE  TypeOK'
BY DEF TypeOK, ReporterOnly, RepRec, Last, runVars, snapVars, outVars

LEMMA SnapStep ==
    ASSUME TypeOK, SnapshotOnly, snap' \in SnapRec, shown' \in [Counter -> Nat]
    PROVE  TypeOK'
BY DEF TypeOK, SnapshotOnly, SnapRec, Last, runVars, outVars

LEMMA TypeNext == TypeOK /\ Run /\ Reading /\ SnapBehind /\ [Next]_vars => TypeOK'
<1> SUFFICES ASSUME TypeOK, Run, Reading, SnapBehind, [Next]_vars
             PROVE  TypeOK'
    OBVIOUS
<1> USE DEF runVars, snapVars, outVars, sideVars
<1>0. Last \in Nat /\ Last <= NumPhases /\ (Last > 0 => Last \in 1 .. Last)
    BY DEF TypeOK, Last
<1>1. CASE Cancel
    BY <1>1 DEF Cancel, TypeOK, Last
<1>2. CASE Start
    BY <1>2 DEF Start, TypeOK, Last
<1>3. CASE BeginPhase
    <2> DEFINE old == [p \in 1 .. Last |-> IF p = active THEN ClosePhase(p) ELSE phases[p]]
    <2>1. \A p \in 1 .. Last : old[p] \in Phase
        BY PhaseAt, PhaseUpdates DEF ClosePhase
    <2>2. old \in Seq(Phase) /\ Len(old) = Last
        BY <1>0, <2>1
    <2>3. phases' = Append(old, NewPhase)
        BY <1>3 DEF BeginPhase
    <2> HIDE DEF old
    <2>4. phases' \in Seq(Phase) /\ Last' = Last + 1
        BY <2>2, <2>3, NewPhaseType DEF Last
    <2>5. Last' <= NumPhases /\ active \in 0 .. Last'
        BY <1>0, <1>3, <2>4, MonitorAssumption DEF BeginPhase, Run, Placed, TypeOK
    <2> QED
        BY <1>3, <2>4, <2>5 DEF BeginPhase, TypeOK
<1>4. CASE PublishPhase
    BY <1>0, <1>4 DEF PublishPhase, Newest, TypeOK, Last
<1>5. CASE AddTasks
    <2>1. active \in 1 .. Last
        BY <1>0, <1>5 DEF AddTasks, Run, Placed
    <2>2. phases[active].tasks < MaxTasks
          /\ phases' = [phases EXCEPT ![active] = [phases[active] EXCEPT !.tasks = phases[active].tasks + 1]]
        BY <1>5 DEF AddTasks
    <2>3. phases' \in Seq(Phase) /\ Last' = Last
        BY <2>1, <2>2, PhaseAt, PhaseUpdates, OnePhaseMoves
    <2>4. ready' \in Nat
        BY <1>5 DEF AddTasks, TypeOK
    <2> QED
        BY <1>5, <2>3, <2>4 DEF AddTasks, TypeOK
<1>6. CASE EndPhase
    BY <1>6 DEF EndPhase, TypeOK, Last
<1>7. CASE TellInterrupted
    BY <1>7 DEF TellInterrupted, TypeOK, Last
<1>8. CASE FinishSwap
    BY <1>8 DEF FinishSwap, TypeOK, Last
<1>9. CASE FinishLine
    <2>1. active \in 1 .. Last
        BY <1>0, <1>9, MonitorAssumption DEF FinishLine, Run, Placed
    <2>2. Counters(active) \in [completed : Nat, tasks : Nat]
        BY <2>1, PhaseAt, PhaseFields DEF Counters
    <2>3. line' \in [completed : Nat, tasks : Nat]
        BY <1>9, <2>2 DEF FinishLine, TypeOK
    <2> QED
        BY <1>9, <2>3 DEF FinishLine, TypeOK, Last
<1>10. CASE FinishReport
    <2>1. active \in 1 .. Last /\ Last = NumPhases
        BY <1>0, <1>10, MonitorAssumption DEF FinishReport, Run, Placed
    <2>2. phases' \in Seq(Phase) /\ Last' = Last
        BY <1>10, <2>1, PhaseAt, PhaseUpdates, OnePhaseMoves DEF FinishReport, ClosePhase
    <2>3. final' = << >> \/ Len(final') = NumPhases
        BY <1>0, <1>10, <2>1 DEF FinishReport, TypeOK
    <2> QED
        BY <1>10, <2>2, <2>3 DEF FinishReport, TypeOK
<1>11. ASSUME NEW w \in Worker, TakeTask(w)
       PROVE  TypeOK'
    <2>1. active \in 0 .. NumPhases
        BY <1>0, MonitorAssumption DEF TypeOK
    <2>2. job' \in [Worker -> [at : {"idle", "subtask", "between", "complete"}, ph : 0 .. NumPhases]]
        BY <1>11, <2>1 DEF TakeTask, WorkerAt, TypeOK
    <2> QED
        BY <1>11, <2>2 DEF TakeTask, TypeOK, Last
<1>12. ASSUME NEW w \in Worker, ReportSubtask(w)
       PROVE  TypeOK'
    <2>1. job[w] # Idle
        BY <1>12 DEF ReportSubtask, Idle
    <2>2. phases' = [phases EXCEPT ![active] = [phases[active] EXCEPT !.subtasks = phases[active].subtasks + 1]]
        BY <1>12, <2>1, HandsHoldPhase DEF ReportSubtask
    <2>3. phases' \in Seq(Phase) /\ Last' = Last
        BY <2>1, <2>2, HandsHoldPhase, PhaseUpdates, OnePhaseMoves
    <2>4. job' \in [Worker -> [at : {"idle", "subtask", "between", "complete"}, ph : 0 .. NumPhases]]
        BY <1>12 DEF ReportSubtask, TypeOK
    <2> QED
        BY <1>12, <2>3, <2>4 DEF ReportSubtask, TypeOK
<1>13. ASSUME NEW w \in Worker, LoadPhase(w)
       PROVE  TypeOK'
    <2>1. active \in 0 .. NumPhases
        BY <1>0, MonitorAssumption DEF TypeOK
    <2>2. job' \in [Worker -> [at : {"idle", "subtask", "between", "complete"}, ph : 0 .. NumPhases]]
        BY <1>13, <2>1 DEF LoadPhase, WorkerAt, TypeOK
    <2> QED
        BY <1>13, <2>2 DEF LoadPhase, TypeOK, Last
<1>14. ASSUME NEW w \in Worker, ReportTaskCompleted(w)
       PROVE  TypeOK'
    <2>1. job[w] # Idle
        BY <1>14 DEF ReportTaskCompleted, Idle
    <2>2. phases' = [phases EXCEPT ![active] = [phases[active] EXCEPT !.completed = phases[active].completed + 1]]
        BY <1>14, <2>1, HandsHoldPhase DEF ReportTaskCompleted
    <2>3. phases' \in Seq(Phase) /\ Last' = Last
        BY <2>1, <2>2, HandsHoldPhase, PhaseUpdates, OnePhaseMoves
    <2>4. job' \in [Worker -> [at : {"idle", "subtask", "between", "complete"}, ph : 0 .. NumPhases]]
        BY <1>14, MonitorAssumption DEF ReportTaskCompleted, TypeOK, Idle
    <2>5. job[w].ph \in 1 .. NumPhases
        BY <1>0, <2>1, HandsHoldPhase
    <2>6. reported' \in [1 .. NumPhases -> Nat]
        BY <1>14, <2>5 DEF ReportTaskCompleted, TypeOK
    <2> QED
        BY <1>14, <2>3, <2>4, <2>6 DEF ReportTaskCompleted, TypeOK
<1>15. CASE TickerFires \/ CtxDone \/ LookStarted
    <2>1. rep' \in RepRec
        BY <1>15 DEF TickerFires, CtxDone, LookStarted, RepGoTo, RepRec, TypeOK
    <2> QED
        BY <1>15, <2>1, ReporterStep DEF TickerFires, CtxDone, LookStarted
<1>16. CASE LoadActive
    <2>1. active \in 0 .. NumPhases
        BY <1>0, MonitorAssumption DEF TypeOK
    <2> QED
        BY <1>16, <2>1 DEF LoadActive, AfterLine, ReporterOnly, TypeOK, Last
<1>17. CASE FirstLoad
    <2>1. phases[rep.ph] \in Phase /\ LineReads[1] = "completed"
        BY <1>17, PhaseAt DEF FirstLoad, Reading, LineReads
    <2>2. phases[rep.ph].completed \in Nat
        BY <2>1, PhaseFields
    <2> QED
        BY <1>17, <2>1, <2>2 DEF FirstLoad, ReporterOnly, TypeOK, Last
<1>18. CASE SecondLoad
    <2>1. phases[rep.ph] \in Phase /\ LineReads[2] = "tasks"
        BY <1>18, PhaseAt DEF SecondLoad, Reading, LineReads
    <2>2. phases[rep.ph].tasks \in Nat
        BY <2>1, PhaseFields
    <2> QED
        BY <1>18, <2>1, <2>2 DEF SecondLoad, ReporterOnly, TypeOK, Last
<1>19. CASE PrintLine
    <2>1. line' \in [completed : Nat, tasks : Nat]
        BY <1>19 DEF PrintLine, TypeOK
    <2>2. lateLine' \in BOOLEAN
        BY Zenon, <1>19 DEF PrintLine, TypeOK
    <2> QED
        BY <1>19, <2>1, <2>2 DEF PrintLine, RepGoTo, AfterLine, TypeOK, Last
<1>20. CASE LockPhases
    <2>1. snap' \in [ph : 0 .. NumPhases, field : 1 .. 3, sum : [Counter -> Nat]]
        BY <1>20, MonitorAssumption DEF LockPhases, NoSnapshot, NoCounts
    <2> QED
        BY <1>20, <2>1, SnapStep DEF LockPhases, SnapRec, TypeOK
<1>21. CASE SnapLoad
    <2> DEFINE f == SnapReads[snap.field]
               sum == [snap.sum EXCEPT ![f] = @ + phases[snap.ph][f]]
    <2>1. snap.field \in 1 .. 3 /\ snap.sum \in [Counter -> Nat] /\ Len(SnapReads) = 3
        BY DEF TypeOK, SnapReads
    <2>2. f \in Counter
        BY <2>1 DEF SnapReads, Counter
    <2>3. phases[snap.ph] \in Phase
        BY <1>21, PhaseAt DEF SnapLoad, TypeOK, SnapBehind
    <2>4. phases[snap.ph][f] \in Nat
        BY <2>2, <2>3, PhaseFields DEF Counter
    <2>5. sum \in [Counter -> Nat]
        BY <2>1, <2>2, <2>4
    <2> HIDE DEF f, sum
    <2>6. snap.ph < Last => snap.ph + 1 \in 0 .. NumPhases
        BY <1>0, MonitorAssumption DEF TypeOK
    <2>7. snap' \in SnapRec /\ shown' \in [Counter -> Nat]
        <3>1. NoSnapshot \in SnapRec
            BY MonitorAssumption DEF NoSnapshot, NoCounts, SnapRec
        <3>2. snap \in SnapRec /\ shown \in [Counter -> Nat]
            BY DEF TypeOK, SnapRec
        <3>3. snap.field < Len(SnapReads) => [snap EXCEPT !.sum = sum, !.field = @ + 1] \in SnapRec
            <4>1. snap.field < Len(SnapReads) => snap.field + 1 \in 1 .. 3
                BY <2>1
            <4>2. snap.ph \in 0 .. NumPhases
                BY DEF TypeOK
            <4> QED
                BY <2>5, <3>2, <4>1, <4>2, SnapUpdates
        <3>4. snap.ph < Last => [snap EXCEPT !.sum = sum, !.field = 1, !.ph = @ + 1] \in SnapRec
            <4>1. 1 \in 1 .. 3
                OBVIOUS
            <4> QED
                BY <2>5, <2>6, <3>2, <4>1, SnapUpdates
        <3>5. \/ snap.field < Len(SnapReads) /\ snap' = [snap EXCEPT !.sum = sum, !.field = @ + 1] /\ shown' = shown
              \/ snap.ph < Last /\ snap' = [snap EXCEPT !.sum = sum, !.field = 1, !.ph = @ + 1] /\ shown' = shown
              \/ snap' = NoSnapshot /\ shown' = sum
            BY <1>21 DEF SnapLoad, f, sum
        <3> QED
            BY <2>5, <3>1, <3>2, <3>3, <3>4, <3>5
    <2>8. SnapshotOnly
        BY <1>21 DEF SnapLoad
    <2> QED
        BY <2>7, <2>8, SnapStep
<1>22. CASE UNCHANGED vars
    BY <1>22 DEF vars, TypeOK, Last
<1> QED
    BY <1>1, <1>2, <1>3, <1>4, <1>5, <1>6, <1>7, <1>8, <1>9, <1>10, <1>11, <1>12, <1>13,
       <1>14, <1>15, <1>16, <1>17, <1>18, <1>19, <1>20, <1>21, <1>22
    DEF Next, Orchestrator, Work, Reporter, Reader

-----------------------------------------------------------------------------
(* How the set of tasks in hand follows the jobs.                          *)
LEMMA InHandCount == IsFiniteSet(InHand) /\ Cardinality(InHand) \in Nat
BY FS_Subset, FS_CardinalityType, MonitorAssumption DEF InHand

LEMMA HandTakes ==
    ASSUME TypeOK, NEW w \in Worker, job[w] = Idle, NEW x, x # Idle, job' = [job EXCEPT ![w] = x]
    PROVE  Cardinality(InHand') = Cardinality(InHand) + 1
<1>1. InHand' = InHand \cup {w} /\ w \notin InHand
    BY DEF TypeOK, InHand
<1> QED
    BY <1>1, InHandCount, FS_AddElement

LEMMA HandKeeps ==
    ASSUME TypeOK, NEW w \in Worker, job[w] # Idle, NEW x, x # Idle, job' = [job EXCEPT ![w] = x]
    PROVE  InHand' = InHand
BY DEF TypeOK, InHand

LEMMA HandPuts ==
    ASSUME TypeOK, NEW w \in Worker, job[w] # Idle, job' = [job EXCEPT ![w] = Idle]
    PROVE  Cardinality(InHand) = Cardinality(InHand') + 1
<1>1. InHand' = InHand \ {w} /\ w \in InHand
    BY DEF TypeOK, InHand
<1>2. Cardinality(InHand') = Cardinality(InHand) - 1 /\ Cardinality(InHand') \in Nat
    BY <1>1, InHandCount, FS_RemoveElement, FS_CardinalityType
<1> QED
    BY <1>2, InHandCount

LEMMA NobodyWorks ==
    ASSUME \A w \in Worker : job[w] = Idle
    PROVE  Cardinality(InHand) = 0
<1>1. InHand = {}
    BY DEF InHand
<1> QED
    BY <1>1, FS_EmptySet

-----------------------------------------------------------------------------
LEMMA RunInit == Init => Run
<1> SUFFICES ASSUME Init
             PROVE  Run
    OBVIOUS
<1>1. Last = 0 /\ active = 0 /\ main = "start" /\ ready = 0
    BY DEF Init, Last
<1>2. 1 .. Last = {}
    BY <1>1
<1>3. Placed /\ LastOpen /\ Fresh
    BY <1>1 DEF Placed, LastOpen, Fresh
<1>4. Hands
    BY <1>1 DEF Init, Hands
<1>5. NotYet
    BY DEF Init, NotYet
<1> QED
    BY <1>2, <1>3, <1>4, <1>5 DEF Run, AllBooked, Reported

(* Whoever leaves the run's own variables alone.                           *)
LEMMA QuietStep ==
    ASSUME Run, UNCHANGED runVars, cancelled => cancelled'
    PROVE  Run'
<1> USE DEF runVars
<1>1. Last' = Last /\ InHand' = InHand
    BY DEF Last, InHand
<1>2. (Placed /\ LastOpen /\ Fresh)'
    BY <1>1 DEF Run, Placed, LastOpen, Fresh
<1>3. Hands'
    BY DEF Run, Hands
<1>4. ASSUME NEW p \in 1 .. Last
      PROVE  Booked(p)'
    BY <1>1, <1>4 DEF Run, AllBooked, Booked
<1>5. (Reported /\ NotYet)'
    BY <1>1 DEF Run, Reported, NotYet
<1> QED
    BY <1>1, <1>2, <1>3, <1>4, <1>5 DEF Run, AllBooked

(* The orchestrator moves on between two phases or after the last one.     *)
LEMMA BeginPhaseRun == TypeOK /\ Run /\ TypeOK' /\ BeginPhase => Run'
<1> SUFFICES ASSUME TypeOK, Run, TypeOK', BeginPhase
             PROVE  Run'
    OBVIOUS
<1> USE DEF sideVars
<1> DEFINE old == [p \in 1 .. Last |-> IF p = active THEN ClosePhase(p) ELSE phases[p]]
<1>1. Last \in Nat /\ main = "begin" /\ active = Last /\ Last < NumPhases
    BY DEF TypeOK, Last, BeginPhase, Run, Placed
<1>2. phases' = Append(old, NewPhase) /\ Len(old) = Last
    BY <1>1 DEF BeginPhase
<1>3. old \in Seq(Phase)
    <2>1. \A p \in 1 .. Last : old[p] \in Phase
        BY PhaseAt, PhaseUpdates DEF ClosePhase
    <2> QED
        BY <1>1, <2>1
<1>4. /\ Last' = Last + 1 /\ phases'[Last + 1] = NewPhase
      /\ \A p \in 1 .. Last : phases'[p] = old[p]
    <2> HIDE DEF old
    <2> QED
        BY <1>1, <1>2, <1>3 DEF Last
<1>5. \A p \in 1 .. Last : phases'[p].completed = phases[p].completed /\ phases'[p].tasks = phases[p].tasks
    <2>1. ASSUME NEW p \in 1 .. Last
          PROVE  ClosePhase(p).completed = phases[p].completed /\ ClosePhase(p).tasks = phases[p].tasks
        <3>1. phases[p] \in Phase
            BY <2>1, PhaseAt
        <3> QED
            BY <3>1 DEF ClosePhase, Phase
    <2> QED
        BY <1>4, <2>1
<1>6. /\ phases'[Last + 1].completed = 0 /\ phases'[Last + 1].tasks = 0
      /\ phases'[Last + 1].endTime = "zero"
    BY <1>4 DEF NewPhase
<1>7. main' = "publish" /\ active' = active /\ started' = started /\ job' = job
      /\ ready' = ready /\ reported' = reported /\ cancelled' = cancelled
    BY DEF BeginPhase
<1> HIDE DEF old
<1>8. Placed'
    BY <1>1, <1>4, <1>7 DEF Run, Placed
<1>9. LastOpen'
    BY <1>4, <1>6 DEF LastOpen
<1>10. Hands'
    BY <1>1, <1>7 DEF Run, Hands
<1>11. ASSUME NEW p \in 1 .. Last'
       PROVE  Booked(p)'
    <2>1. CASE p = Last + 1
        BY <1>4, <1>6, <1>7, <2>1 DEF Booked
    <2>2. CASE p \in 1 .. Last
        BY <1>1, <1>5, <1>7, <2>2 DEF Run, AllBooked, Booked
    <2> QED
        BY <1>1, <1>4, <2>1, <2>2
<1>12. ASSUME NEW p \in 1 .. Last'
       PROVE  reported'[p] = phases'[p].completed
    <2>1. CASE p = Last + 1
        <3>1. Last + 1 \in 1 .. NumPhases
            BY <1>1, MonitorAssumption
        <3> QED
            BY <1>1, <1>6, <1>7, <2>1, <3>1 DEF Run, NotYet
    <2>2. CASE p \in 1 .. Last
        BY <1>5, <1>7, <2>2 DEF Run, Reported
    <2> QED
        BY <1>1, <1>4, <2>1, <2>2
<1>13. NotYet'
    BY <1>1, <1>4, <1>7 DEF Run, NotYet
<1>14. Fresh'
    BY <1>4, <1>6 DEF Fresh
<1> QED
    BY <1>8, <1>9, <1>10, <1>11, <1>12, <1>13, <1>14 DEF Run, AllBooked, Reported

(* Steps that leave the phases and the jobs alone.                         *)
LEMMA OrchestratorRun ==
    TypeOK /\ Run /\ (Start \/ PublishPhase \/ EndPhase \/ TellInterrupted \/ FinishSwap \/ FinishLine)
        => Run'
<1> SUFFICES ASSUME TypeOK, Run,
                    Start \/ PublishPhase \/ EndPhase \/ TellInterrupted \/ FinishSwap \/ FinishLine
             PROVE  Run'
    OBVIOUS
<1> USE DEF sideVars
<1>1. /\ phases' = phases /\ job' = job /\ reported' = reported /\ cancelled' = cancelled
      /\ Last' = Last /\ InHand' = InHand
    BY DEF Start, PublishPhase, EndPhase, TellInterrupted, FinishSwap, FinishLine, Last, InHand
<1>2. Last \in Nat /\ Last <= NumPhases
    BY DEF TypeOK, Last
<1>3. Placed'
    BY <1>1, <1>2, MonitorAssumption
    DEF Run, Placed, Start, PublishPhase, Newest, EndPhase, TellInterrupted, FinishSwap, FinishLine
<1>4. LastOpen' /\ Fresh'
    BY <1>1 DEF Run, Placed, LastOpen, Fresh, Start, PublishPhase, EndPhase, TellInterrupted, FinishSwap, FinishLine
<1>5. Hands'
    BY <1>1 DEF Run, Hands, Start, PublishPhase, EndPhase, CrewReturned, TellInterrupted, FinishSwap, FinishLine
<1>6. ASSUME NEW p \in 1 .. Last
      PROVE  Booked(p)'
    <2>1. Booked(p) /\ phases[p] \in Phase
        BY PhaseAt DEF Run, AllBooked
    <2>2. phases[p].completed \in Nat /\ phases[p].tasks \in Nat
        BY <2>1, PhaseFields
    <2>3. CASE PublishPhase
        <3>1. /\ main # "work" /\ main' = "work" /\ active' = Last /\ ready' = 0
              /\ \A w \in Worker : job[w] = Idle
            BY <2>3 DEF PublishPhase, Newest, Run, Hands
        <3>2. CASE p # Last
            BY <1>1, <2>1, <3>1, <3>2 DEF Booked
        <3>3. CASE p = Last
            <4>1. Cardinality(InHand') = 0
                BY <1>1, <3>1, NobodyWorks
            <4>2. phases[p].completed = phases[p].tasks
                BY <2>3, <3>3 DEF PublishPhase, Run, Fresh
            <4>3. phases'[p].tasks = phases'[p].completed + Cardinality(InHand') + ready'
                BY <1>1, <2>2, <3>1, <4>1, <4>2
            <4> QED
                BY <3>1, <3>3, <4>3 DEF Booked
        <3> QED
            BY <3>2, <3>3
    <2>4. CASE EndPhase
        <3>1. /\ main = "work" /\ main' # "work" /\ active' = active
              /\ Cardinality(InHand) = 0 /\ (ready = 0 \/ cancelled) /\ ready \in Nat
            BY <2>4, NobodyWorks DEF EndPhase, CrewReturned, TypeOK
        <3>2. CASE p = active
            BY <1>1, <2>1, <2>2, <3>1, <3>2 DEF Booked
        <3>3. CASE p # active
            BY <1>1, <2>1, <3>1, <3>3 DEF Booked
        <3> QED
            BY <3>2, <3>3
    <2>5. CASE Start \/ TellInterrupted \/ FinishSwap \/ FinishLine
        BY <1>1, <2>1, <2>5 DEF Booked, Start, TellInterrupted, FinishSwap, FinishLine
    <2> QED
        BY <2>3, <2>4, <2>5
<1>7. (Reported /\ NotYet)'
    BY <1>1 DEF Run, Reported, NotYet
<1> QED
    BY <1>1, <1>3, <1>4, <1>5, <1>6, <1>7 DEF Run, AllBooked

(* A step that moves the counters of the phase at work by one task: the    *)
(* task is registered, or its worker reports.                              *)
LEMMA CountersMove ==
    ASSUME TypeOK, Run, main = "work", main' = main, active' = active, started' = started,
           cancelled' = cancelled,
           NEW x \in Phase, phases' = [phases EXCEPT ![active] = x], x.endTime = phases[active].endTime,
           x.tasks = x.completed + Cardinality(InHand') + ready',
           \A w \in Worker : job'[w] # Idle => job'[w].ph = active,
           \A p \in 1 .. NumPhases : reported'[p] = IF p = active THEN x.completed ELSE reported[p]
    PROVE  Run'
<1>1. active = Last /\ active \in 1 .. Last /\ Last \in Nat /\ Last <= NumPhases
    BY DEF TypeOK, Last, Run, Placed
<1>2. /\ Last' = Last /\ phases'[active] = x
      /\ \A q \in 1 .. Last : q # active => phases'[q] = phases[q]
    BY <1>1, OnePhaseMoves
<1>3. Placed'
    BY <1>2 DEF Run, Placed
<1>4. LastOpen' /\ Fresh'
    BY <1>1, <1>2 DEF Run, LastOpen, Fresh
<1>5. Hands'
    BY DEF Hands
<1>6. ASSUME NEW p \in 1 .. Last
      PROVE  Booked(p)'
    <2>1. CASE p = active
        BY <1>2, <2>1 DEF Booked
    <2>2. CASE p # active
        BY <1>2, <2>2 DEF Run, AllBooked, Booked
    <2> QED
        BY <2>1, <2>2
<1>7. Reported'
    <2>1. ASSUME NEW p \in 1 .. Last
          PROVE  reported'[p] = phases'[p].completed
        <3>1. p \in 1 .. NumPhases
            BY <1>1, MonitorAssumption
        <3> QED
            BY <1>2, <3>1 DEF Run, Reported
    <2> QED
        BY <1>2, <2>1 DEF Reported
<1>8. NotYet'
    BY <1>1, <1>2 DEF Run, NotYet
<1> QED
    BY <1>2, <1>3, <1>4, <1>5, <1>6, <1>7, <1>8 DEF Run, AllBooked

LEMMA AddTasksRun == TypeOK /\ Run /\ AddTasks => Run'
<1> SUFFICES ASSUME TypeOK, Run, AddTasks
             PROVE  Run'
    OBVIOUS
<1> USE DEF sideVars
<1> DEFINE x == [phases[active] EXCEPT !.tasks = phases[active].tasks + 1]
<1>1. main = "work" /\ active = Last /\ active \in 1 .. Last /\ phases[active] \in Phase
    BY PhaseAt DEF AddTasks, TypeOK, Last, Run, Placed
<1>2. x \in Phase /\ phases' = [phases EXCEPT ![active] = x]
    BY <1>1, PhaseUpdates DEF AddTasks
<1>3. x.endTime = phases[active].endTime /\ x.completed = phases[active].completed
      /\ x.tasks = phases[active].tasks + 1
    BY <1>1 DEF Phase
<1>4. InHand' = InHand /\ job' = job /\ ready' = ready + 1
    BY DEF AddTasks, InHand
<1>5. phases[active].tasks = phases[active].completed + Cardinality(InHand) + ready
    BY <1>1 DEF Run, AllBooked, Booked
<1>6. x.tasks = x.completed + Cardinality(InHand') + ready'
    <2>1. phases[active].completed \in Nat /\ ready \in Nat
        BY <1>1, PhaseFields DEF TypeOK
    <2> HIDE DEF x
    <2> QED
        BY <1>3, <1>4, <1>5, <2>1, InHandCount
<1>7. \A p \in 1 .. NumPhases : reported'[p] = IF p = active THEN x.completed ELSE reported[p]
    BY <1>1, <1>3 DEF AddTasks, Run, Reported
<1>8. \A w \in Worker : job'[w] # Idle => job'[w].ph = active
    BY <1>4 DEF Run, Hands
<1> HIDE DEF x
<1> QED
    BY <1>1, <1>2, <1>3, <1>6, <1>7, <1>8, CountersMove DEF AddTasks

LEMMA WorkRun == \A w \in Worker : TypeOK /\ Run /\ Work(w) => Run'
<1> SUFFICES ASSUME TypeOK, Run, NEW w \in Worker, Work(w)
             PROVE  Run'
    OBVIOUS
<1> USE DEF sideVars
<1>0. main = "work" /\ active = Last /\ active \in 1 .. Last /\ phases[active] \in Phase
    <2>1. main = "work"
        BY DEF Work, TakeTask, ReportSubtask, LoadPhase, ReportTaskCompleted, Idle, Run, Hands
    <2> QED
        BY <2>1, PhaseAt DEF TypeOK, Last, Run, Placed
<1>1. /\ phases[active].tasks = phases[active].completed + Cardinality(InHand) + ready
      /\ phases[active].completed \in Nat /\ ready \in Nat /\ Cardinality(InHand) \in Nat
      /\ reported[active] = phases[active].completed
    BY <1>0, PhaseFields, InHandCount DEF Run, AllBooked, Booked, Reported, TypeOK
<1>2. phases = [phases EXCEPT ![active] = phases[active]]
    BY DEF TypeOK
<1>3. \A v \in Worker : job[v] # Idle => job[v].ph = active
    BY DEF Run, Hands
<1>4. CASE TakeTask(w)
    <2>1. job' = [job EXCEPT ![w] = [at |-> "subtask", ph |-> active]] /\ job[w] = Idle
          /\ ready' = ready - 1 /\ ready > 0
        BY <1>4 DEF TakeTask, WorkerAt
    <2>2. [at |-> "subtask", ph |-> active] # Idle
        BY DEF Idle
    <2>3. Cardinality(InHand') = Cardinality(InHand) + 1
        BY <2>1, <2>2, HandTakes
    <2>4. phases[active].tasks = phases[active].completed + Cardinality(InHand') + ready'
        BY <1>1, <2>1, <2>3
    <2>5. \A v \in Worker : job'[v] # Idle => job'[v].ph = active
        BY <1>3, <2>1 DEF TypeOK
    <2>6. phases' = [phases EXCEPT ![active] = phases[active]] /\ reported' = reported
          /\ main' = main /\ active' = active /\ started' = started /\ cancelled' = cancelled
        BY <1>2, <1>4 DEF TakeTask
    <2> QED
        BY <1>0, <1>1, <2>4, <2>5, <2>6, CountersMove
<1>5. CASE ReportSubtask(w)
    <2> DEFINE x == [phases[active] EXCEPT !.subtasks = phases[active].subtasks + 1]
    <2>1. job[w] # Idle /\ job[w].ph = active
        BY <1>3, <1>5 DEF ReportSubtask, Idle
    <2>2. phases' = [phases EXCEPT ![active] = x] /\ job' = [job EXCEPT ![w] = [job[w] EXCEPT !.at = "between"]]
        BY <1>5, <2>1 DEF ReportSubtask
    <2>3. x \in Phase /\ x.endTime = phases[active].endTime
          /\ x.completed = phases[active].completed /\ x.tasks = phases[active].tasks
        BY <1>0, PhaseUpdates DEF Phase
    <2>4. [job[w] EXCEPT !.at = "between"] = [at |-> "between", ph |-> active]
        BY <2>1 DEF TypeOK
    <2>5. InHand' = InHand
        BY <2>1, <2>2, <2>4, HandKeeps DEF Idle
    <2>6. \A v \in Worker : job'[v] # Idle => job'[v].ph = active
        BY <1>3, <2>2, <2>4 DEF TypeOK
    <2>7. ready' = ready /\ reported' = reported /\ main' = main /\ active' = active
          /\ started' = started /\ cancelled' = cancelled
        BY <1>5 DEF ReportSubtask
    <2> HIDE DEF x
    <2> QED
        BY <1>0, <1>1, <2>2, <2>3, <2>5, <2>6, <2>7, CountersMove
<1>6. CASE LoadPhase(w)
    <2>1. job[w] # Idle /\ job' = [job EXCEPT ![w] = [at |-> "complete", ph |-> active]]
        BY <1>6 DEF LoadPhase, WorkerAt, Idle
    <2>2. InHand' = InHand
        BY <2>1, HandKeeps DEF Idle
    <2>3. \A v \in Worker : job'[v] # Idle => job'[v].ph = active
        BY <1>3, <2>1 DEF TypeOK
    <2>4. phases' = [phases EXCEPT ![active] = phases[active]] /\ reported' = reported /\ ready' = ready
          /\ main' = main /\ active' = active /\ started' = started /\ cancelled' = cancelled
        BY <1>2, <1>6 DEF LoadPhase
    <2> QED
        BY <1>0, <1>1, <2>2, <2>3, <2>4, CountersMove
<1>7. CASE ReportTaskCompleted(w)
    <2> DEFINE x == [phases[active] EXCEPT !.completed = phases[active].completed + 1]
    <2>1. job[w] # Idle /\ job[w].ph = active
        BY <1>3, <1>7 DEF ReportTaskCompleted, Idle
    <2>2. /\ phases' = [phases EXCEPT ![active] = x] /\ job' = [job EXCEPT ![w] = Idle]
          /\ reported' = [reported EXCEPT ![active] = @ + 1]
        BY <1>7, <2>1 DEF ReportTaskCompleted
    <2>3. x \in Phase /\ x.endTime = phases[active].endTime
          /\ x.completed = phases[active].completed + 1 /\ x.tasks = phases[active].tasks
        BY <1>0, PhaseUpdates DEF Phase
    <2>4. Cardinality(InHand) = Cardinality(InHand') + 1
        BY <2>1, <2>2, HandPuts
    <2>5. \A v \in Worker : job'[v] # Idle => job'[v].ph = active
        BY <1>3, <2>2 DEF TypeOK
    <2>6. ready' = ready /\ main' = main /\ active' = active
          /\ started' = started /\ cancelled' = cancelled
        BY <1>7 DEF ReportTaskCompleted
    <2>7. Cardinality(InHand') \in Nat
        BY <2>2, FS_Subset, FS_CardinalityType, MonitorAssumption DEF InHand
    <2> HIDE DEF x
    <2>8. x.tasks = x.completed + Cardinality(InHand') + ready'
        BY <1>1, <2>3, <2>4, <2>6, <2>7
    <2>9. \A p \in 1 .. NumPhases : reported'[p] = IF p = active THEN x.completed ELSE reported[p]
        BY <1>1, <2>2, <2>3 DEF TypeOK
    <2> QED
        BY <1>0, <2>2, <2>3, <2>5, <2>6, <2>8, <2>9, CountersMove
<1> QED
    BY <1>4, <1>5, <1>6, <1>7 DEF Work

(* The last phase ends: only its endTime moves.                            *)
LEMMA PhaseCloses ==
    ASSUME TypeOK, Run, FinishReport
    PROVE  /\ Last' = Last /\ Last = NumPhases /\ active = Last /\ active \in 1 .. Last
           /\ \A p \in 1 .. Last : /\ phases'[p].completed = phases[p].completed
                                   /\ phases'[p].tasks = phases[p].tasks
                                   /\ p # active => phases'[p] = phases[p]
<1>1. active = Last /\ Last = NumPhases /\ active \in 1 .. Last
    BY MonitorAssumption DEF FinishReport, TypeOK, Last, Run, Placed
<1>2. phases[active] \in Phase /\ ClosePhase(active) \in Phase
    BY <1>1, PhaseAt, PhaseUpdates DEF ClosePhase
<1>3. ClosePhase(active).completed = phases[active].completed /\ ClosePhase(active).tasks = phases[active].tasks
    BY <1>2 DEF ClosePhase, Phase
<1>4. phases' = [phases EXCEPT ![active] = ClosePhase(active)]
    BY DEF FinishReport
<1>5. /\ Last' = Last /\ phases'[active] = ClosePhase(active)
      /\ \A q \in 1 .. Last : q # active => phases'[q] = phases[q]
    BY <1>1, <1>2, <1>4, OnePhaseMoves
<1> QED
    BY <1>1, <1>3, <1>5

LEMMA FinishReportRun == TypeOK /\ Run /\ FinishReport => Run'
<1> SUFFICES ASSUME TypeOK, Run, FinishReport
             PROVE  Run'
    OBVIOUS
<1> USE DEF sideVars
<1>1. /\ main = "report" /\ main' = "over" /\ active' = active /\ started' = started /\ job' = job
      /\ ready' = ready /\ reported' = reported /\ cancelled' = cancelled
    BY DEF FinishReport
<1>2. /\ Last' = Last /\ active = Last /\ Last = NumPhases
      /\ \A p \in 1 .. Last : /\ phases'[p].completed = phases[p].completed
                              /\ phases'[p].tasks = phases[p].tasks
    BY PhaseCloses
<1>3. (Placed /\ LastOpen /\ Fresh)'
    BY <1>1, <1>2 DEF Run, Placed, LastOpen, Fresh
<1>4. Hands'
    BY <1>1 DEF Run, Hands
<1>5. ASSUME NEW p \in 1 .. Last
      PROVE  Booked(p)'
    BY <1>1, <1>2 DEF Run, AllBooked, Booked
<1>6. (Reported /\ NotYet)'
    BY <1>1, <1>2 DEF Run, Reported, NotYet
<1> QED
    BY <1>2, <1>3, <1>4, <1>5, <1>6 DEF Run, AllBooked

LEMMA Bystanders ==
    ASSUME Cancel \/ Reporter \/ Reader \/ UNCHANGED vars
    PROVE  UNCHANGED runVars /\ (cancelled => cancelled')
BY DEF Cancel, Reporter, TickerFires, CtxDone, LookStarted, LoadActive, FirstLoad, SecondLoad, PrintLine,
       Reader, LockPhases, SnapLoad, ReporterOnly, SnapshotOnly, vars, sideVars

LEMMA RunNext == TypeOK /\ Run /\ TypeOK' /\ [Next]_vars => Run'
<1> SUFFICES ASSUME TypeOK, Run, TypeOK', [Next]_vars
             PROVE  Run'
    OBVIOUS
<1>1. CASE Cancel \/ Reporter \/ Reader \/ UNCHANGED vars
    BY <1>1, Bystanders, QuietStep
<1>2. CASE Orchestrator
    BY <1>2, BeginPhaseRun, OrchestratorRun, AddTasksRun, FinishReportRun DEF Orchestrator
<1>3. CASE \E w \in Worker : Work(w)
    BY <1>3, WorkRun
<1> QED
    BY <1>1, <1>2, <1>3 DEF Next

-----------------------------------------------------------------------------
(* The phase at work is open, whatever counter of it moves.                *)
LEMMA OpenPhaseMoves ==
    ASSUME TypeOK, Run, main = "work", NEW x \in Phase, phases' = [phases EXCEPT ![active] = x],
           phases[active].completed <= x.completed
    PROVE  /\ Last' = Last
           /\ \A p \in 1 .. Last : /\ phases[p].endTime = "set" => phases'[p] = phases[p]
                                   /\ phases[p].completed <= phases'[p].completed
<1>1. active = Last /\ active \in 1 .. Last
    BY DEF Run, Placed, TypeOK, Last
<1>2. phases[active].endTime = "zero"
    BY <1>1 DEF Run, LastOpen
<1>3. \A p \in 1 .. Last : phases[p].completed \in Nat
    BY PhaseAt, PhaseFields
<1>4. /\ Last' = Last /\ phases'[active] = x
      /\ \A q \in 1 .. Last : q # active => phases'[q] = phases[q]
    BY <1>1, OnePhaseMoves
<1>5. ASSUME NEW p \in 1 .. Last
      PROVE  /\ phases[p].endTime = "set" => phases'[p] = phases[p]
             /\ phases[p].completed <= phases'[p].completed
    <2>1. CASE p = active
        BY <1>2, <1>4, <2>1
    <2>2. CASE p # active
        BY <1>3, <1>4, <2>2
    <2> QED
        BY <2>1, <2>2
<1> QED
    BY <1>4, <1>5

(* No phase goes away, a closed one never moves, and a counter of          *)
(* completions never goes back.                                            *)
LEMMA PhasesMove ==
    ASSUME TypeOK, Run, [Next]_vars
    PROVE  /\ Last <= Last'
           /\ \A p \in 1 .. Last : /\ phases[p].endTime = "set" => phases'[p] = phases[p]
                                   /\ phases[p].completed <= phases'[p].completed
<1>0. Last \in Nat /\ \A p \in 1 .. Last : phases[p] \in Phase /\ phases[p].completed \in Nat
    BY PhaseAt, PhaseFields DEF TypeOK, Last
<1>1. CASE phases' = phases
    BY <1>0, <1>1 DEF Last
<1>2. CASE BeginPhase
    <2> DEFINE old == [p \in 1 .. Last |-> IF p = active THEN ClosePhase(p) ELSE phases[p]]
    <2>1. active = Last /\ main = "begin" /\ phases' = Append(old, NewPhase)
        BY <1>2 DEF BeginPhase, Run, Placed
    <2>2. \A p \in 1 .. Last : old[p] \in Phase
        BY PhaseAt, PhaseUpdates DEF ClosePhase
    <2>3. old \in Seq(Phase) /\ Len(old) = Last
        BY <1>0, <2>2
    <2>4. Last' = Last + 1 /\ \A p \in 1 .. Last : phases'[p] = old[p]
        <3> HIDE DEF old
        <3> QED
            BY <1>0, <2>1, <2>3 DEF Last
    <2>5. ASSUME NEW p \in 1 .. Last
          PROVE  /\ phases[p].endTime = "set" => phases'[p] = phases[p]
                 /\ phases'[p].completed = phases[p].completed
        <3>1. CASE p = active
            <4>1. phases[p].endTime = "zero"
                BY <1>0, <2>1, <3>1 DEF Run, LastOpen
            <4>2. ClosePhase(p).completed = phases[p].completed
                BY <1>0 DEF ClosePhase, Phase
            <4> QED
                BY <2>4, <3>1, <4>1, <4>2
        <3>2. CASE p # active
            BY <2>4, <3>2
        <3> QED
            BY <3>1, <3>2
    <2> HIDE DEF old
    <2> QED
        BY <1>0, <2>4, <2>5
<1>3. CASE FinishReport
    <2>1. phases[active].endTime = "zero"
        BY <1>0, <1>3, PhaseCloses DEF FinishReport, Run, LastOpen
    <2> QED
        BY <1>0, <1>3, <2>1, PhaseCloses
<1>4. CASE AddTasks
    <2> DEFINE y == [phases[active] EXCEPT !.tasks = phases[active].tasks + 1]
    <2>1. active \in 1 .. Last /\ main = "work"
        BY <1>0, <1>4 DEF AddTasks, Run, Placed
    <2>2. y \in Phase /\ y.completed = phases[active].completed /\ phases' = [phases EXCEPT ![active] = y]
        BY <1>0, <1>4, <2>1, PhaseUpdates DEF AddTasks, Phase
    <2> HIDE DEF y
    <2>3. phases[active].completed <= y.completed
        BY <1>0, <2>1, <2>2
    <2>4. /\ Last' = Last
          /\ \A p \in 1 .. Last : /\ phases[p].endTime = "set" => phases'[p] = phases[p]
                                  /\ phases[p].completed <= phases'[p].completed
        BY <2>1, <2>2, <2>3, OpenPhaseMoves
    <2> QED
        BY <1>0, <2>4
<1>5. ASSUME NEW w \in Worker, ReportSubtask(w) \/ ReportTaskCompleted(w)
      PROVE  /\ Last' = Last
             /\ \A p \in 1 .. Last : /\ phases[p].endTime = "set" => phases'[p] = phases[p]
                                     /\ phases[p].completed <= phases'[p].completed
    <2>1. job[w] # Idle
        BY <1>5 DEF ReportSubtask, ReportTaskCompleted, Idle
    <2>2. main = "work" /\ job[w].ph = active /\ active \in 1 .. Last
        BY <1>0, <2>1, HandsHoldPhase
    <2>3. phases[active] \in Phase /\ phases[active].completed \in Nat
        BY <1>0, <2>2
    <2>4. CASE ReportSubtask(w)
        <3> DEFINE y == [phases[active] EXCEPT !.subtasks = phases[active].subtasks + 1]
        <3>1. y \in Phase /\ y.completed = phases[active].completed
            BY <2>3, PhaseUpdates DEF Phase
        <3>2. phases' = [phases EXCEPT ![active] = y]
            BY <2>2, <2>4 DEF ReportSubtask
        <3> HIDE DEF y
        <3>3. phases[active].completed <= y.completed
            BY <2>3, <3>1
        <3> QED
            BY <2>2, <3>1, <3>2, <3>3, OpenPhaseMoves
    <2>5. CASE ReportTaskCompleted(w)
        <3> DEFINE y == [phases[active] EXCEPT !.completed = phases[active].completed + 1]
        <3>1. y \in Phase /\ y.completed = phases[active].completed + 1
            BY <2>3, PhaseUpdates DEF Phase
        <3>2. phases' = [phases EXCEPT ![active] = y]
            BY <2>2, <2>5 DEF ReportTaskCompleted
        <3> HIDE DEF y
        <3>3. phases[active].completed <= y.completed
            BY <2>3, <3>1
        <3> QED
            BY <2>2, <3>1, <3>2, <3>3, OpenPhaseMoves
    <2> QED
        BY <1>5, <2>4, <2>5
<1>6. CASE UNCHANGED vars
    BY <1>1, <1>6 DEF vars, runVars
<1>7. CASE Cancel \/ Reporter \/ Reader
    BY <1>1, <1>7, Bystanders DEF runVars
<1>8. CASE Start \/ PublishPhase \/ EndPhase \/ TellInterrupted \/ FinishSwap \/ FinishLine
    BY <1>1, <1>8 DEF Start, PublishPhase, EndPhase, TellInterrupted, FinishSwap, FinishLine
<1>9. ASSUME NEW w \in Worker, TakeTask(w) \/ LoadPhase(w)
      PROVE  phases' = phases
    BY <1>9 DEF TakeTask, LoadPhase
<1> QED
    BY <1>0, <1>1, <1>2, <1>3, <1>4, <1>5, <1>6, <1>7, <1>8, <1>9 DEF Next, Orchestrator, Work

-----------------------------------------------------------------------------
(* A line is put together from a load of completed and a later one of      *)
(* tasks: in between both only grow, and completed stays below tasks.      *)
LEMMA CompletedBelowTasks ==
    ASSUME TypeOK, Run, NEW p \in 1 .. Last
    PROVE  phases[p].completed <= phases[p].tasks
<1>1. phases[p].completed \in Nat /\ phases[p].tasks \in Nat /\ ready \in Nat
    BY PhaseAt, PhaseFields DEF TypeOK
<1>2. Cardinality(InHand) \in Nat
    BY InHandCount
<1> QED
    BY <1>1, <1>2 DEF Run, AllBooked, Booked

LEMMA ReadingNext ==
    TypeOK /\ Run /\ TypeOK' /\ Reading /\ LineBelowFull /\ [Next]_vars => Reading' /\ LineBelowFull'
<1> SUFFICES ASSUME TypeOK, Run, TypeOK', Reading, LineBelowFull, [Next]_vars
             PROVE  Reading' /\ LineBelowFull'
    OBVIOUS
<1>a. Last <= Last'
    BY PhasesMove
<1>0. Last \in Nat /\ Last' \in Nat /\ Last <= Last'
    BY <1>a DEF TypeOK, Last
<1> USE DEF sideVars, outVars, runVars, snapVars
<1>1. ASSUME rep' = rep \/ (rep'.at = "select")
      PROVE  Reading'
    <2>1. CASE rep'.at = "select"
        BY <2>1 DEF Reading
    <2>2. CASE rep' = rep
        <3>1. rep.at \in {"first", "second"} => rep.ph \in 1 .. Last'
            BY <1>0 DEF Reading
        <3>2. ASSUME rep.at = "second"
              PROVE  rep.completed <= phases'[rep.ph].completed
            <4>1. rep.ph \in 1 .. Last /\ rep.ph \in 1 .. Last' /\ rep.completed <= phases[rep.ph].completed
                BY <1>0, <3>2 DEF Reading
            <4>2. phases[rep.ph].completed \in Nat /\ phases[rep.ph].completed <= phases'[rep.ph].completed
                BY <4>1, PhaseAt, PhaseFields, PhasesMove
            <4>3. phases'[rep.ph].completed \in Nat
                <5>1. phases' \in Seq(Phase)
                    BY DEF TypeOK
                <5>2. phases'[rep.ph] \in Phase
                    BY <4>1, <5>1 DEF Last
                <5> QED
                    BY <5>2, PhaseFields
            <4>4. rep.completed \in Nat
                BY DEF TypeOK
            <4> QED
                BY <4>1, <4>2, <4>3, <4>4
        <3> QED
            BY <2>2, <3>1, <3>2 DEF Reading
    <2> QED
        BY <1>1, <2>1, <2>2
<1>2. ASSUME rep' = rep \/ (rep'.at = "select"), line' = line
      PROVE  LineBelowFull'
    BY <1>2 DEF LineBelowFull
<1>3. CASE Cancel \/ Reader \/ UNCHANGED vars
    <2>1. rep' = rep /\ line' = line
        BY <1>3 DEF Cancel, Reader, LockPhases, SnapLoad, SnapshotOnly, vars
    <2> QED
        BY <1>1, <1>2, <2>1
<1>4. ASSUME NEW w \in Worker, Work(w)
      PROVE  rep' = rep /\ line' = line
    BY <1>4 DEF Work, TakeTask, ReportSubtask, LoadPhase, ReportTaskCompleted
<1>5. CASE BeginPhase \/ PublishPhase \/ AddTasks \/ EndPhase \/ TellInterrupted \/ FinishSwap \/ FinishReport
    <2>1. rep' = rep /\ line' = line
        BY <1>5 DEF BeginPhase, PublishPhase, AddTasks, EndPhase, TellInterrupted, FinishSwap, FinishReport
    <2> QED
        BY <1>1, <1>2, <2>1
<1>6. CASE Start
    <2>1. (rep' = rep \/ rep'.at = "select") /\ line' = line
        BY <1>6 DEF Start, TypeOK
    <2> QED
        BY <1>1, <1>2, <2>1
<1>7. CASE FinishLine
    <2>1. rep' = rep
        BY <1>7 DEF FinishLine
    <2>2. active \in 1 .. Last
        BY <1>0, <1>7, MonitorAssumption DEF FinishLine, Run, Placed
    <2>3. phases[active].completed <= phases[active].tasks
        BY <2>2, CompletedBelowTasks
    <2>4. line' = line \/ line' = Counters(active)
        BY <1>7 DEF FinishLine
    <2>5. LineBelowFull'
        BY <2>1, <2>3, <2>4 DEF LineBelowFull, Counters
    <2> QED
        BY <1>1, <2>1, <2>5
<1>8. CASE Reporter
    <2>1. phases' = phases /\ Last' = Last
        BY <1>8, Bystanders DEF Last
    <2>2. CASE TickerFires \/ CtxDone \/ LookStarted
        <3>1. line' = line /\ rep'.at \in {"tick", "done", "active", "exit"}
            BY <2>2 DEF TickerFires, CtxDone, LookStarted, RepGoTo, ReporterOnly, TypeOK
        <3> QED
            BY <3>1 DEF Reading, LineBelowFull
    <2>3. CASE LoadActive
        <3>1. line' = line /\ rep'.at \in {"first", "select", "exit"} /\ rep'.ph = active
              /\ (rep'.at = "first" => active # 0)
            BY <2>3 DEF LoadActive, AfterLine, ReporterOnly, TypeOK
        <3>2. active \in 0 .. Last
            BY DEF TypeOK
        <3>3. rep'.at = "first" => rep'.ph \in 1 .. Last
            BY <1>0, <3>1, <3>2
        <3> QED
            BY <2>1, <3>1, <3>3 DEF Reading, LineBelowFull
    <2>4. CASE FirstLoad
        <3>1. line' = line /\ rep.at = "first" /\ rep'.at = "second" /\ rep'.ph = rep.ph
              /\ rep'.completed = phases[rep.ph].completed
            BY <2>4 DEF FirstLoad, LineReads, ReporterOnly, TypeOK
        <3>2. rep.ph \in 1 .. Last
            BY <3>1 DEF Reading
        <3>3. phases[rep.ph].completed \in Nat
            BY <3>2, PhaseAt, PhaseFields
        <3> QED
            BY <2>1, <3>1, <3>2, <3>3 DEF Reading, LineBelowFull
    <2>5. CASE SecondLoad
        <3>1. line' = line /\ rep.at = "second" /\ rep'.at = "print" /\ rep'.ph = rep.ph
              /\ rep'.completed = rep.completed /\ rep'.tasks = phases[rep.ph].tasks
            BY <2>5 DEF SecondLoad, LineReads, ReporterOnly, TypeOK
        <3>2. rep.ph \in 1 .. Last /\ rep.completed <= phases[rep.ph].completed
            BY <3>1 DEF Reading
        <3>3. phases[rep.ph].completed \in Nat /\ phases[rep.ph].tasks \in Nat /\ rep.completed \in Nat
            BY <3>2, PhaseAt, PhaseFields DEF TypeOK
        <3>4. rep'.completed <= rep'.tasks
            BY <3>1, <3>2, <3>3, CompletedBelowTasks
        <3> QED
            BY <3>1, <3>4 DEF Reading, LineBelowFull
    <2>6. CASE PrintLine
        <3>1. line'.completed <= line'.tasks
            BY <2>6 DEF PrintLine, LineBelowFull
        <3>2. rep'.at \in {"exit", "select"}
            BY <2>6 DEF PrintLine, RepGoTo, AfterLine, TypeOK
        <3> QED
            BY <3>1, <3>2 DEF Reading, LineBelowFull
    <2> QED
        BY <1>8, <2>2, <2>3, <2>4, <2>5, <2>6 DEF Reporter
<1> QED
    BY <1>1, <1>2, <1>3, <1>4, <1>5, <1>6, <1>7, <1>8 DEF Next, Orchestrator

LEMMA SnapBehindNext == TypeOK /\ Run /\ TypeOK' /\ SnapBehind /\ [Next]_vars => SnapBehind'
<1> SUFFICES ASSUME TypeOK, Run, TypeOK', SnapBehind, [Next]_vars
             PROVE  SnapBehind'
    OBVIOUS
<1>a. Last <= Last'
    BY PhasesMove
<1>b. snap.ph \in Nat
    BY MonitorAssumption DEF TypeOK
<1>0. Last \in Nat /\ Last' \in Nat /\ Last <= Last' /\ snap.ph \in Nat
    BY <1>a, <1>b DEF TypeOK, Last
<1> USE DEF sideVars, outVars, runVars, snapVars
<1>1. CASE Cancel \/ Orchestrator \/ Reporter \/ (\E w \in Worker : Work(w)) \/ UNCHANGED vars
    <2>1. snap' = snap
        BY <1>1 DEF Cancel, Reporter, TickerFires, CtxDone, LookStarted, LoadActive, FirstLoad, SecondLoad,
            PrintLine, ReporterOnly, Orchestrator, Start, BeginPhase, PublishPhase, AddTasks, EndPhase,
            TellInterrupted, FinishSwap, FinishLine, FinishReport, Work, TakeTask, ReportSubtask,
            LoadPhase, ReportTaskCompleted, vars
    <2> QED
        BY <1>0, <2>1 DEF SnapBehind
<1>2. CASE LockPhases
    <2>1. snap'.ph = 1 /\ Last > 0
        BY <1>2 DEF LockPhases, NoSnapshot
    <2> QED
        BY <1>0, <2>1 DEF SnapBehind
<1>3. CASE SnapLoad
    <2> DEFINE f == SnapReads[snap.field]
               sum == [snap.sum EXCEPT ![f] = @ + phases[snap.ph][f]]
    <2>1. \/ snap' = [snap EXCEPT !.sum = sum, !.field = @ + 1]
          \/ snap.ph < Last /\ snap' = [snap EXCEPT !.sum = sum, !.field = 1, !.ph = @ + 1]
          \/ snap' = NoSnapshot
        BY <1>3 DEF SnapLoad
    <2> HIDE DEF f, sum
    <2>2. CASE snap' = [snap EXCEPT !.sum = sum, !.field = @ + 1]
        <3>1. snap'.ph = snap.ph
            BY <2>2 DEF TypeOK
        <3> QED
            BY <1>0, <3>1 DEF SnapBehind
    <2>3. CASE snap.ph < Last /\ snap' = [snap EXCEPT !.sum = sum, !.field = 1, !.ph = @ + 1]
        <3>1. snap'.ph = snap.ph + 1
            BY <2>3 DEF TypeOK
        <3> QED
            BY <1>0, <2>3, <3>1 DEF SnapBehind
    <2>4. CASE snap' = NoSnapshot
        BY <1>0, <2>4 DEF SnapBehind, NoSnapshot
    <2> QED
        BY <2>1, <2>2, <2>3, <2>4
<1> QED
    BY <1>1, <1>2, <1>3 DEF Next, Reader

-----------------------------------------------------------------------------
(* Steps that can neither end a phase's bookkeeping nor print the report.  *)
LEMMA OverStays ==
    ASSUME TypeOK, Run, main = "over", [Next]_vars
    PROVE  phases' = phases /\ reported' = reported /\ told' = told /\ final' = final /\ main' = main
<1> USE DEF sideVars, outVars, runVars, snapVars
<1>1. CASE Cancel \/ Reporter \/ Reader \/ UNCHANGED vars
    BY <1>1 DEF Cancel, Reporter, TickerFires, CtxDone, LookStarted, LoadActive, FirstLoad, SecondLoad,
        PrintLine, ReporterOnly, Reader, LockPhases, SnapLoad, SnapshotOnly, vars
<1>2. ~Orchestrator
    BY DEF Orchestrator, Start, BeginPhase, PublishPhase, AddTasks, EndPhase, TellInterrupted,
        FinishSwap, FinishLine, FinishReport
<1>3. ASSUME NEW w \in Worker
      PROVE  ~Work(w)
    BY DEF Run, Hands, Idle, Work, TakeTask, ReportSubtask, LoadPhase, ReportTaskCompleted
<1> QED
    BY <1>1, <1>2, <1>3 DEF Next

LEMMA ReportNext ==
    TypeOK /\ Run /\ Run' /\ TypeOK' /\ Untold /\ Printed /\ FinalReportComplete /\ [Next]_vars
        => Untold' /\ Printed' /\ FinalReportComplete'
<1> SUFFICES ASSUME TypeOK, Run, Run', TypeOK', Untold, Printed, FinalReportComplete, [Next]_vars
             PROVE  Untold' /\ Printed' /\ FinalReportComplete'
    OBVIOUS
<1>1. CASE main = "over"
    <2>1. phases' = phases /\ reported' = reported /\ told' = told /\ final' = final /\ main' = main
        BY <1>1, OverStays
    <2> QED
        BY <1>1, <2>1 DEF Untold, Printed, FinalReportComplete, Counters, Last
<1>2. CASE main # "over" /\ FinishReport
    <2>1. /\ main = "report" /\ main' = "over" /\ told' = told /\ reported' = reported
          /\ (final' = [p \in 1 .. Last |-> Counters(p)] \/ final' = final)
        BY <1>2 DEF FinishReport
    <2>2. /\ Last' = Last /\ Last = NumPhases
          /\ \A p \in 1 .. Last : /\ phases'[p].completed = phases[p].completed
                                  /\ phases'[p].tasks = phases[p].tasks
        BY <1>2, PhaseCloses
    <2>3. Untold'
        BY <2>1, <2>2 DEF Untold
    <2>4. final = << >>
        BY <1>2 DEF Printed
    <2>5. CASE final' = final
        BY <2>1, <2>3, <2>4, <2>5 DEF Printed, FinalReportComplete
    <2>6. CASE final' = [p \in 1 .. Last |-> Counters(p)]
        <3>1. Last \in Nat
            BY DEF TypeOK, Last
        <3>2. Len(final') = NumPhases
            BY <2>2, <2>6, <3>1
        <3>3. ASSUME NEW p \in 1 .. NumPhases
              PROVE  /\ final'[p] = Counters(p)' /\ final'[p].completed = reported'[p]
                     /\ ~told' => final'[p].completed = final'[p].tasks
            <4>1. final'[p] = Counters(p) /\ Counters(p)' = Counters(p)
                BY <2>2, <2>6 DEF Counters
            <4>2. reported[p] = phases[p].completed
                BY <2>2 DEF Run, Reported
            <4>3. ~told => phases[p].completed = phases[p].tasks
                BY <2>1, <2>2 DEF Untold
            <4> QED
                BY <2>1, <4>1, <4>2, <4>3 DEF Counters
        <3> QED
            BY <2>1, <2>3, <3>2, <3>3 DEF Printed, FinalReportComplete
    <2> QED
        BY <2>1, <2>5, <2>6
<1>3. CASE main # "over" /\ ~FinishReport
    <2> USE DEF sideVars, outVars, runVars, snapVars
    <2>1. final = << >>
        BY <1>3 DEF Printed
    <2>2. final' = final
        BY <1>3 DEF Next, Cancel, Reporter, TickerFires, CtxDone, LookStarted, LoadActive, FirstLoad, SecondLoad,
            PrintLine, ReporterOnly, Reader, LockPhases, SnapLoad, SnapshotOnly, vars, Orchestrator, Start,
            BeginPhase, PublishPhase, AddTasks, EndPhase, TellInterrupted, FinishSwap, FinishLine, Work,
            TakeTask, ReportSubtask, LoadPhase, ReportTaskCompleted
    <2>3. CASE TellInterrupted
        <3>1. main = "returned" /\ main' = "finish" /\ told' = cancelled /\ phases' = phases /\ Last' = Last
            BY <2>3 DEF TellInterrupted, Last
        <3> QED
            BY <2>1, <2>2, <3>1 DEF Untold, Printed, FinalReportComplete, Run, AllBooked, Booked
    <2>4. CASE FinishSwap \/ FinishLine
        <3>1. main \in {"finish", "lastLine"} /\ told' = told /\ phases' = phases /\ Last' = Last
            BY <2>4 DEF FinishSwap, FinishLine, Last
        <3> QED
            BY <2>1, <2>2, <3>1 DEF Untold, Printed, FinalReportComplete
    <2>5. CASE Cancel \/ Reporter \/ Reader \/ UNCHANGED vars
        <3>1. main' = main /\ told' = told /\ phases' = phases /\ Last' = Last
            BY <2>5 DEF Cancel, Reporter, TickerFires, CtxDone, LookStarted, LoadActive, FirstLoad, SecondLoad,
                PrintLine, ReporterOnly, Reader, LockPhases, SnapLoad, SnapshotOnly, vars, Last
        <3> QED
            BY <2>1, <2>2, <3>1 DEF Untold, Printed, FinalReportComplete
    <2>6. CASE Start \/ BeginPhase \/ PublishPhase \/ AddTasks \/ EndPhase \/ (\E w \in Worker : Work(w))
        <3>1. main' \in {"begin", "publish", "work", "returned"}
            <4>1. CASE Start \/ BeginPhase \/ PublishPhase \/ AddTasks \/ EndPhase
                BY <4>1 DEF Start, BeginPhase, PublishPhase, AddTasks, EndPhase
            <4>2. ASSUME NEW w \in Worker, Work(w)
                  PROVE  main' = main /\ main = "work"
                <5>1. main' = main
                    BY <4>2 DEF Work, TakeTask, ReportSubtask, LoadPhase, ReportTaskCompleted
                <5>2. main = "work"
                    BY <4>2 DEF Work, TakeTask, ReportSubtask, LoadPhase, ReportTaskCompleted, Run, Hands, Idle
                <5> QED
                    BY <5>1, <5>2
            <4> QED
                BY <2>6, <4>1, <4>2
        <3> QED
            BY <2>1, <2>2, <3>1 DEF Untold, Printed, FinalReportComplete
    <2> QED
        BY <1>3, <2>3, <2>4, <2>5, <2>6 DEF Next, Orchestrator
<1> QED
    BY <1>1, <1>2, <1>3

-----------------------------------------------------------------------------
LEMMA InvInit == Init => IInv
<1> SUFFICES ASSUME Init
             PROVE  IInv
    OBVIOUS
<1>1. TypeOK /\ Run
    BY TypeInit, RunInit
<1>2. Reading /\ LineBelowFull
    BY DEF Init, Reading, LineBelowFull, NoLine
<1>3. SnapBehind
    BY DEF Init, SnapBehind, NoSnapshot, Last
<1>4. Untold /\ Printed /\ FinalReportComplete
    BY DEF Init, Untold, Printed, FinalReportComplete
<1> QED
    BY <1>1, <1>2, <1>3, <1>4 DEF IInv

LEMMA InvNext == IInv /\ [Next]_vars => IInv'
<1> SUFFICES ASSUME IInv, [Next]_vars
             PROVE  IInv'
    OBVIOUS
<1>1. TypeOK'
    BY TypeNext DEF IInv
<1>2. Run'
    BY <1>1, RunNext DEF IInv
<1> QED
    BY <1>1, <1>2, ReadingNext, SnapBehindNext, ReportNext DEF IInv

(* IInv holds in every reachable state.                                    *)
THEOREM Invariance == Spec => []IInv
BY InvInit, InvNext, PTL DEF Spec

(* Every counter, pointer and position stays in its range; the phases of a *)
(* run are never more than it announced (monitor.go:88-94).                *)
THEOREM TypeCorrect == Spec => []TypeOK
<1>1. IInv => TypeOK
    BY DEF IInv
<1> QED
    BY <1>1, Invariance, PTL

(* "progress never exceeds 100%" in any live line and in Finish's own      *)
(* last one, read while the workers go on reporting (counter.go:265).      *)
THEOREM LinesBelowFull == Spec => []LineBelowFull
<1>1. IInv => LineBelowFull
    BY DEF IInv
<1> QED
    BY <1>1, Invariance, PTL

(* The final report is complete, and at 100% in every phase of a run that  *)
(* was not reported as interrupted (monitor.go:295-321, main.go:95-100).   *)
THEOREM FinalComplete == Spec => []FinalReportComplete
<1>1. IInv => FinalReportComplete
    BY DEF IInv
<1> QED
    BY <1>1, Invariance, PTL

(* A closed phase never changes again, although workers add through a      *)
(* pointer they have loaded before (monitor.go:66-68).                     *)
THEOREM Frozen == Spec => ClosedPhaseFrozen
<1> DEFINE Keeps == \A p \in 1 .. Last : /\ p \in DOMAIN phases'
                                         /\ phases[p].endTime = "set" => phases'[p] = phases[p]
<1>1. IInv /\ IInv' /\ [Next]_vars => Keeps
    <2> SUFFICES ASSUME IInv, IInv', [Next]_vars
                 PROVE  Keeps
        OBVIOUS
    <2>1. TypeOK /\ Run /\ TypeOK'
        BY DEF IInv
    <2>2. /\ Last <= Last'
          /\ \A p \in 1 .. Last : phases[p].endTime = "set" => phases'[p] = phases[p]
        BY <2>1, PhasesMove
    <2>3. Last \in Nat /\ Last' \in Nat /\ DOMAIN phases' = 1 .. Last'
        BY <2>1 DEF TypeOK, Last
    <2> QED
        BY <2>2, <2>3
<1>2. Spec => [][Keeps]_vars
    BY <1>1, Invariance, PTL DEF Spec
<1> QED
    BY <1>2, PTL DEF ClosedPhaseFrozen

-----------------------------------------------------------------------------
(* Sums. A total over the phases is the number of pairs of a phase and a   *)
(* number up to its counter; FoldFunction computes that number.            *)
Blocks(S, f) == {q \in S \X Nat : q[2] \in 1 .. f[q[1]]}

LEMMA BlocksOne ==
    ASSUME NEW x, NEW n \in Nat
    PROVE  IsFiniteSet({x} \X (1 .. n)) /\ Cardinality({x} \X (1 .. n)) = n
<1>1. IsFiniteSet(1 .. n) /\ Cardinality(1 .. n) = IF 1 > n THEN 0 ELSE n - 1 + 1
    BY FS_Interval
<1>2. IsFiniteSet({x}) /\ Cardinality({x}) = 1
    BY FS_Singleton
<1>3. Cardinality(1 .. n) = n
    BY <1>1
<1>4. IsFiniteSet({x} \X (1 .. n)) /\ Cardinality({x} \X (1 .. n)) = Cardinality({x}) * Cardinality(1 .. n)
    BY <1>1, <1>2, FS_Product
<1> QED
    BY <1>2, <1>3, <1>4

LEMMA BlocksFinite ==
    ASSUME NEW S, IsFiniteSet(S), NEW f, \A x \in S : f[x] \in Nat
    PROVE  IsFiniteSet(Blocks(S, f)) /\ Cardinality(Blocks(S, f)) \in Nat
<1> DEFINE F == {{x} \X (1 .. f[x]) : x \in S}
           m == [x \in S |-> {x} \X (1 .. f[x])]
<1>1. IsFiniteSet(F)
  <2>1. m \in [S -> F] /\ \A T \in F : \E x \in S : m[x] = T
    OBVIOUS
  <2> HIDE DEF m, F
  <2>2. m \in Surjection(S, F)
    BY <2>1, Fun_IsSurj
  <2> QED
    BY <2>2, FS_Surjection
<1>2. ASSUME NEW T \in F PROVE IsFiniteSet(T)
  <2>1. PICK x \in S : T = {x} \X (1 .. f[x])
    OBVIOUS
  <2> QED
    BY <2>1, BlocksOne
<1>3. IsFiniteSet(UNION F)
  <2> HIDE DEF F
  <2> QED BY <1>1, <1>2, FS_UNION
<1>4. Blocks(S, f) \subseteq UNION F
  <2>1. ASSUME NEW q \in Blocks(S, f) PROVE q \in UNION F
    <3>1. q[1] \in S /\ q[2] \in 1 .. f[q[1]] /\ q = <<q[1], q[2]>>
        BY DEF Blocks
    <3>2. q \in {q[1]} \X (1 .. f[q[1]])
        BY <3>1
    <3> QED
        BY <3>1, <3>2
  <2> QED
    BY <2>1
<1> QED
    BY <1>3, <1>4, FS_Subset, FS_CardinalityType

LEMMA BlocksSplit ==
    ASSUME NEW S, IsFiniteSet(S), NEW f, \A x \in S : f[x] \in Nat, NEW x \in S
    PROVE  Cardinality(Blocks(S, f)) = f[x] + Cardinality(Blocks(S \ {x}, f))
<1> DEFINE R == S \ {x}
           B == {x} \X (1 .. f[x])
<1>1. IsFiniteSet(R) /\ R \subseteq S
    BY FS_Subset
<1>2. IsFiniteSet(Blocks(R, f)) /\ Cardinality(Blocks(R, f)) \in Nat
    BY <1>1, BlocksFinite
<1>3. IsFiniteSet(B) /\ Cardinality(B) = f[x]
    BY BlocksOne
<1>4. Blocks(S, f) = B \cup Blocks(R, f)
  <2>1. Blocks(S, f) \subseteq B \cup Blocks(R, f)
    BY DEF Blocks
  <2>2. B \subseteq Blocks(S, f)
    BY DEF Blocks
  <2>3. Blocks(R, f) \subseteq Blocks(S, f)
    BY DEF Blocks
  <2> QED
    BY <2>1, <2>2, <2>3
<1>5. B \cap Blocks(R, f) = {}
    BY DEF Blocks
<1> HIDE DEF R, B
<1>6. Cardinality(B \cup Blocks(R, f)) = Cardinality(B) + Cardinality(Blocks(R, f)) - Cardinality({})
    BY <1>2, <1>3, <1>5, FS_Union
<1> QED
    BY <1>2, <1>3, <1>4, <1>6, FS_EmptySet DEF R

(* Of the sets of a finite family one has the fewest members.              *)
LEMMA Smallest ==
    ASSUME NEW A, A # {}, \A F \in A : IsFiniteSet(F)
    PROVE  \E F \in A : \A G \in A : Cardinality(F) <= Cardinality(G)
<1> DEFINE T == {Cardinality(F) : F \in A}
           R == {p \in Nat \X Nat : p[1] < p[2]}
<1>1. T \in SUBSET Nat /\ T # {}
    BY FS_CardinalityType
<1>2. IsWellFoundedOn(R, Nat)
    BY NatLessThanWellFounded DEF OpToRel
<1>3. PICK n \in T : \A m \in T : ~ (<<m, n>> \in R)
  <2> HIDE DEF T, R
  <2> QED BY <1>1, <1>2, WFMin
<1>4. PICK F \in A : n = Cardinality(F)
    BY <1>3
<1>5. ASSUME NEW G \in A PROVE Cardinality(F) <= Cardinality(G)
  <2>1. Cardinality(G) \in T /\ Cardinality(G) \in Nat /\ Cardinality(F) \in Nat
    BY <1>5, FS_CardinalityType
  <2>2. ~ (Cardinality(G) < Cardinality(F))
    BY <1>3, <1>4, <2>1
  <2> QED
    BY <2>1, <2>2
<1> QED
    BY <1>5

Picked(s) == CHOOSE x \in s : TRUE

LEMMA FoldCounts ==
    ASSUME NEW S, IsFiniteSet(S), NEW f, f \in [S -> Nat]
    PROVE  FoldFunction(LAMBDA a, b : a + b, 0, f) = Cardinality(Blocks(S, f))
<1> DEFINE Adds(g) == g = [s \in SUBSET S |-> IF s = {} THEN 0 ELSE f[Picked(s)] + g[s \ {Picked(s)}]]
           g == CHOOSE h : Adds(h)
           h == [s \in SUBSET S |-> Cardinality(Blocks(s, f))]
<1>0. \A s \in SUBSET S : IsFiniteSet(s) /\ (\A x \in s : f[x] \in Nat)
    BY FS_Subset
<1>1. ASSUME NEW s \in SUBSET S, s # {}
      PROVE  /\ Picked(s) \in s /\ s \ {Picked(s)} \in SUBSET S
             /\ Cardinality(Blocks(s, f)) = f[Picked(s)] + Cardinality(Blocks(s \ {Picked(s)}, f))
  <2>1. Picked(s) \in s
    BY <1>1 DEF Picked
  <2> QED
    BY <2>1, <1>0, BlocksSplit
<1>2. Cardinality(Blocks({}, f)) = 0
  <2>1. Blocks({}, f) = {}
    BY DEF Blocks
  <2> QED
    BY <2>1, FS_EmptySet
<1>3. Adds(h)
  <2>1. ASSUME NEW s \in SUBSET S
        PROVE  (IF s = {} THEN 0 ELSE f[Picked(s)] + h[s \ {Picked(s)}]) = Cardinality(Blocks(s, f))
    <3>1. CASE s = {}
        BY <3>1, <1>2
    <3>2. CASE s # {}
        BY <3>2, <1>1
    <3> QED
        BY <3>1, <3>2
  <2>2. [s \in SUBSET S |-> IF s = {} THEN 0 ELSE f[Picked(s)] + h[s \ {Picked(s)}]]
            = [s \in SUBSET S |-> Cardinality(Blocks(s, f))]
    <3> HIDE DEF h
    <3> QED BY <2>1
  <2> QED
    BY <2>2
<1>4. Adds(g)
  <2> HIDE DEF Adds, h
  <2> QED BY <1>3
<1>5. \A s \in SUBSET S : g[s] = IF s = {} THEN 0 ELSE f[Picked(s)] + g[s \ {Picked(s)}]
  <2>1. g = [s \in SUBSET S |-> IF s = {} THEN 0 ELSE f[Picked(s)] + g[s \ {Picked(s)}]]
    BY <1>4
  <2> HIDE DEF g
  <2> QED BY <2>1
<1>6. FoldFunction(LAMBDA a, b : a + b, 0, f) = g[S]
    BY DEF FoldFunction, FoldFunctionOnSet, MapThenFoldSet, Picked
<1> HIDE DEF g
<1> DEFINE B == {s \in SUBSET S : g[s] # Cardinality(Blocks(s, f))}
<1>7. B = {}
  <2> SUFFICES ASSUME B # {} PROVE FALSE
    OBVIOUS
  <2>1. \A s \in B : IsFiniteSet(s)
    BY <1>0
  <2>2. PICK s \in B : \A r \in B : Cardinality(s) <= Cardinality(r)
    <3> HIDE DEF B
    <3> QED BY <2>1, Smallest
  <2>3. s \in SUBSET S /\ g[s] # Cardinality(Blocks(s, f)) /\ IsFiniteSet(s)
    BY <2>1, <2>2
  <2>4. s # {}
    BY <2>3, <1>2, <1>5
  <2> DEFINE r == s \ {Picked(s)}
  <2>5. Picked(s) \in s /\ r \in SUBSET S /\ Cardinality(Blocks(s, f)) = f[Picked(s)] + Cardinality(Blocks(r, f))
    BY <1>1, <2>3, <2>4
  <2>6. g[s] = f[Picked(s)] + g[r]
    BY <1>5, <2>3, <2>4
  <2>7. r \in B
    BY <2>3, <2>5, <2>6
  <2>8. Cardinality(r) < Cardinality(s) /\ Cardinality(r) \in Nat /\ Cardinality(s) \in Nat
    BY <2>3, <2>5, FS_Subset, FS_CardinalityType
  <2> QED
    BY <2>2, <2>7, <2>8
<1> QED
    BY <1>6, <1>7


-----------------------------------------------------------------------------
(* The counters of the phases, and their totals.                           *)
CountsOf(c) == [p \in 1 .. Last |-> phases[p][c]]
Upto(k, c) == Cardinality(Blocks(1 .. k, CountsOf(c)))

LEMMA PhaseCounts ==
    ASSUME NEW ph \in Phase, NEW c \in Counter
    PROVE  /\ ph[c] \in Nat
           /\ [ph EXCEPT !.endTime = "set"][c] = ph[c]
           /\ [ph EXCEPT !.tasks = ph.tasks + 1][c] = IF c = "tasks" THEN ph[c] + 1 ELSE ph[c]
           /\ [ph EXCEPT !.subtasks = ph.subtasks + 1][c] = IF c = "subtasks" THEN ph[c] + 1 ELSE ph[c]
           /\ [ph EXCEPT !.completed = ph.completed + 1][c] = IF c = "completed" THEN ph[c] + 1 ELSE ph[c]
<1>1. c = "tasks" \/ c = "completed" \/ c = "subtasks"
    BY DEF Counter
<1>2. ph.tasks \in Nat /\ ph.completed \in Nat /\ ph.subtasks \in Nat
    BY PhaseFields
<1>3. ph = [tasks |-> ph.tasks, completed |-> ph.completed, subtasks |-> ph.subtasks, endTime |-> ph.endTime]
    BY DEF Phase
<1>4. CASE c = "tasks"
    BY <1>2, <1>3, <1>4
<1>5. CASE c = "completed"
    BY <1>2, <1>3, <1>5
<1>6. CASE c = "subtasks"
    BY <1>2, <1>3, <1>6
<1> QED
    BY <1>1, <1>4, <1>5, <1>6

LEMMA Bumped ==
    ASSUME NEW ph \in Phase
    PROVE  \A c \in Counter :
               /\ ph[c] \in Nat
               /\ ph[c] <= [ph EXCEPT !.tasks = ph.tasks + 1][c]
               /\ ph[c] <= [ph EXCEPT !.subtasks = ph.subtasks + 1][c]
               /\ ph[c] <= [ph EXCEPT !.completed = ph.completed + 1][c]
<1> SUFFICES ASSUME NEW c \in Counter
             PROVE  /\ ph[c] \in Nat
                    /\ ph[c] <= [ph EXCEPT !.tasks = ph.tasks + 1][c]
                    /\ ph[c] <= [ph EXCEPT !.subtasks = ph.subtasks + 1][c]
                    /\ ph[c] <= [ph EXCEPT !.completed = ph.completed + 1][c]
    OBVIOUS
<1>1. ph[c] \in Nat
    BY PhaseCounts
<1>2. ph[c] <= ph[c] /\ ph[c] <= ph[c] + 1
    BY <1>1
<1>3. ph[c] <= [ph EXCEPT !.tasks = ph.tasks + 1][c]
  <2>1. [ph EXCEPT !.tasks = ph.tasks + 1][c] = ph[c] + 1 \/ [ph EXCEPT !.tasks = ph.tasks + 1][c] = ph[c]
    BY PhaseCounts
  <2> QED
    BY <2>1, <1>2
<1>4. ph[c] <= [ph EXCEPT !.subtasks = ph.subtasks + 1][c]
  <2>1. [ph EXCEPT !.subtasks = ph.subtasks + 1][c] = ph[c] + 1 \/ [ph EXCEPT !.subtasks = ph.subtasks + 1][c] = ph[c]
    BY PhaseCounts
  <2> QED
    BY <2>1, <1>2
<1>5. ph[c] <= [ph EXCEPT !.completed = ph.completed + 1][c]
  <2>1. [ph EXCEPT !.completed = ph.completed + 1][c] = ph[c] + 1 \/ [ph EXCEPT !.completed = ph.completed + 1][c] = ph[c]
    BY PhaseCounts
  <2> QED
    BY <2>1, <1>2
<1> QED
    BY <1>1, <1>3, <1>4, <1>5

LEMMA CountsTyped ==
    ASSUME TypeOK, NEW c \in Counter
    PROVE  /\ Last \in Nat /\ CountsOf(c) \in [1 .. Last -> Nat]
           /\ \A p \in 1 .. Last : CountsOf(c)[p] = phases[p][c] /\ phases[p][c] \in Nat
<1>1. Last \in Nat
    BY DEF TypeOK, Last
<1>2. \A p \in 1 .. Last : phases[p][c] \in Nat
    BY PhaseAt, PhaseCounts
<1> QED
    BY <1>1, <1>2 DEF CountsOf

LEMMA Totals ==
    ASSUME TypeOK, NEW c \in Counter
    PROVE  /\ TotalOf(c) = Upto(Last, c)
           /\ Upto(0, c) = 0
           /\ \A k \in 0 .. Last : Upto(k, c) \in Nat
           /\ \A k \in 1 .. Last : Upto(k, c) = Upto(k - 1, c) + phases[k][c]
<1>1. /\ Last \in Nat /\ CountsOf(c) \in [1 .. Last -> Nat]
      /\ \A p \in 1 .. Last : CountsOf(c)[p] = phases[p][c] /\ phases[p][c] \in Nat
    BY CountsTyped
<1>2. \A k \in 0 .. Last : IsFiniteSet(1 .. k) /\ \A p \in 1 .. k : CountsOf(c)[p] \in Nat
  <2> SUFFICES ASSUME NEW k \in 0 .. Last
               PROVE  IsFiniteSet(1 .. k) /\ \A p \in 1 .. k : CountsOf(c)[p] \in Nat
    OBVIOUS
  <2>1. IsFiniteSet(1 .. k)
    BY FS_Interval
  <2>2. 1 .. k \subseteq 1 .. Last
    BY <1>1
  <2> QED
    BY <2>1, <2>2, <1>1
<1>3. TotalOf(c) = Upto(Last, c)
  <2>1. IsFiniteSet(1 .. Last)
    BY <1>1, <1>2
  <2>2. FoldFunction(LAMBDA a, b : a + b, 0, CountsOf(c)) = Cardinality(Blocks(1 .. Last, CountsOf(c)))
    BY <1>1, <2>1, FoldCounts
  <2> QED
    BY <2>2 DEF TotalOf, Upto, CountsOf
<1>4. Upto(0, c) = 0
  <2>1. Blocks(1 .. 0, CountsOf(c)) = {}
    BY DEF Blocks
  <2> QED
    BY <2>1, FS_EmptySet DEF Upto
<1>5. \A k \in 0 .. Last : Upto(k, c) \in Nat
    BY <1>2, BlocksFinite DEF Upto
<1>6. ASSUME NEW k \in 1 .. Last PROVE Upto(k, c) = Upto(k - 1, c) + phases[k][c]
  <2>1. k \in 0 .. Last /\ k - 1 \in 0 .. Last /\ k \in 1 .. k /\ (1 .. k) \ {k} = 1 .. (k - 1)
    BY <1>1
  <2>2. Cardinality(Blocks(1 .. k, CountsOf(c))) = CountsOf(c)[k] + Cardinality(Blocks((1 .. k) \ {k}, CountsOf(c)))
    BY <1>2, <2>1, BlocksSplit
  <2>3. Upto(k, c) = phases[k][c] + Upto(k - 1, c)
    BY <1>1, <2>1, <2>2 DEF Upto
  <2> QED
    BY <1>1, <1>5, <2>1, <2>3
<1> QED
    BY <1>3, <1>4, <1>5, <1>6

(* A total is no less when no counter is.                                  *)
LEMMA BlocksGrow ==
    ASSUME NEW k \in Nat, NEW f, NEW g,
           \A p \in 1 .. k : f[p] \in Nat /\ g[p] \in Nat /\ f[p] <= g[p]
    PROVE  /\ Cardinality(Blocks(1 .. k, f)) <= Cardinality(Blocks(1 .. k, g))
           /\ (\A p \in 1 .. k : f[p] = g[p]) => Cardinality(Blocks(1 .. k, f)) = Cardinality(Blocks(1 .. k, g))
<1>1. IsFiniteSet(1 .. k)
    BY FS_Interval
<1>2. IsFiniteSet(Blocks(1 .. k, g))
    BY <1>1, BlocksFinite
<1>3. Blocks(1 .. k, f) \subseteq Blocks(1 .. k, g)
    BY DEF Blocks
<1>4. (\A p \in 1 .. k : f[p] = g[p]) => Blocks(1 .. k, f) = Blocks(1 .. k, g)
    BY DEF Blocks
<1> QED
    BY <1>2, <1>3, <1>4, FS_Subset

-----------------------------------------------------------------------------
(* What a step does to the counters: none goes back, and only those of the *)
(* newest phase move.                                                      *)
CountersKeep ==
    /\ Last <= Last'
    /\ \A p \in 1 .. Last, c \in Counter :
        /\ phases'[p][c] \in Nat /\ phases[p][c] \in Nat
        /\ phases[p][c] <= phases'[p][c]
        /\ p < Last => phases'[p][c] = phases[p][c]

LEMMA OnlyNewestMoves ==
    ASSUME TypeOK, NEW p \in 1 .. Last, p = Last, NEW x \in Phase, phases' = [phases EXCEPT ![p] = x],
           \A c \in Counter : phases[p][c] <= x[c]
    PROVE  CountersKeep
<1>1. Last \in Nat /\ \A q \in 1 .. Last, c \in Counter : phases[q][c] \in Nat
    BY CountsTyped DEF Counter
<1>2. Last' = Last /\ phases'[p] = x /\ \A q \in 1 .. Last : q # p => phases'[q] = phases[q]
    BY OnePhaseMoves
<1>3. \A c \in Counter : x[c] \in Nat
    BY PhaseCounts
<1> QED
    BY <1>1, <1>2, <1>3 DEF CountersKeep

LEMMA CountersGrow ==
    ASSUME TypeOK, Run, [Next]_vars
    PROVE  CountersKeep /\ (snap.ph # 0 => Last' = Last)
<1>0. Last \in Nat /\ \A p \in 1 .. Last : phases[p] \in Phase /\ \A c \in Counter : phases[p][c] \in Nat
  <2>1. Last \in Nat
    BY DEF TypeOK, Last
  <2>2. \A p \in 1 .. Last : phases[p] \in Phase
    BY PhaseAt
  <2> QED
    BY <2>1, <2>2, Bumped
<1>1. CASE phases' = phases
    BY <1>0, <1>1 DEF CountersKeep, Last
<1>2. CASE BeginPhase
    <2> DEFINE old == [p \in 1 .. Last |-> IF p = active THEN ClosePhase(p) ELSE phases[p]]
    <2>1. snap.ph = 0 /\ phases' = Append(old, NewPhase)
        BY <1>2 DEF BeginPhase, MuFree
    <2>2. \A p \in 1 .. Last : old[p] \in Phase
        BY PhaseAt, PhaseUpdates DEF ClosePhase
    <2>3. old \in Seq(Phase) /\ Len(old) = Last
        BY <1>0, <2>2
    <2>4. Last' = Last + 1 /\ \A p \in 1 .. Last : phases'[p] = old[p]
        <3> HIDE DEF old
        <3> QED
            BY <1>0, <2>1, <2>3 DEF Last
    <2>5. ASSUME NEW p \in 1 .. Last, NEW c \in Counter
          PROVE  phases'[p][c] = phases[p][c]
        <3>1. ClosePhase(p)[c] = phases[p][c]
            BY <1>0, PhaseCounts DEF ClosePhase
        <3> QED
            BY <2>4, <3>1
    <2> HIDE DEF old
    <2>6. \A p \in 1 .. Last, c \in Counter :
              /\ phases'[p][c] \in Nat /\ phases[p][c] \in Nat
              /\ phases[p][c] <= phases'[p][c] /\ phases'[p][c] = phases[p][c]
        BY <1>0, <2>5
    <2>7. Last <= Last'
        BY <1>0, <2>4
    <2>8. CountersKeep
        BY <2>6, <2>7 DEF CountersKeep
    <2> QED
        BY <2>1, <2>8
<1>3. CASE FinishReport
    <2>1. active \in 1 .. Last /\ active = Last
        BY <1>0, <1>3, MonitorAssumption DEF FinishReport, Run, Placed
    <2>2. ClosePhase(active) \in Phase /\ \A c \in Counter : ClosePhase(active)[c] = phases[active][c]
        BY <1>0, <2>1, PhaseUpdates, PhaseCounts DEF ClosePhase
    <2>3. phases' = [phases EXCEPT ![active] = ClosePhase(active)]
        BY <1>3 DEF FinishReport
    <2>4. \A c \in Counter : phases[active][c] <= ClosePhase(active)[c]
        BY <1>0, <2>1, <2>2
    <2>5. CountersKeep
        BY <2>1, <2>2, <2>3, <2>4, OnlyNewestMoves
    <2>6. snap.ph = 0
        BY <1>3 DEF FinishReport, MuFree
    <2> QED
        BY <2>5, <2>6
<1>4. CASE AddTasks
    <2> DEFINE y == [phases[active] EXCEPT !.tasks = phases[active].tasks + 1]
    <2>1. active \in 1 .. Last /\ main = "work" /\ active = Last
        BY <1>0, <1>4 DEF AddTasks, Run, Placed
    <2>2. y \in Phase /\ phases' = [phases EXCEPT ![active] = y]
        BY <1>0, <1>4, <2>1, PhaseUpdates DEF AddTasks
    <2>3. \A c \in Counter : phases[active][c] <= y[c]
        BY <1>0, <2>1, Bumped
    <2> HIDE DEF y
    <2>4. CountersKeep
        BY <2>1, <2>2, <2>3, OnlyNewestMoves
    <2>5. Last' = Last
        BY <2>1, <2>2, OnePhaseMoves
    <2> QED
        BY <2>4, <2>5
<1>5. ASSUME NEW w \in Worker, ReportSubtask(w) \/ ReportTaskCompleted(w)
      PROVE  CountersKeep /\ Last' = Last
    <2>1. job[w] # Idle
        BY <1>5 DEF ReportSubtask, ReportTaskCompleted, Idle
    <2>2. job[w].ph = active /\ active \in 1 .. Last /\ active = Last
        BY <1>0, <2>1, HandsHoldPhase
    <2>3. phases[active] \in Phase
        BY <1>0, <2>2
    <2>4. PICK y \in Phase : /\ phases' = [phases EXCEPT ![active] = y]
                             /\ \A c \in Counter : phases[active][c] <= y[c]
        <3>1. CASE ReportSubtask(w)
            <4> DEFINE y == [phases[active] EXCEPT !.subtasks = phases[active].subtasks + 1]
            <4>1. y \in Phase /\ \A c \in Counter : phases[active][c] <= y[c]
                BY <2>3, PhaseUpdates, Bumped
            <4>2. phases' = [phases EXCEPT ![active] = y]
                BY <2>2, <3>1 DEF ReportSubtask
            <4> HIDE DEF y
            <4> QED
                BY <4>1, <4>2
        <3>2. CASE ReportTaskCompleted(w)
            <4> DEFINE y == [phases[active] EXCEPT !.completed = phases[active].completed + 1]
            <4>1. y \in Phase /\ \A c \in Counter : phases[active][c] <= y[c]
                BY <2>3, PhaseUpdates, Bumped
            <4>2. phases' = [phases EXCEPT ![active] = y]
                BY <2>2, <3>2 DEF ReportTaskCompleted
            <4> HIDE DEF y
            <4> QED
                BY <4>1, <4>2
        <3> QED
            BY <1>5, <3>1, <3>2
    <2>5. CountersKeep
        BY <2>2, <2>4, OnlyNewestMoves
    <2>6. Last' = Last
        BY <2>2, <2>4, OnePhaseMoves
    <2> QED
        BY <2>5, <2>6
<1>6. CASE UNCHANGED vars
    BY <1>1, <1>6 DEF vars, runVars, Last
<1>7. CASE Cancel \/ Reporter \/ Reader
    BY <1>1, <1>7, Bystanders DEF runVars, Last
<1>8. CASE Start \/ PublishPhase \/ EndPhase \/ TellInterrupted \/ FinishSwap \/ FinishLine
    BY <1>1, <1>8 DEF Start, PublishPhase, EndPhase, TellInterrupted, FinishSwap, FinishLine, Last
<1>9. ASSUME NEW w \in Worker, TakeTask(w) \/ LoadPhase(w)
      PROVE  CountersKeep /\ Last' = Last
    <2>1. phases' = phases
        BY <1>9 DEF TakeTask, LoadPhase
    <2> QED
        BY <1>1, <2>1 DEF Last
<1> QED
    BY <1>0, <1>2, <1>3, <1>4, <1>5, <1>6, <1>7, <1>8, <1>9 DEF Next, Orchestrator, Work


-----------------------------------------------------------------------------
(* A completed task has had its statistics folded in before: what a phase  *)
(* has completed, and the workers between the two reports, are no more     *)
(* than its subtasks.                                                      *)
HasFolded(p) == {w \in Worker : job[w].at \in {"between", "complete"} /\ job[w].ph = p}
Folded == \A p \in 1 .. Last : phases[p].completed + Cardinality(HasFolded(p)) <= phases[p].subtasks

LEMMA HasFoldedCount == \A p : IsFiniteSet(HasFolded(p)) /\ Cardinality(HasFolded(p)) \in Nat
BY MonitorAssumption, FS_Subset, FS_CardinalityType DEF HasFolded

LEMMA FoldedBelow ==
    ASSUME TypeOK, Folded, NEW p \in 1 .. Last
    PROVE  phases[p].completed <= phases[p].subtasks
<1>1. phases[p].completed \in Nat /\ phases[p].subtasks \in Nat
    BY PhaseAt, PhaseFields
<1> QED
    BY <1>1, HasFoldedCount DEF Folded

(* No worker moves: its phases keep their two counters, a new one has none. *)
LEMMA FoldedRests ==
    ASSUME TypeOK, Folded, job' = job, Last' \in Nat, Last <= Last',
           \A p \in 1 .. Last : phases'[p].completed = phases[p].completed
                                /\ phases'[p].subtasks = phases[p].subtasks,
           \A p \in (Last + 1) .. Last' : phases'[p] = NewPhase /\ HasFolded(p) = {}
    PROVE  Folded'
<1>0. Last \in Nat
    BY DEF TypeOK, Last
<1>1. \A p : HasFolded(p)' = HasFolded(p)
    BY DEF HasFolded
<1>2. ASSUME NEW p \in 1 .. Last'
      PROVE  phases'[p].completed + Cardinality(HasFolded(p)) <= phases'[p].subtasks
  <2>1. CASE p \in 1 .. Last
    BY <2>1 DEF Folded
  <2>2. CASE p \in (Last + 1) .. Last'
    <3>1. Cardinality(HasFolded(p)) = 0
        BY <2>2, FS_EmptySet
    <3> QED
        BY <2>2, <3>1 DEF NewPhase
  <2> QED
    BY <1>0, <2>1, <2>2
<1> QED
    BY <1>1, <1>2 DEF Folded

LEMMA OrchestratorFolds == ASSUME TypeOK, Run, Folded, Orchestrator PROVE Folded'
<1>0. Last \in Nat /\ \A p \in 1 .. Last : phases[p] \in Phase
    BY PhaseAt DEF TypeOK, Last
<1>1. CASE Start \/ PublishPhase \/ EndPhase \/ TellInterrupted \/ FinishSwap \/ FinishLine
  <2>1. phases' = phases /\ job' = job
    BY <1>1 DEF Start, PublishPhase, EndPhase, TellInterrupted, FinishSwap, FinishLine
  <2> QED
    BY <1>0, <2>1, FoldedRests DEF Last
<1>2. CASE BeginPhase
  <2> DEFINE old == [p \in 1 .. Last |-> IF p = active THEN ClosePhase(p) ELSE phases[p]]
  <2>1. phases' = Append(old, NewPhase) /\ job' = job /\ main = "begin"
    BY <1>2 DEF BeginPhase
  <2>2. \A p \in 1 .. Last : /\ old[p] \in Phase
                             /\ old[p].completed = phases[p].completed /\ old[p].subtasks = phases[p].subtasks
    BY <1>0, PhaseUpdates DEF ClosePhase, Phase
  <2>3. old \in Seq(Phase) /\ Len(old) = Last
    BY <1>0, <2>2
  <2>4. Last' = Last + 1 /\ phases'[Last + 1] = NewPhase /\ \A p \in 1 .. Last : phases'[p] = old[p]
    <3> HIDE DEF old
    <3> QED
        BY <1>0, <2>1, <2>3 DEF Last
  <2> HIDE DEF old
  <2>5. \A p : HasFolded(p) = {}
    BY <2>1 DEF HasFolded, Run, Hands, Idle
  <2>6. Last' \in Nat /\ Last <= Last'
    BY <1>0, <2>4
  <2>7. ASSUME NEW p \in (Last + 1) .. Last'
        PROVE  phases'[p] = NewPhase /\ HasFolded(p) = {}
    <3>1. p = Last + 1
        BY <1>0, <2>4
    <3> QED
        BY <2>4, <2>5, <3>1
  <2>8. \A p \in 1 .. Last : phases'[p].completed = phases[p].completed /\ phases'[p].subtasks = phases[p].subtasks
    BY <2>2, <2>4
  <2>9. job' = job
    BY <2>1
  <2> QED
    BY <2>6, <2>7, <2>8, <2>9, FoldedRests
<1>3. CASE FinishReport \/ AddTasks
  <2>1. active \in 1 .. Last /\ job' = job
    BY <1>0, <1>3, MonitorAssumption DEF FinishReport, AddTasks, Run, Placed
  <2>2. PICK y \in Phase : /\ phases' = [phases EXCEPT ![active] = y]
                           /\ y.completed = phases[active].completed /\ y.subtasks = phases[active].subtasks
    <3>1. CASE FinishReport
      <4> DEFINE y == ClosePhase(active)
      <4>1. y \in Phase /\ y.completed = phases[active].completed /\ y.subtasks = phases[active].subtasks
        BY <1>0, <2>1, PhaseUpdates DEF ClosePhase, Phase
      <4>2. phases' = [phases EXCEPT ![active] = y]
        BY <3>1 DEF FinishReport
      <4> HIDE DEF y
      <4> QED
        BY <4>1, <4>2
    <3>2. CASE AddTasks
      <4> DEFINE y == [phases[active] EXCEPT !.tasks = phases[active].tasks + 1]
      <4>1. phases[active].tasks < MaxTasks /\ phases' = [phases EXCEPT ![active] = y]
        BY <2>1, <3>2 DEF AddTasks
      <4>2. y \in Phase /\ y.completed = phases[active].completed /\ y.subtasks = phases[active].subtasks
        BY <1>0, <2>1, <4>1, PhaseUpdates DEF Phase
      <4> HIDE DEF y
      <4> QED
        BY <4>1, <4>2
    <3> QED
        BY <1>3, <3>1, <3>2
  <2>3. Last' = Last /\ phases'[active] = y /\ \A q \in 1 .. Last : q # active => phases'[q] = phases[q]
    BY <2>1, <2>2, OnePhaseMoves
  <2>4. \A p \in 1 .. Last : phases'[p].completed = phases[p].completed /\ phases'[p].subtasks = phases[p].subtasks
    BY <2>2, <2>3
  <2>5. Last' \in Nat /\ Last <= Last' /\ (Last + 1) .. Last' = {}
    BY <1>0, <2>3
  <2> QED
    BY <2>1, <2>4, <2>5, FoldedRests
<1> QED
    BY <1>1, <1>2, <1>3 DEF Orchestrator

LEMMA WorkFolds == ASSUME TypeOK, Run, Folded, NEW w \in Worker, Work(w) PROVE Folded'
<1>0. Last \in Nat /\ \A p \in 1 .. Last : phases[p] \in Phase
    BY PhaseAt DEF TypeOK, Last
<1>1. job \in [Worker -> [at : {"idle", "subtask", "between", "complete"}, ph : 0 .. NumPhases]]
    BY DEF TypeOK
<1>2. CASE TakeTask(w) \/ LoadPhase(w)
  <2>1. phases' = phases
    BY <1>2 DEF TakeTask, LoadPhase
  <2>2. /\ \A u \in Worker : u # w => job'[u] = job[u]
        /\ \/ job[w].at = "idle" /\ job'[w].at = "subtask"
           \/ job[w].at = "between" /\ job'[w].at = "complete" /\ job'[w].ph = job[w].ph
    <3>1. CASE TakeTask(w)
        BY <1>1, <3>1 DEF TakeTask, WorkerAt, Idle
    <3>2. CASE LoadPhase(w)
      <4>1. job[w].at = "between" /\ job[w] # Idle
        BY <3>2 DEF LoadPhase, Idle
      <4>2. job[w].ph = active
        BY <4>1, HandsHoldPhase
      <4> QED
        BY <1>1, <3>2, <4>1, <4>2 DEF LoadPhase, WorkerAt
    <3> QED
        BY <1>2, <3>1, <3>2
  <2>3. \A p : HasFolded(p)' = HasFolded(p)
    <3>1. ASSUME NEW p, NEW u \in Worker
          PROVE  (job'[u].at \in {"between", "complete"} /\ job'[u].ph = p)
                    <=> (job[u].at \in {"between", "complete"} /\ job[u].ph = p)
      <4>1. CASE u = w
        BY <2>2, <4>1
      <4>2. CASE u # w
        BY <2>2, <4>2
      <4> QED
        BY <4>1, <4>2
    <3> QED
        BY <3>1 DEF HasFolded
  <2> QED
    BY <2>1, <2>3 DEF Folded, Last
<1>3. CASE ReportSubtask(w) \/ ReportTaskCompleted(w)
  <2>0. PICK i : i = active
    OBVIOUS
  <2>1. job[w] # Idle
    BY <1>3 DEF ReportSubtask, ReportTaskCompleted, Idle
  <2>2. job[w].ph = i /\ i \in 1 .. Last /\ phases[i] \in Phase
    BY <1>0, <2>0, <2>1, HandsHoldPhase
  <2>3. phases[i].completed \in Nat /\ phases[i].subtasks \in Nat
    BY <2>2, PhaseFields
  <2>4. \A u \in Worker : u # w => job'[u] = job[u]
    BY <1>1, <1>3 DEF ReportSubtask, ReportTaskCompleted
  <2>5. \A p : p # i => HasFolded(p)' \subseteq HasFolded(p)
    <3>1. job'[w].ph = job[w].ph \/ job'[w].at = "idle"
        BY <1>1, <1>3 DEF ReportSubtask, ReportTaskCompleted, Idle
    <3>2. ASSUME NEW p, p # i, NEW u \in Worker, job'[u].at \in {"between", "complete"}, job'[u].ph = p
          PROVE  u # w
        BY <2>2, <3>1, <3>2
    <3> QED
        BY <2>4, <3>2 DEF HasFolded
  <2>6. PICK y \in Phase :
            /\ phases' = [phases EXCEPT ![i] = y]
            /\ y.completed + Cardinality(HasFolded(i)') <= y.subtasks
    <3>0. IsFiniteSet(HasFolded(i)) /\ Cardinality(HasFolded(i)) \in Nat
        BY HasFoldedCount
    <3>1. CASE ReportSubtask(w)
      <4> DEFINE y == [phases[i] EXCEPT !.subtasks = phases[i].subtasks + 1]
      <4>1. y \in Phase /\ y.completed = phases[i].completed /\ y.subtasks = phases[i].subtasks + 1
        BY <2>2, PhaseUpdates DEF Phase
      <4>2. phases' = [phases EXCEPT ![i] = y]
        BY <2>2, <3>1 DEF ReportSubtask
      <4>3. job[w].at = "subtask" /\ job'[w].at = "between" /\ job'[w].ph = i
        BY <1>1, <2>2, <3>1 DEF ReportSubtask
      <4>4. w \notin HasFolded(i) /\ HasFolded(i)' = HasFolded(i) \cup {w}
        BY <2>4, <4>3 DEF HasFolded
      <4>5. Cardinality(HasFolded(i) \cup {w}) = Cardinality(HasFolded(i)) + 1
        BY <3>0, <4>4, FS_AddElement
      <4>6. phases[i].completed + Cardinality(HasFolded(i)) <= phases[i].subtasks
        BY <2>2 DEF Folded
      <4> HIDE DEF y
      <4>7. y.completed + Cardinality(HasFolded(i)') <= y.subtasks
        BY <2>3, <3>0, <4>1, <4>4, <4>5, <4>6
      <4> QED
        BY <4>1, <4>2, <4>7
    <3>2. CASE ReportTaskCompleted(w)
      <4> DEFINE y == [phases[i] EXCEPT !.completed = phases[i].completed + 1]
      <4>1. y \in Phase /\ y.subtasks = phases[i].subtasks /\ y.completed = phases[i].completed + 1
        BY <2>2, PhaseUpdates DEF Phase
      <4>2. phases' = [phases EXCEPT ![i] = y]
        BY <2>2, <3>2 DEF ReportTaskCompleted
      <4>3. job[w].at = "complete" /\ job'[w].at = "idle"
        BY <1>1, <3>2 DEF ReportTaskCompleted, Idle
      <4>4. w \in HasFolded(i) /\ HasFolded(i)' = HasFolded(i) \ {w}
        BY <2>2, <2>4, <4>3 DEF HasFolded
      <4>5. Cardinality(HasFolded(i) \ {w}) = Cardinality(HasFolded(i)) - 1
        BY <3>0, <4>4, FS_RemoveElement
      <4>6. phases[i].completed + Cardinality(HasFolded(i)) <= phases[i].subtasks
        BY <2>2 DEF Folded
      <4> HIDE DEF y
      <4>7. y.completed + Cardinality(HasFolded(i)') <= y.subtasks
        BY <2>3, <3>0, <4>1, <4>4, <4>5, <4>6
      <4> QED
        BY <4>1, <4>2, <4>7
    <3> QED
        BY <1>3, <3>1, <3>2
  <2>8. Last' = Last /\ phases'[i] = y /\ \A p \in 1 .. Last : p # i => phases'[p] = phases[p]
    BY <2>2, <2>6, OnePhaseMoves
  <2>9. \A p \in 1 .. Last : phases'[p].completed + Cardinality(HasFolded(p)') <= phases'[p].subtasks
    <3> SUFFICES ASSUME NEW p \in 1 .. Last
                 PROVE  phases'[p].completed + Cardinality(HasFolded(p)') <= phases'[p].subtasks
        OBVIOUS
    <3>1. CASE p = i
        BY <2>6, <2>8, <3>1
    <3>2. CASE p # i
      <4>1. phases'[p] = phases[p] /\ HasFolded(p)' \subseteq HasFolded(p)
        BY <2>5, <2>8, <3>2
      <4>2. IsFiniteSet(HasFolded(p)) /\ Cardinality(HasFolded(p)) \in Nat
        BY HasFoldedCount
      <4>3. Cardinality(HasFolded(p)') <= Cardinality(HasFolded(p)) /\ Cardinality(HasFolded(p)') \in Nat
        BY <4>1, <4>2, FS_Subset, FS_CardinalityType
      <4>4. phases[p].completed \in Nat /\ phases[p].subtasks \in Nat
        BY <1>0, PhaseFields
      <4>5. phases[p].completed + Cardinality(HasFolded(p)) <= phases[p].subtasks
        BY DEF Folded
      <4> QED
        BY <4>1, <4>2, <4>3, <4>4, <4>5
    <3> QED
        BY <3>1, <3>2
  <2> QED
    BY <2>8, <2>9 DEF Folded
<1> QED
    BY <1>2, <1>3 DEF Work

LEMMA FoldedNext == ASSUME TypeOK, Run, Folded, [Next]_vars PROVE Folded'
<1>1. CASE Cancel \/ Reporter \/ Reader \/ UNCHANGED vars
  <2>1. phases' = phases /\ job' = job
    <3>1. CASE Cancel \/ Reporter \/ Reader
        BY <3>1, Bystanders DEF runVars
    <3>2. CASE UNCHANGED vars
        BY <3>2 DEF vars, runVars
    <3> QED
        BY <1>1, <3>1, <3>2
  <2> QED
    BY <2>1 DEF Folded, HasFolded, Last
<1> QED
    BY <1>1, OrchestratorFolds, WorkFolds DEF Next


-----------------------------------------------------------------------------
(* What the reader has added up: a counter that it has read in this phase  *)
(* counts up to it, one that it has not read up to the phase before.  Of   *)
(* the newest phase, whose counters go on moving, it has read no more than *)
(* there is now, and no less than there was at the last snapshot.          *)
Had(i, c) == (c = "tasks" /\ i > 1) \/ (c = "completed" /\ i > 2)

SumSound(k, i, n, c) ==
    IF Had(i, c)
    THEN n <= Upto(k, c) /\ (k < Last => n = Upto(k, c)) /\ (k = Last => shown[c] <= n)
    ELSE n = Upto(k - 1, c)

ShownSound == \A c \in Counter : shown[c] <= Upto(Last, c)
SnapSound == snap.ph > 0 => \A c \in Counter : SumSound(snap.ph, snap.field, snap.sum[c], c)
SInv == IInv /\ Folded /\ ShownSound /\ SnapSound

LEMMA PhasesTyped == TypeOK => Last \in Nat /\ \A p \in 1 .. Last : phases[p] \in Phase
<1>1. ASSUME TypeOK PROVE Last \in Nat
    BY <1>1 DEF TypeOK, Last
<1>2. ASSUME TypeOK PROVE \A p \in 1 .. Last : phases[p] \in Phase
    BY <1>2, PhaseAt
<1> QED
    BY <1>1, <1>2

LEMMA UptoKeeps ==
    ASSUME TypeOK, TypeOK', CountersKeep, NEW c \in Counter, NEW k \in 0 .. Last
    PROVE  /\ Upto(k, c) \in Nat /\ Upto(k, c)' \in Nat /\ Upto(Last, c)' \in Nat
           /\ Upto(k, c) <= Upto(k, c)' /\ Upto(k, c)' <= Upto(Last, c)'
           /\ k < Last => Upto(k, c)' = Upto(k, c)
<1>0. Last \in Nat /\ Last' \in Nat /\ Last <= Last' /\ k \in Nat /\ k <= Last'
  <2>1. Last \in Nat
    BY PhasesTyped
  <2>2. (TypeOK => Last \in Nat)'
    BY PhasesTyped, PTL
  <2> QED
    BY <2>1, <2>2 DEF CountersKeep
<1>1. PICK f, g : f = CountsOf(c) /\ g = CountsOf(c)'
    OBVIOUS
<1>2. \A p \in 1 .. Last : f[p] = phases[p][c]
    BY <1>1 DEF CountsOf
<1>3. \A p \in 1 .. Last' : g[p] = phases'[p][c]
    BY <1>1 DEF CountsOf
<1>4. \A p \in 1 .. k : p \in 1 .. Last /\ p \in 1 .. Last'
    BY <1>0
<1>5. \A p \in 1 .. k : f[p] \in Nat /\ g[p] \in Nat /\ f[p] <= g[p] /\ (k < Last => f[p] = g[p])
    BY <1>0, <1>2, <1>3, <1>4 DEF CountersKeep
<1>6. \A p \in 1 .. Last' : g[p] \in Nat
  <2>1. (TypeOK => \A p \in 1 .. Last : phases[p] \in Phase)'
    BY PhasesTyped, PTL
  <2> QED
    BY <1>3, <2>1, PhaseCounts
<1>7. IsFiniteSet(1 .. k) /\ IsFiniteSet(1 .. Last')
    BY <1>0, FS_Interval
<1>8. /\ Upto(k, c) = Cardinality(Blocks(1 .. k, f))
      /\ Upto(k, c)' = Cardinality(Blocks(1 .. k, g))
      /\ Upto(Last, c)' = Cardinality(Blocks(1 .. Last', g))
    BY <1>1 DEF Upto
<1>9. Cardinality(Blocks(1 .. k, f)) \in Nat
    BY <1>5, <1>7, BlocksFinite
<1>10. Cardinality(Blocks(1 .. k, g)) \in Nat
    BY <1>5, <1>7, BlocksFinite
<1>11. IsFiniteSet(Blocks(1 .. Last', g)) /\ Cardinality(Blocks(1 .. Last', g)) \in Nat
    BY <1>6, <1>7, BlocksFinite
<1>12. Cardinality(Blocks(1 .. k, f)) <= Cardinality(Blocks(1 .. k, g))
    BY <1>0, <1>5, BlocksGrow
<1>13. k < Last => Cardinality(Blocks(1 .. k, f)) = Cardinality(Blocks(1 .. k, g))
    BY <1>0, <1>5, BlocksGrow
<1>14. Cardinality(Blocks(1 .. k, g)) <= Cardinality(Blocks(1 .. Last', g))
  <2>1. Blocks(1 .. k, g) \subseteq Blocks(1 .. Last', g)
    BY <1>0 DEF Blocks
  <2> QED
    BY <1>11, <2>1, FS_Subset
<1> QED
    BY <1>8, <1>9, <1>10, <1>11, <1>12, <1>13, <1>14

LEMMA SnapType ==
    ASSUME TypeOK, SnapBehind
    PROVE  /\ snap.ph \in Nat /\ snap.ph \in 0 .. Last /\ snap.field \in 1 .. 3
           /\ snap.sum \in [Counter -> Nat] /\ shown \in [Counter -> Nat]
<1>1. Last \in Nat /\ snap.ph \in 0 .. NumPhases
    BY DEF TypeOK, Last
<1> QED
    BY <1>1, MonitorAssumption DEF TypeOK, SnapBehind

LEMMA SoundInit == Init => SInv
<1> SUFFICES ASSUME Init
             PROVE  SInv
    OBVIOUS
<1>1. IInv /\ TypeOK
    BY InvInit DEF IInv
<1>2. Last = 0 /\ snap.ph = 0 /\ \A c \in Counter : shown[c] = 0
    BY DEF Init, Last, NoSnapshot, NoCounts
<1>3. Folded
    BY <1>2 DEF Folded
<1>4. \A c \in Counter : Upto(Last, c) = 0
    BY <1>1, <1>2, Totals
<1> QED
    BY <1>1, <1>2, <1>3, <1>4 DEF SInv, ShownSound, SnapSound

(* Nobody but the reader touches the snapshot: what it has read stays      *)
(* sound while the counters move.                                          *)
LEMMA SoundMeanwhile ==
    ASSUME SInv, IInv', [Next]_vars, snap' = snap, shown' = shown
    PROVE  ShownSound' /\ SnapSound'
<1>0. TypeOK /\ TypeOK' /\ Run /\ SnapBehind /\ CountersKeep /\ (snap.ph # 0 => Last' = Last)
    BY CountersGrow DEF SInv, IInv
<1>1. /\ snap.ph \in Nat /\ snap.ph \in 0 .. Last /\ Last \in Nat
      /\ shown \in [Counter -> Nat]  /\ snap.sum \in [Counter -> Nat]
  <2>1. Last \in Nat
    BY <1>0 DEF TypeOK, Last
  <2> QED
    BY <1>0, <2>1, SnapType
<1>2. ShownSound'
  <2>1. ASSUME NEW c \in Counter PROVE shown[c] <= Upto(Last, c)'
    <3>1. PICK l : l = Last
        OBVIOUS
    <3>2. shown[c] <= Upto(l, c)
        BY <3>1 DEF SInv, ShownSound
    <3>3. Upto(l, c) \in Nat /\ Upto(l, c)' \in Nat /\ Upto(Last, c)' \in Nat
          /\ Upto(l, c) <= Upto(l, c)' /\ Upto(l, c)' <= Upto(Last, c)'
        BY <1>0, <1>1, <3>1, UptoKeeps
    <3>4. shown[c] \in Nat
        BY <1>1
    <3> QED
        BY <3>2, <3>3, <3>4
  <2> QED
    BY <2>1 DEF ShownSound
<1>3. SnapSound'
  <2> SUFFICES ASSUME snap.ph > 0
               PROVE  \A c \in Counter : SumSound(snap.ph, snap.field, snap.sum[c], c)'
    BY DEF SnapSound
  <2>1. PICK k, i, s : k = snap.ph /\ i = snap.field /\ s = snap.sum
    OBVIOUS
  <2>2. k = snap'.ph /\ i = snap'.field /\ s = snap'.sum
    BY <2>1
  <2>3. ASSUME NEW c \in Counter PROVE SumSound(k, i, s[c], c)'
    <3>1. SumSound(k, i, s[c], c)
        BY <2>1 DEF SInv, SnapSound
    <3>2. k \in 0 .. Last /\ k - 1 \in 0 .. Last /\ k - 1 < Last /\ Last' = Last /\ s[c] \in Nat
        BY <1>0, <1>1, <2>1
    <3>3. Upto(k, c) \in Nat /\ Upto(k, c)' \in Nat /\ Upto(k, c) <= Upto(k, c)'
          /\ (k < Last => Upto(k, c)' = Upto(k, c))
        BY <1>0, <3>2, UptoKeeps
    <3>4. PICK j : j = k - 1
        OBVIOUS
    <3>5. j \in 0 .. Last /\ j < Last
        BY <3>2, <3>4
    <3>6. Upto(j, c)' = Upto(j, c)
        BY <1>0, <3>5, UptoKeeps
    <3>7. CASE Had(i, c)
      <4>1. s[c] <= Upto(k, c) /\ (k < Last => s[c] = Upto(k, c)) /\ (k = Last => shown[c] <= s[c])
        BY <3>1, <3>7 DEF SumSound
      <4>2. s[c] <= Upto(k, c)'
        BY <3>2, <3>3, <4>1
      <4>3. k < Last' => s[c] = Upto(k, c)'
        BY <3>2, <3>3, <4>1
      <4>4. k = Last' => shown'[c] <= s[c]
        BY <3>2, <4>1
      <4>5. Had(i, c)'
        BY <3>7 DEF Had
      <4> QED
        BY <4>2, <4>3, <4>4, <4>5 DEF SumSound
    <3>8. CASE ~ Had(i, c)
      <4>1. s[c] = Upto(j, c)
        BY <3>1, <3>4, <3>8 DEF SumSound
      <4>2. s[c] = Upto(j, c)' /\ ~ Had(i, c)'
        BY <3>6, <3>8, <4>1 DEF Had
      <4> QED
        BY <3>4, <4>2 DEF SumSound
    <3> QED
        BY <3>7, <3>8
  <2> QED
    BY <2>2, <2>3 DEF SumSound, Had
<1> QED
    BY <1>2, <1>3

(* The three steps of one round over a phase: the sum of the counter just  *)
(* read now includes this phase.                                           *)
LEMMA SoundLoads ==
    ASSUME SInv, IInv', snap.ph > 0, SnapLoad
    PROVE  LET f == SnapReads[snap.field]
               sum == [snap.sum EXCEPT ![f] = @ + phases[snap.ph][f]]
           IN  \A c \in Counter :
                   IF Had(snap.field + 1, c) \/ snap.field = 3
                   THEN /\ sum[c] <= Upto(snap.ph, c)
                        /\ snap.ph < Last => sum[c] = Upto(snap.ph, c)
                        /\ snap.ph = Last => shown[c] <= sum[c]
                   ELSE sum[c] = Upto(snap.ph - 1, c)
<1> DEFINE k == snap.ph
           f == SnapReads[snap.field]
           sum == [snap.sum EXCEPT ![f] = @ + phases[snap.ph][f]]
<1>0. TypeOK /\ SnapBehind /\ Last \in Nat
    BY PhasesTyped DEF SInv, IInv
<1>1. /\ k \in 1 .. Last /\ k \in 0 .. Last /\ k - 1 \in 0 .. Last /\ snap.field \in 1 .. 3
      /\ snap.sum \in [Counter -> Nat] /\ shown \in [Counter -> Nat]
    BY <1>0, SnapType
<1>2. f = (CASE snap.field = 1 -> "tasks" [] snap.field = 2 -> "completed" [] snap.field = 3 -> "subtasks")
    BY <1>1 DEF SnapReads
<1>3. f \in Counter
    BY <1>1, <1>2 DEF Counter
<1> HIDE DEF f, k
<1> SUFFICES ASSUME NEW c \in Counter
             PROVE  IF Had(snap.field + 1, c) \/ snap.field = 3
                    THEN sum[c] <= Upto(k, c) /\ (k < Last => sum[c] = Upto(k, c)) /\ (k = Last => shown[c] <= sum[c])
                    ELSE sum[c] = Upto(k - 1, c)
    BY DEF k, f
<1>4. SumSound(k, snap.field, snap.sum[c], c)
    BY DEF SInv, SnapSound, k
<1>5. Upto(k, c) = Upto(k - 1, c) + phases[k][c] /\ Upto(k, c) \in Nat /\ Upto(k - 1, c) \in Nat
    BY <1>0, <1>1, Totals
<1>6. CASE c = f
  <2>1. ~ Had(snap.field, c) /\ (Had(snap.field + 1, c) \/ snap.field = 3)
    BY <1>1, <1>2, <1>6 DEF Had
  <2>2. sum[c] = snap.sum[c] + phases[k][c] /\ snap.sum[c] = Upto(k - 1, c)
    BY <1>1, <1>3, <1>4, <1>6, <2>1 DEF SumSound, k
  <2>3. sum[c] = Upto(k, c)
    BY <1>5, <2>2
  <2>4. k = Last => shown[c] <= sum[c]
    BY <2>3 DEF SInv, ShownSound
  <2> HIDE DEF sum
  <2> QED
    BY <1>5, <2>1, <2>3, <2>4
<1>7. CASE c # f
  <2>1. sum[c] = snap.sum[c]
    BY <1>1, <1>3, <1>7
  <2>2. (Had(snap.field + 1, c) \/ snap.field = 3) <=> Had(snap.field, c)
    BY <1>1, <1>2, <1>7 DEF Had, Counter
  <2> HIDE DEF sum
  <2> QED
    BY <1>4, <2>1, <2>2 DEF SumSound
<1> QED
    BY <1>6, <1>7


LEMMA SoundReader ==
    ASSUME SInv, IInv', Reader
    PROVE  ShownSound' /\ SnapSound'
<1>0. TypeOK /\ SnapBehind /\ Last \in Nat
    BY PhasesTyped DEF SInv, IInv
<1>1. /\ snap.ph \in Nat /\ snap.ph \in 0 .. Last /\ snap.field \in 1 .. 3
      /\ snap.sum \in [Counter -> Nat] /\ shown \in [Counter -> Nat]
    BY <1>0, SnapType
<1>2. phases' = phases /\ Last' = Last /\ \A k, c : Upto(k, c)' = Upto(k, c)
    BY Bystanders DEF Upto, CountsOf, Last, runVars
<1>3. Len(SnapReads) = 3
    BY DEF SnapReads
<1>4. CASE LockPhases
  <2>1. Last > 0 /\ snap'.ph = 1 /\ snap'.field = 1 /\ (\A c \in Counter : snap'.sum[c] = 0) /\ shown' = shown
    BY <1>4 DEF LockPhases, NoSnapshot, NoCounts
  <2>2. ASSUME NEW c \in Counter
        PROVE  SumSound(snap.ph, snap.field, snap.sum[c], c)'
    <3>1. Upto(0, c) = 0
        BY <1>0, Totals
    <3>2. PICK k, i, n : k = snap'.ph /\ i = snap'.field /\ n = snap'.sum[c]
        OBVIOUS
    <3>3. k - 1 = 0 /\ n = 0 /\ ~ Had(i, c)
        BY <2>1, <3>2 DEF Had
    <3>4. n = Upto(k - 1, c)'
        BY <1>2, <3>1, <3>3
    <3>5. SumSound(k, i, n, c)'
        BY <3>3, <3>4 DEF SumSound, Had
    <3> QED
        BY <3>2, <3>5 DEF SumSound, Had
  <2> QED
    BY <1>2, <2>1, <2>2 DEF SInv, ShownSound, SnapSound
<1>5. CASE SnapLoad
  <2> DEFINE sum == [snap.sum EXCEPT ![SnapReads[snap.field]] = @ + phases[snap.ph][SnapReads[snap.field]]]
  <2>1. snap.ph > 0 /\ snap.ph \in 1 .. Last
    BY <1>0, <1>1, <1>5 DEF SnapLoad
  <2>2. \A c \in Counter :
            IF Had(snap.field + 1, c) \/ snap.field = 3
            THEN /\ sum[c] <= Upto(snap.ph, c)
                 /\ snap.ph < Last => sum[c] = Upto(snap.ph, c)
                 /\ snap.ph = Last => shown[c] <= sum[c]
            ELSE sum[c] = Upto(snap.ph - 1, c)
    BY <1>5, <2>1, SoundLoads
  <2>3. PICK k, i, s : k = snap.ph /\ i = snap.field /\ s = sum
    OBVIOUS
  <2>4. \A c \in Counter :
            IF Had(i + 1, c) \/ i = 3
            THEN s[c] <= Upto(k, c) /\ (k < Last => s[c] = Upto(k, c)) /\ (k = Last => shown[c] <= s[c])
            ELSE s[c] = Upto(k - 1, c)
    BY <2>2, <2>3
  <2>5. k \in 1 .. Last /\ i \in 1 .. 3
    BY <1>1, <2>1, <2>3
  <2>6. CASE i < 3
    <3>1. snap' = [snap EXCEPT !.sum = s, !.field = i + 1] /\ shown' = shown
        BY <1>3, <1>5, <2>3, <2>6 DEF SnapLoad
    <3>2. snap'.ph = k /\ snap'.field = i + 1 /\ snap'.sum = s
        BY <1>0, <2>3, <3>1 DEF TypeOK
    <3>3. ASSUME NEW c \in Counter PROVE SumSound(k, i + 1, s[c], c)'
        BY <1>2, <2>4, <2>6, <3>1 DEF SumSound, Had
    <3> QED
        BY <1>2, <3>1, <3>2, <3>3 DEF SInv, ShownSound, SnapSound, SumSound, Had
  <2>7. CASE i = 3 /\ k < Last
    <3>1. snap' = [snap EXCEPT !.sum = s, !.field = 1, !.ph = k + 1] /\ shown' = shown
        BY <1>3, <1>5, <2>3, <2>7 DEF SnapLoad
    <3>2. snap'.ph = k + 1 /\ snap'.field = 1 /\ snap'.sum = s
        BY <1>0, <2>3, <3>1 DEF TypeOK
    <3>3. PICK j : j = k + 1
        OBVIOUS
    <3>4. j - 1 = k
        BY <2>5, <3>3
    <3>5. ASSUME NEW c \in Counter PROVE SumSound(j, 1, s[c], c)'
      <4>1. s[c] = Upto(k, c)
        BY <2>4, <2>7
      <4>2. s[c] = Upto(j - 1, c)' /\ ~ Had(1, c)'
        BY <1>2, <3>4, <4>1 DEF Had
      <4> QED
        BY <4>2 DEF SumSound
    <3> QED
        BY <1>2, <3>1, <3>2, <3>3, <3>5 DEF SInv, ShownSound, SnapSound, SumSound, Had
  <2>8. CASE i = 3 /\ k = Last
    <3>1. snap' = NoSnapshot /\ shown' = s
        BY <1>0, <1>3, <1>5, <2>3, <2>8 DEF SnapLoad
    <3>2. \A c \in Counter : s[c] <= Upto(Last, c)
        BY <2>4, <2>8
    <3> QED
        BY <1>2, <3>1, <3>2 DEF ShownSound, SnapSound, NoSnapshot
  <2> QED
    BY <1>0, <2>5, <2>6, <2>7, <2>8
<1> QED
    BY <1>4, <1>5 DEF Reader

LEMMA SoundNext == SInv /\ IInv' /\ [Next]_vars => SInv'
<1> SUFFICES ASSUME SInv, IInv', [Next]_vars
             PROVE  SInv'
    OBVIOUS
<1>1. Folded'
    BY FoldedNext DEF SInv, IInv
<1>2. CASE Reader
    BY <1>1, <1>2, SoundReader DEF SInv
<1>3. CASE Cancel \/ Orchestrator \/ Reporter \/ (\E w \in Worker : Work(w)) \/ UNCHANGED vars
  <2>1. snap' = snap /\ shown' = shown
    <3> USE DEF sideVars, outVars, runVars, snapVars
    <3>1. CASE Cancel \/ UNCHANGED vars
        BY <3>1 DEF Cancel, vars
    <3>2. CASE Orchestrator
        BY <3>2 DEF Orchestrator, Start, BeginPhase, PublishPhase, AddTasks, EndPhase, TellInterrupted, FinishSwap,
                    FinishLine, FinishReport
    <3>3. CASE Reporter
        BY <3>3 DEF Reporter, TickerFires, CtxDone, LookStarted, LoadActive, FirstLoad, SecondLoad, PrintLine,
                    ReporterOnly
    <3>4. CASE \E w \in Worker : Work(w)
        BY <3>4 DEF Work, TakeTask, ReportSubtask, LoadPhase, ReportTaskCompleted
    <3> QED
        BY <1>3, <3>1, <3>2, <3>3, <3>4
  <2> QED
    BY <1>1, <2>1, SoundMeanwhile DEF SInv
<1> QED
    BY <1>2, <1>3 DEF Next

(* A snapshot read while the run goes on never shows less than the one     *)
(* before, never more than was reported, and no completed task without its *)
(* statistics (monitor.go's Totals; specs/monitoring.md).                  *)
THEOREM Snapshots == Spec => SnapshotsGrow
<1> DEFINE Grows == shown' # shown =>
                       /\ \A c \in Counter : shown[c] <= shown'[c] /\ shown'[c] <= TotalOf(c)
                       /\ shown'.completed <= shown'.subtasks
<1>1. Spec => []SInv
  <2>1. SInv => IInv
    BY DEF SInv
  <2> QED
    BY <2>1, SoundInit, SoundNext, Invariance, PTL DEF Spec
<1>2. SInv /\ IInv' /\ [Next]_vars => Grows
  <2> SUFFICES ASSUME SInv, IInv', [Next]_vars, shown' # shown
               PROVE  /\ \A c \in Counter : shown[c] <= shown'[c] /\ shown'[c] <= TotalOf(c)
                      /\ shown'.completed <= shown'.subtasks
    OBVIOUS
  <2>1. SnapLoad
    BY DEF Next, Cancel, Orchestrator, Start, BeginPhase, PublishPhase, AddTasks, EndPhase, TellInterrupted,
           FinishSwap, FinishLine, FinishReport, Reporter, TickerFires, CtxDone, LookStarted, LoadActive, FirstLoad,
           SecondLoad, PrintLine, ReporterOnly, Work, TakeTask, ReportSubtask, LoadPhase, ReportTaskCompleted,
           Reader, LockPhases, vars, sideVars, snapVars
  <2>2. TypeOK /\ SnapBehind /\ Folded /\ Last \in Nat
    BY PhasesTyped DEF SInv, IInv
  <2>3. snap.ph > 0 /\ snap.ph \in 0 .. Last /\ snap.field \in 1 .. 3
    BY <2>1, <2>2, SnapType DEF SnapLoad
  <2> DEFINE sum == [snap.sum EXCEPT ![SnapReads[snap.field]] = @ + phases[snap.ph][SnapReads[snap.field]]]
  <2>4. shown' = sum /\ snap.field = 3 /\ snap.ph = Last
    BY <2>1, <2>2, <2>3 DEF SnapLoad, SnapReads
  <2>5. \A c \in Counter :
            IF Had(snap.field + 1, c) \/ snap.field = 3
            THEN /\ sum[c] <= Upto(snap.ph, c)
                 /\ snap.ph < Last => sum[c] = Upto(snap.ph, c)
                 /\ snap.ph = Last => shown[c] <= sum[c]
            ELSE sum[c] = Upto(snap.ph - 1, c)
    BY <2>1, <2>3, SoundLoads
  <2>6. ASSUME NEW c \in Counter
        PROVE  shown[c] <= shown'[c] /\ shown'[c] <= TotalOf(c)
    BY <2>2, <2>4, <2>5, Totals
  <2>7. shown'.completed <= shown'.subtasks
    <3>1. /\ "completed" \in Counter /\ "subtasks" \in Counter
          /\ ~ Had(3, "subtasks") /\ Had(3, "completed")
        BY DEF Counter, Had
    <3>2. PICK l : l = Last
        OBVIOUS
    <3>3. l \in Nat /\ l \in 1 .. Last /\ l \in 0 .. Last
        BY <2>2, <2>3, <2>4, <3>2
    <3>4. shown'.subtasks = Upto(l, "subtasks")
      <4>1. PICK x : x = "subtasks"
        OBVIOUS
      <4>2. SumSound(l, 3, snap.sum[x], x) /\ ~ Had(3, x) /\ x \in Counter
        BY <2>3, <2>4, <3>1, <3>2, <4>1 DEF SInv, SnapSound
      <4>3. snap.sum[x] = Upto(l - 1, x) /\ Upto(l, x) = Upto(l - 1, x) + phases[l][x]
        BY <2>2, <3>3, <4>2, Totals DEF SumSound
      <4>4. SnapReads[3] = x /\ snap.sum \in [Counter -> Nat]
        BY <2>2, <4>1, SnapType DEF SnapReads
      <4>5. shown'[x] = snap.sum[x] + phases[l][x]
        BY <2>4, <3>2, <4>2, <4>4
      <4> QED
        BY <4>1, <4>3, <4>5
    <3>5. shown'.completed <= Upto(l, "completed") /\ shown'.completed \in Nat
      <4>1. shown' \in [Counter -> Nat]
        BY DEF IInv, TypeOK
      <4> QED
        BY <2>4, <2>5, <3>1, <3>2, <4>1
    <3>6. Upto(l, "completed") <= Upto(l, "subtasks")
      <4>1. \A p \in 1 .. Last : phases[p].completed \in Nat /\ phases[p].subtasks \in Nat
        BY <2>2, PhasesTyped, PhaseFields
      <4>2. \A p \in 1 .. Last : phases[p].completed <= phases[p].subtasks
        BY <2>2, FoldedBelow
      <4>3. \A p \in 1 .. l : /\ CountsOf("completed")[p] \in Nat /\ CountsOf("subtasks")[p] \in Nat
                              /\ CountsOf("completed")[p] <= CountsOf("subtasks")[p]
        BY <3>2, <4>1, <4>2 DEF CountsOf
      <4> QED
        BY <3>3, <4>3, BlocksGrow DEF Upto
    <3>7. Upto(l, "completed") \in Nat /\ Upto(l, "subtasks") \in Nat
        BY <2>2, <3>1, <3>3, Totals
    <3> QED
        BY <3>4, <3>5, <3>6, <3>7
  <2> QED
    BY <2>6, <2>7
<1>3. Spec => [][Grows]_vars
    BY <1>1, <1>2, Invariance, PTL DEF Spec
<1> QED
    BY <1>3, PTL DEF SnapshotsGrow

=============================================================================
