--------------------------------- MODULE Eta ---------------------------------
(***************************************************************************)
(* monitoring.estimateRemaining on the counters of one phase while time    *)
(* passes, with the width of time.Duration: the product of the elapsed     *)
(* time and the tasks left is taken before the division and wraps.         *)
(***************************************************************************)
EXTENDS Integers

CONSTANTS
    Width,        \* bits of time.Duration, 64 in the code
    MaxElapsed,   \* bound: the phase is watched this long
    MaxTasks      \* bound: tasks registered

VARIABLES elapsed, completed, total

vars == <<elapsed, completed, total>>

(* Two's complement of Width bits, and Go's division towards zero. *)
Wrap(x) == ((x + 2^(Width - 1)) % 2^Width) - 2^(Width - 1)
Quotient(x, d) == IF x >= 0 THEN x \div d ELSE -((-x) \div d)

Linear(e, c, t) == Quotient(Wrap(e * (t - c)), c)

Known(c, t) == c # 0 /\ t # 0

estimateRemaining(e, c, t) == IF c >= t THEN 0 ELSE Linear(e, c, t)

Init == elapsed = 0 /\ completed = 0 /\ total = 0

TimePasses ==
    /\ elapsed < MaxElapsed
    /\ elapsed' = elapsed + 1
    /\ UNCHANGED <<completed, total>>

AddTasks ==
    /\ total < MaxTasks
    /\ total' = total + 1
    /\ UNCHANGED <<elapsed, completed>>

ReportTaskCompleted ==
    /\ completed < total
    /\ completed' = completed + 1
    /\ UNCHANGED <<elapsed, total>>

Next == TimePasses \/ AddTasks \/ ReportTaskCompleted

Spec == Init /\ [][Next]_vars
-----------------------------------------------------------------------------
eta == estimateRemaining(elapsed, completed, total)

(* The specification has no such limit: "the active phase's time times the *)
(* ratio of remaining to completed tasks" is never negative.               *)
NeverNegative == Known(completed, total) => eta >= 0
=============================================================================
