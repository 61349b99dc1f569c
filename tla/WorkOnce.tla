------------------------------ MODULE WorkOnce ------------------------------
(***************************************************************************)
(* What both crews of workerpool promise their caller, with cursors,       *)
(* channels and goroutines left out: every item of a finite worklist is    *)
(* handed to at most one goroutine, the call returns only when no item is  *)
(* in a goroutine's hands, and a call nobody stopped has processed every   *)
(* item.  PoolRun (workerpool.Run) and CountPhase (workerpool.Fanout under *)
(* counter.countTasks) are shown to implement it.                          *)
(***************************************************************************)
CONSTANT Item

VARIABLES
    status,    \* [Item -> {"todo", "active", "done"}]
    stopped,   \* the run may leave items untouched
    returned   \* the caller has control again

vars == <<status, stopped, returned>>

TypeOK ==
    /\ status \in [Item -> {"todo", "active", "done"}]
    /\ stopped \in BOOLEAN
    /\ returned \in BOOLEAN

Init ==
    /\ status = [i \in Item |-> "todo"]
    /\ stopped \in BOOLEAN
    /\ returned = FALSE

Stop ==
    /\ stopped' = TRUE
    /\ UNCHANGED <<status, returned>>

Take(i) ==
    /\ ~returned
    /\ status[i] = "todo"
    /\ status' = [status EXCEPT ![i] = "active"]
    /\ UNCHANGED <<stopped, returned>>

Finish(i) ==
    /\ status[i] = "active"
    /\ status' = [status EXCEPT ![i] = "done"]
    /\ UNCHANGED <<stopped, returned>>

Return ==
    /\ \A i \in Item : status[i] # "active"
    /\ stopped \/ \A i \in Item : status[i] = "done"
    /\ returned' = TRUE
    /\ UNCHANGED <<status, stopped>>

Next ==
    \/ Stop
    \/ Return
    \/ \E i \in Item : Take(i) \/ Finish(i)

Spec == Init /\ [][Next]_vars
=============================================================================
