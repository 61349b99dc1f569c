----------------------------- MODULE CountPhase -----------------------------
(***************************************************************************)
(* The counting phase (counter.countTasks over workerpool.Fanout): one     *)
(* producer walks the sealed table (cache.View.All), fills batches and     *)
(* sends them through one bounded channel; consumers drain the channel     *)
(* until it is closed, count each class task and fold it into the total.   *)
(* ctx may end at any moment: the walk then stops at the next shard, sends *)
(* may be abandoned, and consumers skip what they have not begun.          *)
(***************************************************************************)
EXTENDS Integers, Sequences, FiniteSets, Functions

CONSTANTS
    Workers,     \* the workers of the run
    Table,       \* the sealed table: a sequence of shards, each a set of masks
    Classes,     \* how many end classes each mask has
    ClaimB,      \* dispatchClaimBatch
    GranC,       \* dispatchGranularityC
    CapK         \* dispatchCapacityPerConsumer

Masks == UNION Range(Table)

ASSUME CountAssumption ==
    /\ Workers \in Nat \ {0} /\ GranC \in Nat \ {0}
    /\ ClaimB \in Nat \ {0} /\ CapK \in Nat \ {0}
    /\ Table \in Seq(SUBSET Masks) /\ IsFiniteSet(Masks)
    /\ \A m \in Masks : Classes[m] \in Nat \ {0}
    /\ \A i, j \in DOMAIN Table : i # j => Table[i] \cap Table[j] = {}

Larger(a, b) == IF a > b THEN a ELSE b
Smaller(a, b) == IF a < b THEN a ELSE b

(* A class task: a mask and the place of one of its classes. *)
TasksOf(m) == {m} \X (1 .. Classes[m])
Task == UNION {TasksOf(m) : m \in Masks}

records == Cardinality(Masks)   \* View.Len(): masks, not classes
consumers == Larger(Smaller(Workers, records), 1)

effectiveBatch ==
    Smaller(ClaimB, Larger(1, records \div Larger(consumers * GranC, 1)))

capacity == Larger(Smaller(consumers * CapK, records), 1)

(* The slots of the channel, ceil(capacity / Beff); Fanout takes at least 1. *)
Slots == Larger((capacity + effectiveBatch - 1) \div effectiveBatch, 1)

Consumer == 1 .. consumers

VARIABLES
    cancelled,   \* ctx.Err() # nil
    at,          \* where the producer is
    shard,       \* the shard of All it is in
    masks,       \* the records of that shard it has not come to
    rest,        \* the classes of the current record it has not yielded
    batch,       \* the entryBatch it fills
    ch,          \* the channel: a queue of batches
    closed,      \* close(ch) has run
    pc,          \* where each consumer is
    mine,        \* what each consumer has left of its batch
    credit,      \* history: what a task has added to total
    published,   \* history: tasks in the monitor's pathsFound
    tasks,       \* monitor: tasks of the phase
    completed    \* monitor: completed of the phase

walkVars == <<shard, masks, rest>>
prodVars == <<at, walkVars, batch, tasks>>
consVars == <<pc, mine, credit, published, completed>>
vars == <<cancelled, prodVars, ch, closed, consVars>>

TypeOK ==
    /\ cancelled \in BOOLEAN /\ closed \in BOOLEAN
    /\ at \in {"walk", "register", "send", "tail", "registerTail", "sendTail",
               "close", "wait", "returned"}
    /\ shard \in 0 .. Len(Table) /\ masks \subseteq Masks
    /\ rest \in Seq(Task)
    /\ batch \in Seq(Task) /\ Len(batch) <= effectiveBatch /\ effectiveBatch <= ClaimB   \* entryBatch fits
    /\ ch \in Seq(Seq(Task)) /\ Len(ch) <= Slots
    /\ pc \in [Consumer -> {"recv", "next", "count", "publish", "complete", "gone"}]
    /\ mine \in [Consumer -> Seq(Task)]
    /\ credit \in [Task -> {"none", "partial", "full"}]
    /\ published \subseteq Task
    /\ tasks \in Nat /\ completed \in Nat

Init ==
    /\ cancelled \in BOOLEAN   \* ctx may have ended in an earlier phase
    /\ at = "walk" /\ shard = 0 /\ masks = {} /\ rest = << >> /\ batch = << >>
    /\ ch = << >> /\ closed = FALSE
    /\ pc = [c \in Consumer |-> "recv"]
    /\ mine = [c \in Consumer |-> << >>]
    /\ credit = [t \in Task |-> "none"]
    /\ published = {}
    /\ tasks = 0 /\ completed = 0

(* External: the caller of the run ends ctx. *)
Cancel ==
    /\ ~cancelled
    /\ cancelled' = TRUE
    /\ UNCHANGED <<prodVars, ch, closed, consVars>>
-----------------------------------------------------------------------------
(* The producer: dispatchEntries over View.All. *)

(* All enters the next shard, after a look at ctx. *)
NextShard ==
    /\ at = "walk" /\ rest = << >> /\ masks = {}
    /\ shard < Len(Table) /\ ~cancelled
    /\ shard' = shard + 1
    /\ masks' = Table[shard + 1]
    /\ UNCHANGED <<cancelled, at, rest, batch, tasks, ch, closed, consVars>>

(* All ends: after the last shard, or where it sees that ctx has ended. *)
EndWalk ==
    /\ at = "walk" /\ rest = << >> /\ masks = {}
    /\ shard = Len(Table) \/ cancelled
    /\ at' = "tail"
    /\ UNCHANGED <<cancelled, walkVars, batch, tasks, ch, closed, consVars>>

(* The next record in Go's map order, its classes in storage order. *)
NextRecord ==
    /\ at = "walk" /\ rest = << >>
    /\ \E m \in masks :
          /\ masks' = masks \ {m}
          /\ rest' = [i \in 1 .. Classes[m] |-> <<m, i>>]
    /\ UNCHANGED <<cancelled, at, shard, batch, tasks, ch, closed, consVars>>

(* One yielded entry goes into the batch. *)
NotYetFull == Len(batch) + 1 < effectiveBatch

Yield ==
    /\ at = "walk" /\ rest # << >>
    /\ batch' = Append(batch, Head(rest))
    /\ rest' = Tail(rest)
    /\ at' = IF NotYetFull THEN "walk" ELSE "register"
    /\ UNCHANGED <<cancelled, shard, masks, tasks, ch, closed, consVars>>

(* monitor.AddTasks(b.n), before the batch is handed over. *)
RegisteredMasks(b) == Cardinality({b[i][1] : i \in DOMAIN b})   \* mutant: masks, not classes
Registered(b) == Len(b)

Register ==
    /\ at \in {"register", "registerTail"}
    /\ tasks' = tasks + Registered(batch)
    /\ at' = IF at = "register" THEN "send" ELSE "sendTail"
    /\ UNCHANGED <<cancelled, walkVars, batch, ch, closed, consVars>>

(* sendBatch: the select may take the send whenever a slot is free ... *)
AfterSendKeep == batch   \* mutant: b.n = 0 forgotten
AfterSend == << >>

FreeSlotAlways == TRUE   \* mutant: an unbounded queue
FreeSlot == Len(ch) < Slots

Send ==
    /\ at \in {"send", "sendTail"}
    /\ FreeSlot
    /\ ch' = Append(ch, batch)
    /\ batch' = AfterSend
    /\ at' = IF at = "send" THEN "walk" ELSE "close"
    /\ UNCHANGED <<cancelled, walkVars, tasks, closed, consVars>>

(* ... and ctx.Done() whenever ctx has ended, a free slot or not. *)
AbandonSend ==
    /\ at \in {"send", "sendTail"}
    /\ cancelled
    /\ at' = "close"
    /\ UNCHANGED <<cancelled, walkVars, batch, tasks, ch, closed, consVars>>

(* The walk's tail is a last, smaller batch - if ctx has not ended. *)
TailNever == FALSE   \* mutant: only full batches are sent
TailIsSent == batch # << >> /\ ~cancelled

Tail_ ==
    /\ at = "tail"
    /\ at' = IF TailIsSent THEN "registerTail" ELSE "close"
    /\ UNCHANGED <<cancelled, walkVars, batch, tasks, ch, closed, consVars>>

(* Fanout: close(ch) once produce has returned, then wg.Wait(). *)
ClosesUnlessCancelled == ~cancelled   \* mutant: an early return skips close(ch)
Closes == TRUE

Close ==
    /\ at = "close"
    /\ closed' = Closes
    /\ at' = "wait"
    /\ UNCHANGED <<cancelled, walkVars, batch, tasks, ch, consVars>>

AllGoneIdle == \A c \in Consumer : pc[c] \in {"recv", "gone", "complete"}   \* mutant: no barrier
AllGone == \A c \in Consumer : pc[c] = "gone"

Wait ==
    /\ at = "wait"
    /\ AllGone
    /\ at' = "returned"
    /\ UNCHANGED <<cancelled, walkVars, batch, tasks, ch, closed, consVars>>

Producer ==
    NextShard \/ EndWalk \/ NextRecord \/ Yield \/ Register \/ Send \/ AbandonSend
    \/ Tail_ \/ Close \/ Wait
-----------------------------------------------------------------------------
(* The consumers. *)
GoTo(c, where) == pc' = [pc EXCEPT ![c] = where]

(* for batch := range ch *)
Receive(c) ==
    /\ pc[c] = "recv"
    /\ ch # << >>
    /\ mine' = [mine EXCEPT ![c] = Head(ch)]
    /\ ch' = Tail(ch)
    /\ GoTo(c, "next")
    /\ UNCHANGED <<cancelled, prodVars, closed, credit, published, completed>>

DrainedOnClose == closed   \* mutant: buffered batches are left behind
Drained == closed /\ ch = << >>

LeaveRange(c) ==
    /\ pc[c] = "recv"
    /\ Drained
    /\ GoTo(c, "gone")
    /\ UNCHANGED <<cancelled, prodVars, ch, closed, mine, credit, published, completed>>

(* countOneTask: a task not begun when ctx ends is skipped. *)
SkipTask(c) ==
    /\ pc[c] = "next" /\ mine[c] # << >> /\ cancelled
    /\ mine' = [mine EXCEPT ![c] = Tail(@)]
    /\ UNCHANGED <<cancelled, prodVars, ch, closed, pc, credit, published, completed>>

BeginTask(c) ==
    /\ pc[c] = "next" /\ mine[c] # << >> /\ ~cancelled
    /\ GoTo(c, "count")
    /\ UNCHANGED <<cancelled, prodVars, ch, closed, mine, credit, published, completed>>

NextBatch(c) ==
    /\ pc[c] = "next" /\ mine[c] = << >>
    /\ GoTo(c, "recv")
    /\ UNCHANGED <<cancelled, prodVars, ch, closed, mine, credit, published, completed>>

(* The descent returns and total.Add folds it in; a descent that ctx's end *)
(* caught has counted only a part.                                         *)
FoldTask(c) ==
    /\ pc[c] = "count"
    /\ \E paths \in IF cancelled THEN {"partial", "full"} ELSE {"full"} :
          credit' = [credit EXCEPT ![Head(mine[c])] = paths]
    /\ GoTo(c, "publish")
    /\ UNCHANGED <<cancelled, prodVars, ch, closed, mine, published, completed>>

(* monitor.ReportPathsFound and ReportSubtask, then ReportTaskCompleted.   *)
Publish(c) ==
    /\ pc[c] = "publish"
    /\ published' = published \cup {Head(mine[c])}
    /\ GoTo(c, "complete")
    /\ UNCHANGED <<cancelled, prodVars, ch, closed, mine, credit, completed>>

Complete(c) ==
    /\ pc[c] = "complete"
    /\ completed' = completed + 1
    /\ mine' = [mine EXCEPT ![c] = Tail(@)]
    /\ GoTo(c, "next")
    /\ UNCHANGED <<cancelled, prodVars, ch, closed, credit, published>>

Consume(c) ==
    Receive(c) \/ LeaveRange(c) \/ SkipTask(c) \/ BeginTask(c) \/ NextBatch(c)
    \/ FoldTask(c) \/ Publish(c) \/ Complete(c)

Next == Cancel \/ Producer \/ \E c \in Consumer : Consume(c)

Spec == Init /\ [][Next]_vars

(* Every goroutine keeps running; a select with a ready case proceeds.     *)
FairSpec == Spec /\ WF_vars(Producer) /\ \A c \in Consumer : WF_vars(Consume(c))
-----------------------------------------------------------------------------
Began(c) == pc[c] \in {"publish", "complete"}   \* the head of mine is in the total
Elements(seq) == Range(seq)

MasksAhead == UNION {TasksOf(m) : m \in masks}
ShardsAhead == UNION {TasksOf(m) : m \in UNION {Table[i] : i \in shard + 1 .. Len(Table)}}
Ahead == Elements(rest) \cup MasksAhead \cup ShardsAhead
Collected == Elements(batch)
Buffered == UNION {Elements(ch[i]) : i \in DOMAIN ch}
InHand(c) == Elements(mine[c])
Finished == {t \in Task : credit[t] # "none" /\ \A c \in Consumer : t \notin InHand(c)}

(* Every class task is in one place: still ahead of the walk, in the       *)
(* producer's batch, in the channel, with one consumer, or finished; only  *)
(* a run whose ctx has ended can have lost sight of one.  So no task is    *)
(* counted twice, and none is given up silently (workerpool.go:69-79,      *)
(* counter.go:214-228).                                                    *)
PlacesOf(t) ==
    {p \in {"ahead", "collected", "buffered", "finished"} :
        \/ p = "ahead" /\ t \in Ahead
        \/ p = "collected" /\ t \in Collected
        \/ p = "buffered" /\ t \in Buffered
        \/ p = "finished" /\ t \in Finished}

HandsOf(t) == {c \in Consumer : t \in InHand(c)}

TaskAccounted ==
    /\ \A t \in Task :
          /\ Cardinality(PlacesOf(t)) + Cardinality(HandsOf(t)) <= 1
          /\ PlacesOf(t) = {} /\ HandsOf(t) = {} => cancelled
          /\ credit[t] # "none" => PlacesOf(t) \subseteq {"finished"}
    /\ \A i, j \in DOMAIN ch : Elements(ch[i]) \cap Elements(ch[j]) # {} => i = j

(* "a task enters the phase total strictly before it can be reported       *)
(* completed - progress never exceeds 100%" (counter.go:263-266): what is  *)
(* completed, in hands, buffered or about to be sent is registered.        *)
RegisteredFirst ==
    tasks >= completed
             + Cardinality(Buffered \cup UNION {InHand(c) : c \in Consumer})
             + (IF at \in {"send", "sendTail"} THEN Len(batch) ELSE 0)

(* A phase that ctx did not end has counted every class task in full,      *)
(* published the same paths to the monitor, and ends at exactly 100%       *)
(* ("its denominator converges to the exact class-task count", 265-266).   *)
CompleteRun ==
    at = "returned" /\ ~cancelled =>
        /\ \A t \in Task : credit[t] = "full"
        /\ published = Task
        /\ completed = tasks /\ tasks = Cardinality(Task)

(* However the phase ends, the monitor's paths are exactly the total it    *)
(* returned, each task counting once, and no task is left half reported    *)
(* (counter.go:315-320).                                                   *)
TotalIsPublished ==
    at = "returned" =>
        /\ published = {t \in Task : credit[t] # "none"}
        /\ completed = Cardinality(published)

(* Deadlock-free (workerpool.go:73-76): Fanout returns, also when ctx ends *)
(* while the producer is blocked on a full channel.                        *)
Terminates == <>(at = "returned")

(* Fanout keeps the promise both crews make to their caller.               *)
Status ==
    [t \in Task |->
        IF \E c \in Consumer : pc[c] \in {"count", "publish", "complete"} /\ Head(mine[c]) = t
        THEN "active" ELSE IF credit[t] # "none" THEN "done" ELSE "todo"]

Once == INSTANCE WorkOnce WITH
    Item <- Task, status <- Status, stopped <- cancelled, returned <- at = "returned"

ImplementsWorkOnce == Once!Spec
-----------------------------------------------------------------------------
(* What a comment and the counter's specification say of a cancelled       *)
(* phase: the batch it drops stays registered, so it ends below 100%.      *)
DroppedStaysBelowFull ==
    at = "returned" /\ Collected # {} => completed < tasks
=============================================================================
