------------------------------- MODULE PoolRun -------------------------------
(***************************************************************************)
(* workerpool.Run: a crew of goroutines claims the indices 0..N-1 from one *)
(* shared atomic cursor behind a Wait barrier.  Each goroutine is in the   *)
(* range loop over the iterator that claims returns: it tests ctx, adds 1  *)
(* to the cursor, and either leaves (cursor past the end) or yields the    *)
(* index to the loop body.  The test and the claim are two steps, so ctx   *)
(* may end, and any other worker may move, between them.                   *)
(***************************************************************************)
EXTENDS Integers, FiniteSets

CONSTANTS
    Workers,   \* Pool.workers
    N          \* the n of the call; n <= 0 is legal and starts nobody

ASSUME PoolAssumption == Workers \in Nat \ {0} /\ N \in Int

VARIABLES
    cursor,         \* the shared atomic.Int64
    cancelled,      \* ctx.Err() # nil, for ever once true
    pc,             \* where each worker of the crew is
    held,           \* the index a worker's loop body works on
    yields,         \* history: how often each index was handed to a body
    done,           \* history: indices whose body ran to its end
    broke,          \* history: workers whose body left the range loop
    atCancel,       \* history: the cursor when ctx ended
    returned        \* wg.Wait() has returned

vars == <<cursor, cancelled, pc, held, yields, done, broke, atCancel, returned>>

CrewSize == IF N <= 0 THEN 0 ELSE IF Workers < N THEN Workers ELSE N
Crew == 1 .. CrewSize
Index == 0 .. (N - 1)
NoIndex == -1

TypeOK ==
    /\ cursor \in Nat
    /\ cancelled \in BOOLEAN
    /\ pc \in [Crew -> {"check", "claim", "body", "leave", "gone"}]
    /\ held \in [Crew -> Index \cup {NoIndex}]
    /\ \A w \in Crew : pc[w] = "body" <=> held[w] # NoIndex
    /\ yields \in [Index -> Nat]
    /\ done \subseteq Index
    /\ broke \subseteq Crew
    /\ atCancel \in Nat
    /\ returned \in BOOLEAN

Init ==
    /\ cursor = 0
    /\ cancelled \in BOOLEAN   \* ctx may have ended before the call
    /\ pc = [w \in Crew |-> "check"]
    /\ held = [w \in Crew |-> NoIndex]
    /\ yields = [i \in Index |-> 0]
    /\ done = {}
    /\ broke = {}
    /\ atCancel = 0
    /\ returned = FALSE

GoTo(w, where) == pc' = [pc EXCEPT ![w] = where]

(* External: the caller of the whole run cancels ctx, or its deadline passes. *)
Cancel ==
    /\ ~cancelled
    /\ cancelled' = TRUE
    /\ atCancel' = cursor
    /\ UNCHANGED <<cursor, pc, held, yields, done, broke, returned>>

(* for ctx.Err() == nil { ... } *)
MayClaimBlind == TRUE   \* mutant: claims without looking at ctx
MayClaim == ~cancelled

Check(w) ==
    /\ pc[w] = "check"
    /\ GoTo(w, IF MayClaim THEN "claim" ELSE "leave")
    /\ UNCHANGED <<cursor, cancelled, held, yields, done, broke, atCancel, returned>>

(* i := cursor.Add(1) - 1 *)
ClaimableRacy == {cursor, cursor - 1} \cap Nat   \* mutant: a load, then a store
Claimable == {cursor}

PastEndSlack(i) == i > N   \* mutant: off by one
PastEndEarly(i) == i >= N - 1   \* mutant: the last index is left out
PastEnd(i) == i >= N

(* One claim: the atomic add, the bound test, the yield. *)
Claim(w) ==
    /\ pc[w] = "claim"
    /\ \E i \in Claimable :
          /\ cursor' = i + 1
          /\ IF PastEnd(i)
             THEN GoTo(w, "leave") /\ UNCHANGED <<held, yields>>
             ELSE /\ GoTo(w, "body")
                  /\ held' = [held EXCEPT ![w] = i]
                  /\ yields' = [yields EXCEPT ![i] = @ + 1]
    /\ UNCHANGED <<cancelled, done, broke, atCancel, returned>>

(* The range body ends: yield returns true and the loop goes round ... *)
Finish(w) ==
    /\ pc[w] = "body"
    /\ done' = done \cup {held[w]}
    /\ held' = [held EXCEPT ![w] = NoIndex]
    /\ GoTo(w, "check")
    /\ UNCHANGED <<cursor, cancelled, yields, broke, atCancel, returned>>

(* ... or it breaks out of the loop, and yield returns false. *)
Break(w) ==
    /\ pc[w] = "body"
    /\ done' = done \cup {held[w]}
    /\ held' = [held EXCEPT ![w] = NoIndex]
    /\ broke' = broke \cup {w}
    /\ GoTo(w, "leave")
    /\ UNCHANGED <<cursor, cancelled, yields, atCancel, returned>>

(* The worker's teardown after its loop, and the deferred Done of wg.Go. *)
Leave(w) ==
    /\ pc[w] = "leave"
    /\ GoTo(w, "gone")
    /\ UNCHANGED <<cursor, cancelled, held, yields, done, broke, atCancel, returned>>

(* wg.Wait() *)
CrewGoneEarly == \A w \in Crew : pc[w] \notin {"check", "claim"}   \* mutant: running bodies not waited for
CrewGoneUnlessCancelled == ~cancelled /\ \A w \in Crew : pc[w] = "gone"   \* mutant: a Done skipped when ctx ended
CrewGone == \A w \in Crew : pc[w] = "gone"

Join ==
    /\ ~returned
    /\ CrewGone
    /\ returned' = TRUE
    /\ UNCHANGED <<cursor, cancelled, pc, held, yields, done, broke, atCancel>>

Step(w) == Check(w) \/ Claim(w) \/ Finish(w) \/ Break(w) \/ Leave(w)

Next == Cancel \/ Join \/ \E w \in Crew : Step(w)

(* The Go scheduler runs every runnable goroutine again and again, and a   *)
(* body is a finite depth-first search; nothing makes ctx end.             *)
Fairness == WF_vars(Join) /\ \A w \in Crew : WF_vars(Step(w))

Spec == Init /\ [][Next]_vars
FairSpec == Spec /\ Fairness
-----------------------------------------------------------------------------
Working(i) == \E w \in Crew : pc[w] = "body" /\ held[w] = i

(* The handed-out indices are exactly a prefix of the worklist, each once: *)
(* "an index already handed out is never re-issued" and none is skipped    *)
(* (workerpool.go:36-37).                                                  *)
HandedOncePrefix ==
    \A i \in Index : yields[i] = IF i < cursor THEN 1 ELSE 0

(* Nothing claimed is lost: a handed-out index is either finished or in    *)
(* the hands of one worker and no other.                                   *)
ClaimedIsOwned ==
    /\ \A i \in Index : i < cursor <=> (i \in done \/ Working(i))
    /\ \A w \in Crew : pc[w] = "body" =>
          /\ held[w] \in Index \ done
          /\ \A v \in Crew \ {w} : pc[v] = "body" => held[v] # held[w]

(* A worker leaves only when there is nothing left to claim, ctx has ended *)
(* or its own body broke off: one worker that stays drains the worklist.   *)
LeavesForAReason ==
    \A w \in Crew : pc[w] \in {"leave", "gone"} =>
        cancelled \/ w \in broke \/ cursor > N

(* The barrier (workerpool.go:30-37, 46): when Run returns nobody works,   *)
(* and unless ctx ended or the whole crew broke off every index is done.   *)
Barrier ==
    returned =>
        /\ \A i \in Index : ~Working(i)
        /\ cancelled \/ broke = Crew \/ done = Index

(* "a cancelled run never consumes an index it would not process"          *)
(* (workerpool.go:50-52): after ctx ends each worker claims at most once   *)
(* more, the worker that had already passed its check.                     *)
LateClaimsBounded ==
    cancelled => cursor <= atCancel + CrewSize

(* The cursor overshoots the worklist by at most one claim per worker, so  *)
(* the 64-bit counter is in no danger of running away.                     *)
OvershootBounded ==
    cursor <= (IF N <= 0 THEN 0 ELSE N) + CrewSize

(* Run always returns, cancelled or not (workerpool.go:46).                *)
Terminates == <>returned

(* The worklist as the caller sees it. *)
Status ==
    [i \in Index |->
        IF i \in done THEN "done" ELSE IF Working(i) THEN "active" ELSE "todo"]

CrewBrokeOff == Crew # {} /\ \A w \in Crew : w \in broke /\ pc[w] = "gone"

Once == INSTANCE WorkOnce WITH
    Item <- Index, status <- Status, stopped <- cancelled \/ CrewBrokeOff

(* Run keeps the promise both crews make to their caller.                  *)
ImplementsWorkOnce == Once!Spec
=============================================================================
