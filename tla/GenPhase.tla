------------------------------ MODULE GenPhase ------------------------------
(***************************************************************************)
(* A generation phase of the counting pipeline (counter.extendInto, and    *)
(* the gen-A loop of generateIntermediate): a workerpool.Run crew claims   *)
(* tasks, each task's descent emits leaves into a sink, and the sink of a  *)
(* worker is folded into the shared table under the shards' mutexes.       *)
(*                                                                         *)
(* The sink is a Staging that flushes itself every Limit emissions and     *)
(* once more when its worker leaves; a direct Cache.Set (gen A) takes the  *)
(* same steps with Limit = 1, and the census discards every emission.      *)
(*                                                                         *)
(* An emission is identified by its task and its place in the descent, and *)
(* a class slot of the table by the set of emissions summed in it: one     *)
(* that is lost is in no slot, one about to be added twice is in its slot  *)
(* while still staged.                                                     *)
(***************************************************************************)
EXTENDS Integers, Sequences, FiniteSets

CONSTANTS
    Workers, N,    \* as in PoolRun; N is the length of the worklist
    Class,         \* the (mask, rep) pairs that can occur
    Shard,         \* shard numbers, a set of naturals: Flush goes through them in order
    ShardOf,       \* [Class -> Shard], shardIndex of the mask
    Leaves,        \* [Index -> Seq(Class)]: what the descent of a task emits
    Unchecked,     \* tasks already at the target depth: they emit without looking at ctx
    Limit          \* stagingFlushLimit

VARIABLES
    cursor, cancelled, pc, held, yields, done, broke, atCancel, returned,   \* PoolRun
    at,          \* where a worker is inside its loop body or its release
    pos,         \* the next leaf of the task it works on
    discard,     \* the sink is cache.NullSink (the census); the caller's choice, never changed
    staged,      \* the contributions in its Staging
    pending,     \* Staging.pending
    lock,        \* [Shard -> the worker in the critical section, or Nobody]
    word,        \* the slot value a worker read in its critical section
    entry,       \* the contribution it is adding
    table,       \* [Class -> set of emissions summed in the slot]
    emitted,     \* history: all emissions into a table sink
    writes,      \* monitor: cacheWrites of the phase
    completed    \* monitor: completed of the phase

poolVars == <<cursor, cancelled, pc, held, yields, done, broke, atCancel, returned>>
sinkVars == <<discard, staged, pending, lock, word, entry, table>>
vars == <<poolVars, at, pos, sinkVars, emitted, writes, completed>>

Pool == INSTANCE PoolRun

Crew == Pool!Crew
Index == Pool!Index
Nobody == 0   \* workers are numbered from 1
Emission == UNION {{i} \X (1 .. Len(Leaves[i])) : i \in Index}
ClassOf(e) == Leaves[e[1]][e[2]]
Basket(w, s) == {e \in staged[w] : ShardOf[ClassOf(e)] = s}

ASSUME GenAssumption ==
    /\ Workers \in Nat \ {0} /\ N \in Nat
    /\ Shard \subseteq Nat
    /\ ShardOf \in [Class -> Shard]
    /\ Leaves \in [Index -> Seq(Class)]
    /\ Unchecked \subseteq Index
    /\ Limit \in Nat \ {0}

TypeOK ==
    /\ Pool!TypeOK
    /\ at \in [Crew -> {"dfs", "flush", "add", "store", "report", "finish", "flushed"}]
    /\ pos \in [Crew -> Nat \ {0}]
    /\ discard \in BOOLEAN
    /\ staged \in [Crew -> SUBSET Emission]
    /\ pending \in [Crew -> Nat]
    /\ lock \in [Shard -> Crew \cup {Nobody}]
    /\ word \in [Crew -> SUBSET Emission]
    /\ entry \in [Crew -> Emission \cup {<< >>}]
    /\ table \in [Class -> SUBSET Emission]
    /\ emitted \subseteq Emission
    /\ writes \in Nat
    /\ completed \in Nat

(* BeginPhase and AddTasks(N) come before Run, which starts the crew.      *)
Init ==
    /\ Pool!Init
    /\ at = [w \in Crew |-> "dfs"]
    /\ pos = [w \in Crew |-> 1]
    /\ discard \in BOOLEAN
    /\ staged = [w \in Crew |-> {}]
    /\ pending = [w \in Crew |-> 0]
    /\ lock = [s \in Shard |-> Nobody]
    /\ word = [w \in Crew |-> {}]
    /\ entry = [w \in Crew |-> << >>]
    /\ table = [c \in Class |-> {}]
    /\ emitted = {}
    /\ writes = 0
    /\ completed = 0

tasks == N   \* monitor: AddTasks(len(intermediate)), once

GoTo(w, where) == at' = [at EXCEPT ![w] = where]
-----------------------------------------------------------------------------
Cancel == Pool!Cancel /\ UNCHANGED <<at, pos, sinkVars, emitted, writes, completed>>

Check(w) == Pool!Check(w) /\ UNCHANGED <<at, pos, sinkVars, emitted, writes, completed>>

FirstLeafZero == 0   \* mutant
FirstLeaf == 1

Claim(w) ==
    /\ Pool!Claim(w)
    /\ pos' = [pos EXCEPT ![w] = FirstLeaf]
    /\ UNCHANGED <<at, sinkVars, emitted, writes, completed>>

(* The descent reaches its next leaf.  dfsTask tests ctx at every node; a  *)
(* task already at the target depth writes itself without a test.          *)
InDescent(w) == pc[w] = "body" /\ at[w] = "dfs"
More(w) == pos[w] <= Len(Leaves[held[w]])

FlushesNever(w) == FALSE   \* mutant: no automatic flush
Flushes(w) == pending[w] + 1 = Limit

Emit(w) ==
    /\ InDescent(w) /\ More(w)
    /\ cancelled => held[w] \in Unchecked
    /\ pos' = [pos EXCEPT ![w] = @ + 1]
    /\ IF discard
       THEN UNCHANGED <<at, staged, pending, emitted>>
       ELSE LET e == <<held[w], pos[w]>> IN
            /\ staged' = [staged EXCEPT ![w] = @ \cup {e}]
            /\ pending' = [pending EXCEPT ![w] = @ + 1]
            /\ emitted' = emitted \cup {e}
            /\ GoTo(w, IF Flushes(w) THEN "flush" ELSE "dfs")
    /\ UNCHANGED <<poolVars, discard, lock, word, entry, table, writes, completed>>

(* The descent ends: all leaves are out, or ctx ended and cut it short.    *)
EndDescent(w) ==
    /\ InDescent(w)
    /\ ~More(w) \/ (cancelled /\ held[w] \notin Unchecked)
    /\ GoTo(w, "report")
    /\ UNCHANGED <<poolVars, pos, sinkVars, emitted, writes, completed>>

(* monitor.ReportSubtask(&result): CacheWrites counts the Set calls.       *)
ReportSubtask(w) ==
    /\ at[w] = "report"
    /\ writes' = writes + pos[w] - 1
    /\ GoTo(w, "finish")
    /\ UNCHANGED <<poolVars, pos, sinkVars, emitted, completed>>

(* monitor.ReportTaskCompleted(), and the loop asks for the next index.    *)
ReportTaskCompleted(w) ==
    /\ at[w] = "finish"
    /\ Pool!Finish(w)
    /\ completed' = completed + 1
    /\ GoTo(w, "dfs")
    /\ UNCHANGED <<pos, sinkVars, emitted, writes>>
-----------------------------------------------------------------------------
(* Staging.Flush, called by Set at the limit and by the deferred release.  *)
Flushing(w) == at[w] = "flush" \/ (pc[w] = "leave" /\ at[w] = "dfs")

LockFreeAlways(s) == TRUE   \* mutant: the shard's mutex is not taken
LockFree(s) == lock[s] = Nobody

NextBasket(w) == CHOOSE s \in Shard :
    Basket(w, s) # {} /\ \A t \in Shard : Basket(w, t) # {} => s <= t

(* sh.mu.Lock() of the next shard with a non-empty basket. *)
Lock(w) ==
    /\ Flushing(w) /\ staged[w] # {}
    /\ LockFree(NextBasket(w))
    /\ lock' = [lock EXCEPT ![NextBasket(w)] = w]
    /\ GoTo(w, "add")
    /\ UNCHANGED <<poolVars, discard, pos, staged, pending, word, entry, table, emitted, writes, completed>>

(* add reads the slot of one entry of the basket; sums do not depend on    *)
(* the order, so the entries are taken in any ...                          *)
Load(w) ==
    /\ at[w] = "add"
    /\ \E e \in Basket(w, NextBasket(w)) :
          /\ entry' = [entry EXCEPT ![w] = e]
          /\ word' = [word EXCEPT ![w] = table[ClassOf(e)]]
    /\ GoTo(w, "store")
    /\ UNCHANGED <<poolVars, discard, pos, staged, pending, lock, table, emitted, writes, completed>>

(* ... and writes it back; after its last entry the basket is empty again  *)
(* and the mutex is released.                                              *)
AfterAddKeep(w) == staged[w]   \* mutant: baskets[i] is not reset
AfterAdd(w) == staged[w] \ {entry[w]}

Store(w) ==
    LET c == ClassOf(entry[w])
        s == ShardOf[c]
    IN
    /\ at[w] = "store"
    /\ table' = [table EXCEPT ![c] = word[w] \cup {entry[w]}]
    /\ staged' = [staged EXCEPT ![w] = AfterAdd(w)]
    /\ IF \A e \in AfterAdd(w) : ShardOf[ClassOf(e)] # s
       THEN lock' = [lock EXCEPT ![s] = Nobody] /\ GoTo(w, "flush")
       ELSE UNCHANGED lock /\ GoTo(w, "add")
    /\ UNCHANGED <<poolVars, discard, pos, pending, word, entry, emitted, writes, completed>>

PendingAfterFlush(w) == 0

(* All baskets are empty: back into the descent, or out of the worker.     *)
FlushEnd(w) ==
    /\ Flushing(w) /\ staged[w] = {}
    /\ pending' = [pending EXCEPT ![w] = PendingAfterFlush(w)]
    /\ GoTo(w, IF pc[w] = "body" THEN "dfs" ELSE "flushed")
    /\ UNCHANGED <<poolVars, discard, pos, staged, lock, word, entry, table, emitted, writes, completed>>

(* The deferred release has run, the goroutine ends.                       *)
ReleasedAnyway(w) == TRUE   \* mutant: a worker leaves without its release
Released(w) == at[w] = "flushed"

Leave(w) ==
    /\ Released(w)
    /\ Pool!Leave(w)
    /\ UNCHANGED <<at, pos, sinkVars, emitted, writes, completed>>

Join == Pool!Join /\ UNCHANGED <<at, pos, sinkVars, emitted, writes, completed>>

Step(w) ==
    \/ Check(w) \/ Claim(w)
    \/ Emit(w) \/ EndDescent(w) \/ ReportSubtask(w) \/ ReportTaskCompleted(w)
    \/ Lock(w) \/ Load(w) \/ Store(w) \/ FlushEnd(w)
    \/ Leave(w)

Next == Cancel \/ Join \/ \E w \in Crew : Step(w)

Spec == Init /\ [][Next]_vars

(* Goroutines are scheduled again and again, and sync.Mutex hands a free   *)
(* lock to a waiter: every worker has finitely many sections to go through,*)
(* so from some moment on a lock it waits for stays free until it moves.   *)
FairSpec == Spec /\ WF_vars(Join) /\ \A w \in Crew : WF_vars(Step(w))
-----------------------------------------------------------------------------
Folded(e) == e \in table[ClassOf(e)]
StagedBy(e) == {w \in Crew : e \in staged[w]}

(* No contribution is lost, and none is ever in two places: what was       *)
(* emitted is summed in its own slot, or staged by one worker, never both  *)
(* (the entry being added right now is in both between the two halves of   *)
(* Store, which are one step).  cache.go:308-366.                          *)
EmissionsConserved ==
    /\ \A c \in Class : \A e \in table[c] : ClassOf(e) = c /\ e \in emitted
    /\ \A e \in emitted :
          \/ Folded(e) /\ StagedBy(e) = {}
          \/ ~Folded(e) /\ \E w \in Crew : StagedBy(e) = {w}

(* What Seal finds after the barrier: every emission of every worker, also *)
(* of a cancelled run - "buffered leaves are no less visible than direct   *)
(* writes" (counter.go:141-145) - no writer or lock left, and a monitor    *)
(* that counts as many writes as the table received.                       *)
BarrierSeesAll ==
    returned =>
        /\ \A e \in emitted : Folded(e)
        /\ ~discard => writes = Cardinality(emitted)
        /\ \A w \in Crew : staged[w] = {}
        /\ \A s \in Shard : lock[s] = Nobody

(* A run that ctx did not end builds the same table whatever the crew and  *)
(* the interleaving: every leaf of every task, in its class slot, once     *)
(* (the "table at the phase barrier is identical to direct writes",        *)
(* cache.go:346-350), and its progress ends at exactly 100%.               *)
CompleteRun ==
    returned /\ ~cancelled =>
        /\ \A c \in Class :
              table[c] = IF discard THEN {} ELSE {e \in Emission : ClassOf(e) = c}
        /\ completed = tasks
        /\ writes = Cardinality(Emission)

(* A Staging never holds more than its limit, auto-flush or not.           *)
StagingBounded ==
    \A w \in Crew :
        /\ Cardinality(staged[w]) <= Limit
        /\ InDescent(w) => pending[w] = Cardinality(staged[w]) /\ pending[w] < Limit

(* The phase ends, whatever ctx does and however the locks are contended.  *)
Terminates == <>returned
=============================================================================
