--------------------------- MODULE GenPhaseProofs ---------------------------
(***************************************************************************)
(* The promises of a generation phase for every crew, worklist, assignment *)
(* of classes to shards, descent and flush limit.  What the crew itself    *)
(* promises is taken from the proofs about workerpool.Run.                 *)
(***************************************************************************)
EXTENDS GenPhase, FiniteSetTheorems, WellFoundedInduction, TLAPS

Run == INSTANCE PoolRunProofs

(* The crew: its own invariant, and no body ever breaks off. *)
Crewed == Run!Inv /\ broke = {}

(* Where the pool has a worker says where it is inside its loop body.      *)
Placed ==
    \A w \in Crew :
        /\ pc[w] \in {"check", "claim"} => at[w] = "dfs"
        /\ pc[w] = "body" => /\ at[w] # "flushed"
                             /\ pos[w] <= Len(Leaves[held[w]]) + 1
        /\ pc[w] = "leave" => at[w] \notin {"report", "finish"}
        /\ pc[w] = "gone" => at[w] = "flushed"
        /\ at[w] = "flushed" => staged[w] = {}

(* The census leaves nothing anywhere.                                     *)
Discarded == discard => emitted = {}

(* A task emits its leaves in order, and has emitted all of them when its  *)
(* descent ends without ctx.                                               *)
Descending ==
    /\ \A e \in emitted :
          /\ e[1] < cursor
          /\ \A w \in Crew : pc[w] = "body" /\ held[w] = e[1] => e[2] < pos[w]
    /\ ~discard => \A w \in Crew : pc[w] = "body" =>
          \A k \in 1 .. pos[w] - 1 : <<held[w], k>> \in emitted
    /\ ~cancelled => \A w \in Crew : at[w] \in {"report", "finish"} => pos[w] = Len(Leaves[held[w]]) + 1
    /\ ~discard /\ ~cancelled => \A i \in done : \A k \in 1 .. Len(Leaves[i]) : <<i, k>> \in emitted

(* A shard is locked by the worker that is adding its basket to it, and    *)
(* what that worker has read from a slot is still there.                   *)
Adding(w) == at[w] \in {"add", "store"}

Locked ==
    /\ \A w \in Crew : Adding(w) => staged[w] # {} /\ lock[NextBasket(w)] = w
    /\ \A s \in Shard, w \in Crew : lock[s] = w => Adding(w) /\ NextBasket(w) = s
    /\ \A w \in Crew : at[w] = "store" =>
          /\ entry[w] \in Basket(w, NextBasket(w))
          /\ word[w] = table[ClassOf(entry[w])]

(* What is staged was emitted, and is in one place only.                   *)
Placewise ==
    /\ \A c \in Class : \A e \in table[c] : ClassOf(e) = c /\ e \in emitted
    /\ \A w \in Crew : \A e \in staged[w] : e \in emitted /\ ~Folded(e)
    /\ \A v, w \in Crew : v # w => staged[v] \cap staged[w] = {}
    /\ \A e \in emitted : Folded(e) \/ \E w \in Crew : e \in staged[w]

(* pending counts what is staged, except while a flush is emptying it.     *)
Bounded ==
    \A w \in Crew :
        /\ Cardinality(staged[w]) <= Limit
        /\ at[w] \in {"dfs", "report", "finish"} => pending[w] = Cardinality(staged[w]) /\ pending[w] < Limit

(* The monitor: writes of the tasks reported, completions of those done.   *)
Passed(w, e) == pc[w] = "body" /\ at[w] # "finish" /\ held[w] = e[1] /\ e[2] < pos[w]
Unreported == {e \in Emission : \E w \in Crew : Passed(w, e)}
Finishing(i) == \E w \in Crew : at[w] = "finish" /\ held[w] = i
Reported == {e \in Emission : e[1] \in done \/ Finishing(e[1])}

Booked ==
    /\ completed = Cardinality(done)
    /\ ~discard => writes + Cardinality(Unreported) = Cardinality(emitted)
    /\ ~cancelled => writes = Cardinality(Reported)

IInv ==
    /\ Crewed /\ TypeOK /\ Placed /\ Discarded /\ Descending /\ Locked /\ Placewise /\ Bounded /\ Booked

-----------------------------------------------------------------------------
(* The crew: every step of the phase is one of workerpool.Run, or leaves   *)
(* the crew alone.                                                         *)
LEMMA PoolSizes == Run!PoolAssumption /\ N \in Nat
BY GenAssumption DEF Run!PoolAssumption

LEMMA PoolSteps == [Next]_vars => [Run!Next]_Run!vars
<1> SUFFICES ASSUME [Next]_vars
             PROVE  [Run!Next]_Run!vars
    OBVIOUS
<1>1. CASE Cancel
    BY <1>1 DEF Cancel, Pool!Cancel, Run!Next, Run!Cancel
<1>2. CASE Join
    BY <1>2 DEF Join, Pool!Join, Pool!CrewGone, Pool!Crew, Pool!CrewSize,
        Run!Next, Run!Join, Run!CrewGone, Run!Crew, Run!CrewSize
<1>3. ASSUME NEW w \in Crew, Step(w)
      PROVE  [Run!Next]_Run!vars
    <2>1. w \in Run!Crew
        BY DEF Crew, Pool!Crew, Pool!CrewSize, Run!Crew, Run!CrewSize
    <2>2. CASE Check(w)
        BY <2>1, <2>2 DEF Check, Pool!Check, Pool!GoTo, Pool!MayClaim, Run!Next, Run!Step, Run!Check, Run!GoTo, Run!MayClaim
    <2>3. CASE Claim(w)
        BY <2>1, <2>3 DEF Claim, Pool!Claim, Pool!GoTo, Pool!Claimable, Pool!PastEnd,
            Run!Next, Run!Step, Run!Claim, Run!GoTo, Run!Claimable, Run!PastEnd
    <2>4. CASE ReportTaskCompleted(w)
        BY <2>1, <2>4 DEF ReportTaskCompleted, Pool!Finish, Pool!GoTo, Pool!NoIndex, Run!Next, Run!Step, Run!Finish, Run!GoTo, Run!NoIndex
    <2>5. CASE Leave(w)
        BY <2>1, <2>5 DEF Leave, Pool!Leave, Pool!GoTo, Run!Next, Run!Step, Run!Leave, Run!GoTo
    <2>6. CASE Emit(w) \/ EndDescent(w) \/ ReportSubtask(w) \/ Lock(w) \/ Load(w) \/ Store(w) \/ FlushEnd(w)
        BY <2>6 DEF Emit, EndDescent, ReportSubtask, Lock, Load, Store, FlushEnd, poolVars, Run!vars
    <2> QED
        BY <1>3, <2>2, <2>3, <2>4, <2>5, <2>6 DEF Step
<1>4. CASE UNCHANGED vars
    BY <1>4 DEF vars, poolVars, Run!vars
<1> QED
    BY <1>1, <1>2, <1>3, <1>4 DEF Next

LEMMA CrewedNext == Crewed /\ [Next]_vars => Crewed'
<1> SUFFICES ASSUME Run!Inv, broke = {}, [Next]_vars
             PROVE  Crewed'
    BY DEF Crewed
<1>1. Run!Inv'
    BY PoolSteps, PoolSizes, Run!InvStep
<1>2. broke' = {}
    BY DEF Next, Step, Cancel, Join, Check, Claim, ReportTaskCompleted, Leave, Emit, EndDescent, ReportSubtask,
        Lock, Load, Store, FlushEnd, Pool!Cancel, Pool!Join, Pool!Check, Pool!Claim, Pool!Finish, Pool!Leave,
        poolVars, vars
<1> QED
    BY <1>1, <1>2 DEF Crewed

LEMMA CrewFacts ==
    ASSUME Crewed
    PROVE  /\ cursor \in Nat /\ pc \in [Crew -> {"check", "claim", "body", "leave", "gone"}]
           /\ held \in [Crew -> Index \cup {-1}] /\ done \subseteq Index /\ cancelled \in BOOLEAN
           /\ \A w \in Crew : pc[w] = "body" => held[w] \in Index \ done /\ held[w] < cursor
           /\ \A v, w \in Crew : pc[v] = "body" /\ pc[w] = "body" /\ held[v] = held[w] => v = w
           /\ \A i \in Index : i < cursor => i \in done \/ \E w \in Crew : pc[w] = "body" /\ held[w] = i
           /\ \A i \in done : i < cursor
           /\ \A w \in Crew : pc[w] \in {"leave", "gone"} => cancelled \/ cursor > N
           /\ returned => \A w \in Crew : pc[w] = "gone"
<1>1. Crew = Run!Crew /\ Index = Run!Index /\ Run!NoIndex = -1
    BY DEF Crew, Pool!Crew, Pool!CrewSize, Run!Crew, Run!CrewSize, Index, Pool!Index, Run!Index, Run!NoIndex
<1>2. Run!TypeOK /\ Run!ClaimedIsOwned /\ Run!LeavesForAReason /\ Run!ReturnedAfterCrew /\ broke = {}
    BY DEF Crewed, Run!Inv
<1>3. /\ cursor \in Nat /\ pc \in [Crew -> {"check", "claim", "body", "leave", "gone"}]
      /\ held \in [Crew -> Index \cup {-1}] /\ done \subseteq Index
    BY <1>1, <1>2 DEF Run!TypeOK
<1>4. cancelled \in BOOLEAN
    BY <1>2 DEF Run!TypeOK
<1>5. /\ \A i \in Index : i < cursor <=> (i \in done \/ \E w \in Crew : pc[w] = "body" /\ held[w] = i)
      /\ \A w \in Crew : pc[w] = "body" =>
            held[w] \in Index \ done /\ \A v \in Crew \ {w} : pc[v] = "body" => held[v] # held[w]
    BY <1>1, <1>2 DEF Run!ClaimedIsOwned, Run!Working
<1>6. \A w \in Crew : pc[w] \in {"leave", "gone"} => cancelled \/ cursor > N
    BY <1>1, <1>2 DEF Run!LeavesForAReason
<1>7. returned => \A w \in Crew : pc[w] = "gone"
    BY <1>1, <1>2 DEF Run!ReturnedAfterCrew
<1> QED
    BY <1>3, <1>4, <1>5, <1>6, <1>7

(* What a step of the phase does to the crew.                              *)
LEMMA ClaimMoves ==
    ASSUME Crewed, NEW w \in Crew, Claim(w)
    PROVE  /\ pc[w] = "claim" /\ cursor' = cursor + 1 /\ done' = done /\ cancelled' = cancelled
           /\ pos' = [pos EXCEPT ![w] = 1]
           /\ \/ cursor >= N /\ pc' = [pc EXCEPT ![w] = "leave"] /\ held' = held
              \/ cursor < N /\ pc' = [pc EXCEPT ![w] = "body"] /\ held' = [held EXCEPT ![w] = cursor]
           /\ UNCHANGED <<at, sinkVars, emitted, writes, completed>>
<1>1. /\ pc[w] = "claim" /\ cursor' = cursor + 1 /\ done' = done /\ cancelled' = cancelled
      /\ pos' = [pos EXCEPT ![w] = 1]
      /\ UNCHANGED <<at, sinkVars, emitted, writes, completed>>
    BY DEF Claim, Pool!Claim, Pool!Claimable, FirstLeaf
<1>2. CASE Pool!PastEnd(cursor)
    <2>1. pc' = [pc EXCEPT ![w] = "leave"] /\ held' = held
        BY <1>2 DEF Claim, Pool!Claim, Pool!Claimable, Pool!GoTo
    <2> QED
        BY <1>1, <1>2, <2>1 DEF Pool!PastEnd
<1>3. CASE ~Pool!PastEnd(cursor)
    <2>1. pc' = [pc EXCEPT ![w] = "body"] /\ held' = [held EXCEPT ![w] = cursor]
        BY <1>3 DEF Claim, Pool!Claim, Pool!Claimable, Pool!GoTo
    <2>2. cursor < N
        BY <1>3, GenAssumption, CrewFacts DEF Pool!PastEnd
    <2> QED
        BY <1>1, <2>1, <2>2
<1> QED
    BY <1>2, <1>3

LEMMA CheckMoves ==
    ASSUME NEW w \in Crew, Check(w)
    PROVE  /\ pc[w] = "check" /\ \E where \in {"claim", "leave"} : pc' = [pc EXCEPT ![w] = where]
           /\ cursor' = cursor /\ held' = held /\ done' = done /\ cancelled' = cancelled
           /\ UNCHANGED <<at, pos, sinkVars, emitted, writes, completed>>
BY DEF Check, Pool!Check, Pool!GoTo

LEMMA LeaveMoves ==
    ASSUME NEW w \in Crew, Leave(w)
    PROVE  /\ pc[w] = "leave" /\ at[w] = "flushed" /\ pc' = [pc EXCEPT ![w] = "gone"]
           /\ cursor' = cursor /\ held' = held /\ done' = done /\ cancelled' = cancelled
           /\ UNCHANGED <<at, pos, sinkVars, emitted, writes, completed>>
BY DEF Leave, Released, Pool!Leave, Pool!GoTo

LEMMA FinishMoves ==
    ASSUME NEW w \in Crew, ReportTaskCompleted(w)
    PROVE  /\ pc[w] = "body" /\ at[w] = "finish"
           /\ pc' = [pc EXCEPT ![w] = "check"] /\ at' = [at EXCEPT ![w] = "dfs"]
           /\ held' = [held EXCEPT ![w] = -1] /\ done' = done \cup {held[w]}
           /\ cursor' = cursor /\ cancelled' = cancelled /\ completed' = completed + 1
           /\ UNCHANGED <<pos, sinkVars, emitted, writes>>
BY DEF ReportTaskCompleted, Pool!Finish, Pool!GoTo, Pool!NoIndex, GoTo

(* All other steps of a worker leave the crew alone.                       *)
Inside(w) == Emit(w) \/ EndDescent(w) \/ ReportSubtask(w) \/ Lock(w) \/ Load(w) \/ Store(w) \/ FlushEnd(w)

LEMMA InsideMoves ==
    ASSUME NEW w, Inside(w)
    PROVE  UNCHANGED <<poolVars, discard, completed>>
BY DEF Inside, Emit, EndDescent, ReportSubtask, Lock, Load, Store, FlushEnd, sinkVars

(* Emissions: a task and a place in its descent.                           *)
LEMMA Emissions ==
    /\ \A e \in Emission : /\ e[1] \in Index /\ e[2] \in 1 .. Len(Leaves[e[1]]) /\ e = <<e[1], e[2]>>
                           /\ ClassOf(e) \in Class /\ ShardOf[ClassOf(e)] \in Shard
    /\ \A i \in Index : Len(Leaves[i]) \in Nat /\ \A k \in 1 .. Len(Leaves[i]) : <<i, k>> \in Emission
<1>1. \A i \in Index : Leaves[i] \in Seq(Class)
    BY GenAssumption
<1>2. \A i \in Index : Len(Leaves[i]) \in Nat /\ \A k \in 1 .. Len(Leaves[i]) : <<i, k>> \in Emission
    BY <1>1 DEF Emission
<1>3. ASSUME NEW e \in Emission
      PROVE  /\ e[1] \in Index /\ e[2] \in 1 .. Len(Leaves[e[1]]) /\ e = <<e[1], e[2]>>
             /\ ClassOf(e) \in Class /\ ShardOf[ClassOf(e)] \in Shard
    <2>1. PICK i \in Index : e \in {i} \X (1 .. Len(Leaves[i]))
        BY DEF Emission
    <2>2. e[1] = i /\ e[2] \in 1 .. Len(Leaves[i]) /\ e = <<e[1], e[2]>>
        BY <2>1
    <2>3. ClassOf(e) \in Class
        BY <1>1, <2>2 DEF ClassOf
    <2> QED
        BY <2>2, <2>3, GenAssumption
<1> QED
    BY <1>2, <1>3

LEMMA EmissionFinite == IsFiniteSet(Index) /\ IsFiniteSet(Emission) /\ Cardinality(Index) = N
<1>1. IsFiniteSet(Index) /\ Cardinality(Index) = N
    <2>1. 0 \in Int /\ N - 1 \in Int /\ N \in Nat
        BY GenAssumption
    <2>2. IsFiniteSet(0 .. N - 1) /\ Cardinality(0 .. N - 1) = N
        BY <2>1, FS_Interval
    <2> QED
        BY <2>2 DEF Index, Pool!Index
<1> DEFINE T == {{i} \X (1 .. Len(Leaves[i])) : i \in Index}
           f == [i \in Index |-> {i} \X (1 .. Len(Leaves[i]))]
<1>2. f \in Surjection(Index, T)
    BY DEF Surjection
<1>3. IsFiniteSet(T)
    BY <1>1, <1>2, FS_Surjection
<1>4. ASSUME NEW i \in Index
      PROVE  IsFiniteSet({i} \X (1 .. Len(Leaves[i])))
    <2>1. 1 \in Int /\ Len(Leaves[i]) \in Int
        BY Emissions
    <2>2. IsFiniteSet(1 .. Len(Leaves[i])) /\ IsFiniteSet({i})
        BY <2>1, FS_Interval, FS_Singleton
    <2> QED
        BY <2>2, FS_Product
<1> QED
    BY <1>1, <1>3, <1>4, FS_UNION DEF Emission

LEMMA Least ==
    ASSUME NEW T \in SUBSET Nat, T # {}
    PROVE  \E x \in T : \A y \in T : x <= y
<1> DEFINE R == {p \in Nat \X Nat : p[1] < p[2]}
<1>1. IsWellFoundedOn(R, Nat)
    BY NatLessThanWellFounded DEF OpToRel
<1>2. PICK x \in T : \A y \in T : ~ (<<y, x>> \in R)
    BY <1>1, WFMin
<1>3. ASSUME NEW y \in T
      PROVE  x <= y
    <2>1. x \in Nat /\ y \in Nat /\ <<y, x>> \in Nat \X Nat
        OBVIOUS
    <2>2. ~ (y < x)
        BY <1>2, <2>1
    <2> QED
        BY <2>1, <2>2
<1> QED
    BY <1>3

(* Flush goes through the shards in order: the next one is the smallest    *)
(* with a basket that is not empty.                                        *)
LEMMA NextBasketIs ==
    ASSUME NEW w, staged[w] # {}, staged[w] \subseteq Emission
    PROVE  /\ NextBasket(w) \in Shard /\ Basket(w, NextBasket(w)) # {}
           /\ \A t \in Shard : Basket(w, t) # {} => NextBasket(w) <= t
<1> DEFINE T == {s \in Shard : Basket(w, s) # {}}
<1>1. T # {}
    BY Emissions DEF Basket
<1>2. T \in SUBSET Nat
    BY GenAssumption
<1>3. \E s \in T : \A t \in T : s <= t
    BY <1>1, <1>2, Least
<1>4. \E s \in Shard : Basket(w, s) # {} /\ \A t \in Shard : Basket(w, t) # {} => s <= t
    BY <1>3
<1> QED
    BY <1>4 DEF NextBasket

(* It is the same one as long as its basket is not empty and the others do *)
(* not change.                                                             *)
LEMMA NextBasketUnique ==
    ASSUME NEW w, NEW s \in Shard, Basket(w, s) # {}, \A t \in Shard : Basket(w, t) # {} => s <= t
    PROVE  NextBasket(w) = s
<1>1. /\ Basket(w, NextBasket(w)) # {} /\ NextBasket(w) \in Shard
      /\ \A t \in Shard : Basket(w, t) # {} => NextBasket(w) <= t
    BY DEF NextBasket
<1>2. s <= NextBasket(w) /\ NextBasket(w) <= s /\ s \in Nat /\ NextBasket(w) \in Nat
    BY <1>1, GenAssumption
<1> QED
    BY <1>2

-----------------------------------------------------------------------------
LEMMA EmitMoves ==
    ASSUME Crewed, TypeOK, Placed, NEW w \in Crew, Emit(w)
    PROVE  /\ pc[w] = "body" /\ at[w] = "dfs" /\ pos[w] \in 1 .. Len(Leaves[held[w]]) /\ held[w] \in Index
           /\ <<held[w], pos[w]>> \in Emission
           /\ pos' = [pos EXCEPT ![w] = @ + 1]
           /\ UNCHANGED <<poolVars, discard, lock, word, entry, table, writes, completed>>
           /\ \/ discard /\ UNCHANGED <<at, staged, pending, emitted>>
              \/ /\ ~discard
                 /\ staged' = [staged EXCEPT ![w] = @ \cup {<<held[w], pos[w]>>}]
                 /\ pending' = [pending EXCEPT ![w] = @ + 1]
                 /\ emitted' = emitted \cup {<<held[w], pos[w]>>}
                 /\ at' = [at EXCEPT ![w] = IF pending[w] + 1 = Limit THEN "flush" ELSE "dfs"]
<1>1. pc[w] = "body" /\ at[w] = "dfs" /\ pos[w] <= Len(Leaves[held[w]])
    BY DEF Emit, InDescent, More
<1>2. held[w] \in Index
    BY <1>1, CrewFacts
<1>3. pos[w] \in 1 .. Len(Leaves[held[w]]) /\ <<held[w], pos[w]>> \in Emission
    BY <1>1, <1>2, Emissions DEF TypeOK
<1>4. /\ pos' = [pos EXCEPT ![w] = @ + 1]
      /\ UNCHANGED <<poolVars, discard, lock, word, entry, table, writes, completed>>
    BY DEF Emit
<1>5. CASE discard
    BY <1>1, <1>2, <1>3, <1>4, <1>5 DEF Emit
<1>6. CASE ~discard
    <2>1. /\ staged' = [staged EXCEPT ![w] = @ \cup {<<held[w], pos[w]>>}]
          /\ pending' = [pending EXCEPT ![w] = @ + 1]
          /\ emitted' = emitted \cup {<<held[w], pos[w]>>}
        BY <1>6 DEF Emit
    <2>2. at' = [at EXCEPT ![w] = IF pending[w] + 1 = Limit THEN "flush" ELSE "dfs"]
        BY <1>6 DEF Emit, GoTo, Flushes
    <2> QED
        BY <1>1, <1>2, <1>3, <1>4, <1>6, <2>1, <2>2
<1> QED
    BY <1>5, <1>6

LEMMA StoreMoves ==
    ASSUME TypeOK, Locked, NEW w \in Crew, Store(w)
    PROVE  /\ at[w] = "store" /\ entry[w] \in Basket(w, NextBasket(w)) /\ entry[w] \in Emission
           /\ ClassOf(entry[w]) \in Class /\ ShardOf[ClassOf(entry[w])] = NextBasket(w) /\ NextBasket(w) \in Shard
           /\ word[w] = table[ClassOf(entry[w])]
           /\ table' = [table EXCEPT ![ClassOf(entry[w])] = @ \cup {entry[w]}]
           /\ staged' = [staged EXCEPT ![w] = @ \ {entry[w]}]
           /\ \/ /\ \A e \in staged[w] \ {entry[w]} : ShardOf[ClassOf(e)] # NextBasket(w)
                 /\ lock' = [lock EXCEPT ![NextBasket(w)] = Nobody] /\ at' = [at EXCEPT ![w] = "flush"]
              \/ /\ \E e \in staged[w] \ {entry[w]} : ShardOf[ClassOf(e)] = NextBasket(w)
                 /\ lock' = lock /\ at' = [at EXCEPT ![w] = "add"]
           /\ UNCHANGED <<poolVars, discard, pos, pending, word, entry, emitted, writes, completed>>
<1>1. at[w] = "store"
    BY DEF Store
<1>2. entry[w] \in Basket(w, NextBasket(w)) /\ word[w] = table[ClassOf(entry[w])]
    BY <1>1 DEF Locked
<1>3. entry[w] \in staged[w] /\ staged[w] \subseteq Emission /\ ShardOf[ClassOf(entry[w])] = NextBasket(w)
    BY <1>2 DEF Basket, TypeOK
<1>4. entry[w] \in Emission /\ ClassOf(entry[w]) \in Class /\ NextBasket(w) \in Shard
    BY <1>3, Emissions
<1>5. /\ table' = [table EXCEPT ![ClassOf(entry[w])] = word[w] \cup {entry[w]}]
      /\ staged' = [staged EXCEPT ![w] = staged[w] \ {entry[w]}]
      /\ UNCHANGED <<poolVars, discard, pos, pending, word, entry, emitted, writes, completed>>
    BY DEF Store, AfterAdd
<1>6. \/ /\ \A e \in staged[w] \ {entry[w]} : ShardOf[ClassOf(e)] # NextBasket(w)
         /\ lock' = [lock EXCEPT ![NextBasket(w)] = Nobody] /\ at' = [at EXCEPT ![w] = "flush"]
      \/ /\ \E e \in staged[w] \ {entry[w]} : ShardOf[ClassOf(e)] = NextBasket(w)
         /\ lock' = lock /\ at' = [at EXCEPT ![w] = "add"]
    BY <1>3 DEF Store, AfterAdd, GoTo
<1> QED
    BY <1>1, <1>2, <1>3, <1>4, <1>5, <1>6

LEMMA LockMoves ==
    ASSUME TypeOK, NEW w \in Crew, Lock(w)
    PROVE  /\ (at[w] = "flush" \/ (pc[w] = "leave" /\ at[w] = "dfs")) /\ staged[w] # {} /\ NextBasket(w) \in Shard
           /\ lock[NextBasket(w)] = Nobody /\ lock' = [lock EXCEPT ![NextBasket(w)] = w]
           /\ at' = [at EXCEPT ![w] = "add"]
           /\ UNCHANGED <<poolVars, discard, pos, staged, pending, word, entry, table, emitted, writes, completed>>
<1>1. /\ (at[w] = "flush" \/ (pc[w] = "leave" /\ at[w] = "dfs")) /\ staged[w] # {}
      /\ lock[NextBasket(w)] = Nobody /\ lock' = [lock EXCEPT ![NextBasket(w)] = w]
      /\ at' = [at EXCEPT ![w] = "add"]
      /\ UNCHANGED <<poolVars, discard, pos, staged, pending, word, entry, table, emitted, writes, completed>>
    BY DEF Lock, Flushing, LockFree, GoTo
<1>2. NextBasket(w) \in Shard
    BY <1>1, NextBasketIs DEF TypeOK, Lock
<1> QED
    BY <1>1, <1>2

LEMMA TypeNext == Crewed /\ Crewed' /\ TypeOK /\ Placed /\ Locked /\ [Next]_vars => TypeOK'
<1> SUFFICES ASSUME Crewed, Crewed', TypeOK, Placed, Locked, [Next]_vars
             PROVE  TypeOK'
    OBVIOUS
<1>0. Pool!TypeOK'
    BY DEF Crewed, Run!Inv, Run!TypeOK, Pool!TypeOK, Run!Crew, Run!CrewSize, Pool!Crew, Pool!CrewSize,
        Run!Index, Pool!Index, Run!NoIndex, Pool!NoIndex
<1>1. /\ at \in [Crew -> {"dfs", "flush", "add", "store", "report", "finish", "flushed"}]
      /\ pos \in [Crew -> Nat \ {0}] /\ staged \in [Crew -> SUBSET Emission] /\ pending \in [Crew -> Nat]
      /\ lock \in [Shard -> Crew \cup {Nobody}] /\ word \in [Crew -> SUBSET Emission]
      /\ entry \in [Crew -> Emission \cup {<< >>}] /\ table \in [Class -> SUBSET Emission]
      /\ emitted \subseteq Emission /\ writes \in Nat /\ completed \in Nat
    BY DEF TypeOK
<1>a. discard \in BOOLEAN
    BY DEF TypeOK
<1>2. CASE Cancel \/ Join \/ UNCHANGED vars
    BY <1>0, <1>1, <1>a, <1>2 DEF TypeOK, Cancel, Join, sinkVars, vars
<1>3. ASSUME NEW w \in Crew, Step(w)
      PROVE  TypeOK'
    <2>1. CASE Check(w) \/ Claim(w) \/ Leave(w)
        <3>1. UNCHANGED <<at, sinkVars, emitted, writes, completed>>
            BY <2>1 DEF Check, Claim, Leave
        <3>2. pos' \in [Crew -> Nat \ {0}]
            BY <1>1, <2>1 DEF Check, Claim, Leave, FirstLeaf
        <3> QED
            BY <1>0, <1>1, <1>a, <3>1, <3>2 DEF TypeOK, sinkVars
    <2>2. CASE ReportTaskCompleted(w)
        <3>1. at' = [at EXCEPT ![w] = "dfs"] /\ completed' = completed + 1
              /\ UNCHANGED <<pos, sinkVars, emitted, writes>>
            BY <2>2, FinishMoves
        <3> QED
            BY <1>0, <1>1, <1>a, <3>1 DEF TypeOK, sinkVars
    <2>3. CASE Emit(w)
        <3>1. /\ <<held[w], pos[w]>> \in Emission
              /\ pos' = [pos EXCEPT ![w] = @ + 1]
              /\ UNCHANGED <<discard, lock, word, entry, table, writes, completed>>
              /\ \/ UNCHANGED <<at, staged, pending, emitted>>
                 \/ /\ staged' = [staged EXCEPT ![w] = @ \cup {<<held[w], pos[w]>>}]
                    /\ pending' = [pending EXCEPT ![w] = @ + 1]
                    /\ emitted' = emitted \cup {<<held[w], pos[w]>>}
                    /\ at' = [at EXCEPT ![w] = IF pending[w] + 1 = Limit THEN "flush" ELSE "dfs"]
            BY <2>3, EmitMoves
        <3>2. pos' \in [Crew -> Nat \ {0}]
            BY <1>1, <3>1
        <3>3. /\ at' \in [Crew -> {"dfs", "flush", "add", "store", "report", "finish", "flushed"}]
              /\ staged' \in [Crew -> SUBSET Emission] /\ pending' \in [Crew -> Nat] /\ emitted' \subseteq Emission
            <4>1. CASE UNCHANGED <<at, staged, pending, emitted>>
                BY <1>1, <4>1
            <4>2. CASE /\ staged' = [staged EXCEPT ![w] = @ \cup {<<held[w], pos[w]>>}]
                       /\ pending' = [pending EXCEPT ![w] = @ + 1]
                       /\ emitted' = emitted \cup {<<held[w], pos[w]>>}
                       /\ at' = [at EXCEPT ![w] = IF pending[w] + 1 = Limit THEN "flush" ELSE "dfs"]
                <5>1. staged' \in [Crew -> SUBSET Emission] /\ emitted' \subseteq Emission
                    BY <1>1, <3>1, <4>2
                <5>2. pending' \in [Crew -> Nat]
                    BY <1>1, <4>2
                <5>3. at' \in [Crew -> {"dfs", "flush", "add", "store", "report", "finish", "flushed"}]
                    BY <1>1, <4>2
                <5> QED
                    BY <5>1, <5>2, <5>3
            <4> QED
                BY <3>1, <4>1, <4>2
        <3> QED
            BY <1>0, <1>1, <1>a, <3>1, <3>2, <3>3 DEF TypeOK
    <2>4. CASE EndDescent(w)
        BY <1>0, <1>1, <1>a, <2>4 DEF TypeOK, EndDescent, GoTo, sinkVars
    <2>5. CASE ReportSubtask(w)
        <3>1. writes' \in Nat
            BY <1>1, <2>5 DEF ReportSubtask
        <3> QED
            BY <1>0, <1>1, <1>a, <2>5, <3>1 DEF TypeOK, ReportSubtask, GoTo, sinkVars
    <2>6. CASE Lock(w)
        <3>1. /\ NextBasket(w) \in Shard /\ lock' = [lock EXCEPT ![NextBasket(w)] = w]
              /\ at' = [at EXCEPT ![w] = "add"]
              /\ UNCHANGED <<discard, pos, staged, pending, word, entry, table, emitted, writes, completed>>
            BY <2>6, LockMoves
        <3> QED
            BY <1>0, <1>1, <1>a, <3>1 DEF TypeOK
    <2>7. CASE Load(w)
        <3>1. PICK e \in Basket(w, NextBasket(w)) :
                  entry' = [entry EXCEPT ![w] = e] /\ word' = [word EXCEPT ![w] = table[ClassOf(e)]]
            BY <2>7 DEF Load
        <3>2. e \in Emission /\ ClassOf(e) \in Class
            BY <1>1, <3>1, Emissions DEF Basket
        <3> QED
            BY <1>0, <1>1, <1>a, <2>7, <3>1, <3>2 DEF TypeOK, Load, GoTo
    <2>8. CASE Store(w)
        <3>1. /\ entry[w] \in Emission /\ ClassOf(entry[w]) \in Class /\ NextBasket(w) \in Shard
              /\ table' = [table EXCEPT ![ClassOf(entry[w])] = @ \cup {entry[w]}]
              /\ staged' = [staged EXCEPT ![w] = @ \ {entry[w]}]
              /\ \/ lock' = [lock EXCEPT ![NextBasket(w)] = Nobody] /\ at' = [at EXCEPT ![w] = "flush"]
                 \/ lock' = lock /\ at' = [at EXCEPT ![w] = "add"]
              /\ UNCHANGED <<discard, pos, pending, word, entry, emitted, writes, completed>>
            BY <2>8, StoreMoves
        <3>2. table' \in [Class -> SUBSET Emission] /\ staged' \in [Crew -> SUBSET Emission]
            BY <1>1, <3>1
        <3>3. lock' \in [Shard -> Crew \cup {Nobody}]
              /\ at' \in [Crew -> {"dfs", "flush", "add", "store", "report", "finish", "flushed"}]
            BY <1>1, <3>1
        <3> QED
            BY <1>0, <1>1, <1>a, <3>1, <3>2, <3>3 DEF TypeOK
    <2>9. CASE FlushEnd(w)
        <3>1. pending' \in [Crew -> Nat]
            BY <1>1, <2>9 DEF FlushEnd, PendingAfterFlush
        <3> QED
            BY <1>0, <1>1, <1>a, <2>9, <3>1 DEF TypeOK, FlushEnd, GoTo
    <2> QED
        BY <1>3, <2>1, <2>2, <2>3, <2>4, <2>5, <2>6, <2>7, <2>8, <2>9 DEF Step
<1> QED
    BY <1>2, <1>3 DEF Next

-----------------------------------------------------------------------------
(* A worker touches nothing that belongs to another.                       *)
LEMMA Others ==
    ASSUME Crewed, TypeOK, Placed, Locked, NEW w \in Crew, Step(w), NEW v \in Crew \ {w}
    PROVE  /\ pc'[v] = pc[v] /\ at'[v] = at[v] /\ pos'[v] = pos[v] /\ held'[v] = held[v]
           /\ staged'[v] = staged[v] /\ pending'[v] = pending[v] /\ word'[v] = word[v] /\ entry'[v] = entry[v]
<1>1. pc \in [Crew -> {"check", "claim", "body", "leave", "gone"}] /\ held \in [Crew -> Index \cup {-1}]
    BY CrewFacts
<1>2. /\ at \in [Crew -> {"dfs", "flush", "add", "store", "report", "finish", "flushed"}]
      /\ pos \in [Crew -> Nat \ {0}] /\ staged \in [Crew -> SUBSET Emission] /\ pending \in [Crew -> Nat]
      /\ word \in [Crew -> SUBSET Emission] /\ entry \in [Crew -> Emission \cup {<< >>}]
    BY DEF TypeOK
<1>3. CASE Check(w)
    BY <1>1, <1>2, <1>3, CheckMoves DEF sinkVars
<1>4. CASE Claim(w)
    <2>1. /\ pos' = [pos EXCEPT ![w] = 1] /\ UNCHANGED <<at, sinkVars>>
          /\ \/ pc' = [pc EXCEPT ![w] = "leave"] /\ held' = held
             \/ pc' = [pc EXCEPT ![w] = "body"] /\ held' = [held EXCEPT ![w] = cursor]
        BY <1>4, ClaimMoves
    <2>2. pc'[v] = pc[v] /\ held'[v] = held[v]
        BY <1>1, <2>1
    <2>3. pos'[v] = pos[v]
        BY <1>2, <2>1
    <2> QED
        BY <2>1, <2>2, <2>3 DEF sinkVars
<1>5. CASE Leave(w)
    BY <1>1, <1>2, <1>5, LeaveMoves DEF sinkVars
<1>6. CASE ReportTaskCompleted(w)
    BY <1>1, <1>2, <1>6, FinishMoves DEF sinkVars
<1>7. CASE Emit(w)
    <2>0. pos' = [pos EXCEPT ![w] = @ + 1] /\ UNCHANGED <<poolVars, word, entry>>
        BY <1>7, EmitMoves
    <2>1. pos'[v] = pos[v] /\ UNCHANGED <<poolVars, word, entry>>
        BY <1>2, <2>0
    <2>2. CASE UNCHANGED <<at, staged, pending, emitted>>
        BY <2>1, <2>2 DEF poolVars
    <2>3. CASE /\ staged' = [staged EXCEPT ![w] = @ \cup {<<held[w], pos[w]>>}]
               /\ pending' = [pending EXCEPT ![w] = @ + 1]
               /\ at' = [at EXCEPT ![w] = IF pending[w] + 1 = Limit THEN "flush" ELSE "dfs"]
        BY <1>2, <2>1, <2>3 DEF poolVars
    <2> QED
        BY <1>7, <2>2, <2>3, EmitMoves
<1>8. CASE EndDescent(w)
    BY <1>2, <1>8 DEF EndDescent, GoTo, poolVars, sinkVars
<1>9. CASE ReportSubtask(w)
    BY <1>2, <1>9 DEF ReportSubtask, GoTo, poolVars, sinkVars
<1>10. CASE Lock(w)
    BY <1>2, <1>10, LockMoves DEF poolVars
<1>11. CASE Load(w)
    BY <1>2, <1>11 DEF Load, GoTo, poolVars
<1>12. CASE Store(w)
    BY <1>2, <1>12, StoreMoves DEF poolVars
<1>13. CASE FlushEnd(w)
    BY <1>2, <1>13 DEF FlushEnd, GoTo, PendingAfterFlush, poolVars
<1> QED
    BY <1>3, <1>4, <1>5, <1>6, <1>7, <1>8, <1>9, <1>10, <1>11, <1>12, <1>13 DEF Step

PlaceOf(w) ==
    /\ pc[w] \in {"check", "claim"} => at[w] = "dfs"
    /\ pc[w] = "body" => at[w] # "flushed" /\ pos[w] <= Len(Leaves[held[w]]) + 1
    /\ pc[w] = "leave" => at[w] \notin {"report", "finish"}
    /\ pc[w] = "gone" => at[w] = "flushed"
    /\ at[w] = "flushed" => staged[w] = {}

LEMMA PlacedNext ==
    Crewed /\ TypeOK /\ TypeOK' /\ Placed /\ Locked /\ [Next]_vars => Placed'
<1> SUFFICES ASSUME Crewed, TypeOK, TypeOK', Placed, Locked, [Next]_vars
             PROVE  Placed'
    OBVIOUS
<1>1. CASE Cancel \/ Join \/ UNCHANGED vars
    <2>1. pc' = pc /\ at' = at /\ pos' = pos /\ held' = held /\ staged' = staged
        BY <1>1 DEF Cancel, Join, Pool!Cancel, Pool!Join, sinkVars, vars, poolVars
    <2> QED
        BY <2>1 DEF Placed
<1>2. ASSUME NEW w \in Crew, Step(w)
      PROVE  PlaceOf(w)'
    <2>0. PlaceOf(w)
        BY DEF Placed, PlaceOf
    <2>1. /\ pc \in [Crew -> {"check", "claim", "body", "leave", "gone"}] /\ held \in [Crew -> Index \cup {-1}]
          /\ at \in [Crew -> {"dfs", "flush", "add", "store", "report", "finish", "flushed"}]
          /\ pos \in [Crew -> Nat \ {0}] /\ staged \in [Crew -> SUBSET Emission] /\ cursor \in Nat
        BY CrewFacts DEF TypeOK
    <2>3. CASE Check(w)
        BY <2>0, <2>1, <2>3, CheckMoves DEF PlaceOf, sinkVars
    <2>4. CASE Claim(w)
        <3>1. /\ pc[w] = "claim" /\ at[w] = "dfs" /\ at' = at /\ pos'[w] = 1 /\ staged' = staged
            BY <2>0, <2>1, <2>4, ClaimMoves DEF PlaceOf, sinkVars
        <3>2. CASE cursor < N
            <4>1. pc'[w] = "body" /\ held'[w] = cursor /\ cursor \in Index
                BY <2>1, <2>4, <3>2, ClaimMoves, GenAssumption DEF Index, Pool!Index
            <4> QED
                BY <3>1, <4>1, Emissions DEF PlaceOf
        <3>3. CASE cursor >= N
            <4>1. pc'[w] = "leave"
                BY <2>1, <2>4, <3>3, ClaimMoves, GenAssumption
            <4> QED
                BY <3>1, <4>1 DEF PlaceOf
        <3> QED
            BY <2>1, <3>2, <3>3, GenAssumption
    <2>5. CASE Leave(w)
        BY <2>0, <2>1, <2>5, LeaveMoves DEF PlaceOf, sinkVars
    <2>6. CASE ReportTaskCompleted(w)
        BY <2>0, <2>1, <2>6, FinishMoves DEF PlaceOf, sinkVars
    <2>7. CASE Emit(w)
        <3>1. /\ pc[w] = "body" /\ at[w] = "dfs" /\ pos[w] \in 1 .. Len(Leaves[held[w]])
              /\ pc' = pc /\ held' = held /\ pos'[w] = pos[w] + 1
            BY <2>1, <2>7, EmitMoves DEF poolVars
        <3>2. at'[w] \in {"dfs", "flush"}
            BY <2>1, <2>7, EmitMoves
        <3> QED
            BY <3>1, <3>2 DEF PlaceOf
    <2>8. CASE EndDescent(w)
        BY <2>0, <2>1, <2>8 DEF PlaceOf, EndDescent, InDescent, GoTo, poolVars, sinkVars
    <2>9. CASE ReportSubtask(w)
        BY <2>0, <2>1, <2>9 DEF PlaceOf, ReportSubtask, GoTo, poolVars, sinkVars
    <2>10. CASE Lock(w)
        <3>1. /\ at[w] = "flush" \/ (pc[w] = "leave" /\ at[w] = "dfs")
              /\ at'[w] = "add" /\ pc' = pc /\ held' = held /\ pos' = pos
            BY <2>1, <2>10, LockMoves DEF poolVars
        <3> QED
            BY <2>0, <2>1, <3>1 DEF PlaceOf
    <2>11. CASE Load(w)
        BY <2>0, <2>1, <2>11 DEF PlaceOf, Load, GoTo, poolVars
    <2>12. CASE Store(w)
        <3>1. at[w] = "store" /\ at'[w] \in {"add", "flush"} /\ pc' = pc /\ held' = held /\ pos' = pos
            BY <2>1, <2>12, StoreMoves DEF poolVars
        <3> QED
            BY <2>0, <2>1, <3>1 DEF PlaceOf
    <2>13. CASE FlushEnd(w)
        BY <2>0, <2>1, <2>13 DEF PlaceOf, FlushEnd, Flushing, GoTo, poolVars
    <2> QED
        BY <1>2, <2>3, <2>4, <2>5, <2>6, <2>7, <2>8, <2>9, <2>10, <2>11, <2>12, <2>13 DEF Step
<1>3. ASSUME NEW w \in Crew, Step(w), NEW v \in Crew \ {w}
      PROVE  PlaceOf(v)'
    <2>1. PlaceOf(v)
        BY DEF Placed, PlaceOf
    <2>2. pc'[v] = pc[v] /\ at'[v] = at[v] /\ pos'[v] = pos[v] /\ held'[v] = held[v] /\ staged'[v] = staged[v]
        BY <1>3, Others
    <2> QED
        BY <2>1, <2>2 DEF PlaceOf
<1>4. ASSUME NEW w \in Crew, Step(w)
      PROVE  Placed'
    <2>1. \A v \in Crew : PlaceOf(v)'
        BY <1>2, <1>3, <1>4
    <2> QED
        BY <2>1 DEF Placed, PlaceOf
<1> QED
    BY <1>1, <1>4 DEF Next

LEMMA DiscardedNext == Crewed /\ TypeOK /\ Placed /\ Discarded /\ [Next]_vars => Discarded'
<1> SUFFICES ASSUME Crewed, TypeOK, Placed, Discarded, [Next]_vars
             PROVE  Discarded'
    OBVIOUS
<1>1. ASSUME NEW w \in Crew, Emit(w)
      PROVE  Discarded'
    BY <1>1, EmitMoves DEF Discarded
<1>2. ASSUME NEW w \in Crew, Step(w), ~Emit(w)
      PROVE  discard' = discard /\ emitted' = emitted
    BY <1>2 DEF Step, Check, Claim, EndDescent, ReportSubtask, ReportTaskCompleted, Lock, Load, Store, FlushEnd,
        Leave, sinkVars
<1>3. CASE Cancel \/ Join \/ UNCHANGED vars
    BY <1>3 DEF Cancel, Join, sinkVars, vars, Discarded
<1> QED
    BY <1>1, <1>2, <1>3 DEF Next, Discarded

-----------------------------------------------------------------------------
(* The descents.                                                           *)
LEMMA DescendingKeeps ==
    ASSUME Descending, emitted' = emitted, pos' = pos, held' = held, cursor' = cursor, done' = done,
           discard' = discard, cancelled => cancelled',
           \A w \in Crew : /\ pc'[w] = "body" <=> pc[w] = "body"
                           /\ at'[w] \in {"report", "finish"} => at[w] \in {"report", "finish"}
    PROVE  Descending'
BY DEF Descending

LEMMA DescendingClaim ==
    ASSUME Crewed, TypeOK, Placed, Descending, NEW w \in Crew, Claim(w)
    PROVE  Descending'
<1>1. /\ pc[w] = "claim" /\ cursor' = cursor + 1 /\ done' = done /\ cancelled' = cancelled
      /\ pos' = [pos EXCEPT ![w] = 1] /\ at' = at /\ emitted' = emitted /\ discard' = discard
      /\ \/ pc' = [pc EXCEPT ![w] = "leave"] /\ held' = held
         \/ pc' = [pc EXCEPT ![w] = "body"] /\ held' = [held EXCEPT ![w] = cursor]
    BY ClaimMoves DEF sinkVars
<1>2. /\ pc \in [Crew -> {"check", "claim", "body", "leave", "gone"}] /\ held \in [Crew -> Index \cup {-1}]
      /\ pos \in [Crew -> Nat \ {0}] /\ emitted \subseteq Emission /\ cursor \in Nat
    BY CrewFacts DEF TypeOK
<1>3. pos'[w] = 1 /\ \A v \in Crew \ {w} : pos'[v] = pos[v]
    BY <1>1, <1>2
<1>4. /\ \A v \in Crew \ {w} : pc'[v] = pc[v] /\ held'[v] = held[v]
      /\ pc'[w] = "body" => held'[w] = cursor
    BY <1>1, <1>2
<1>5. ASSUME NEW e \in emitted
      PROVE  e[1] < cursor' /\ \A v \in Crew : pc'[v] = "body" /\ held'[v] = e[1] => e[2] < pos'[v]
    <2>1. /\ e[1] < cursor /\ \A v \in Crew : pc[v] = "body" /\ held[v] = e[1] => e[2] < pos[v]
        BY DEF Descending
    <2>2. e[1] \in Nat
        BY <1>2, Emissions DEF Index, Pool!Index
    <2>3. e[1] < cursor' /\ e[1] # cursor
        BY <1>1, <1>2, <2>1, <2>2
    <2>4. \A v \in Crew \ {w} : pc'[v] = "body" /\ held'[v] = e[1] => e[2] < pos'[v]
        BY <1>3, <1>4, <2>1
    <2> QED
        BY <1>4, <2>3, <2>4
<1>6. ~discard' => \A v \in Crew : pc'[v] = "body" => \A k \in 1 .. pos'[v] - 1 : <<held'[v], k>> \in emitted'
    BY <1>1, <1>3, <1>4 DEF Descending
<1>7. ~cancelled' => \A v \in Crew : at'[v] \in {"report", "finish"} => pos'[v] = Len(Leaves[held'[v]]) + 1
    <2>1. at[w] = "dfs"
        BY <1>1 DEF Placed
    <2> QED
        BY <1>1, <1>3, <1>4, <2>1 DEF Descending
<1>8. ~discard' /\ ~cancelled' => \A i \in done' : \A k \in 1 .. Len(Leaves[i]) : <<i, k>> \in emitted'
    BY <1>1 DEF Descending
<1> QED
    BY <1>1, <1>5, <1>6, <1>7, <1>8 DEF Descending

LEMMA DescendingEmit ==
    ASSUME Crewed, TypeOK, Placed, Descending, NEW w \in Crew, Emit(w)
    PROVE  Descending'
<1>1. /\ pc[w] = "body" /\ at[w] = "dfs" /\ held[w] \in Index /\ <<held[w], pos[w]>> \in Emission
      /\ pos' = [pos EXCEPT ![w] = @ + 1]
      /\ pc' = pc /\ held' = held /\ cursor' = cursor /\ done' = done /\ cancelled' = cancelled /\ discard' = discard
      /\ (discard /\ emitted' = emitted) \/ (~discard /\ emitted' = emitted \cup {<<held[w], pos[w]>>})
    BY EmitMoves DEF poolVars
<1>2. pos \in [Crew -> Nat \ {0}] /\ emitted \subseteq Emission
    BY DEF TypeOK
<1>3. pos'[w] = pos[w] + 1 /\ \A v \in Crew \ {w} : pos'[v] = pos[v]
    BY <1>1, <1>2
<1>4. \A v \in Crew : pc[v] = "body" /\ held[v] = held[w] => v = w
    BY <1>1, CrewFacts
<1>5. ASSUME NEW e \in emitted'
      PROVE  e[1] < cursor' /\ \A v \in Crew : pc'[v] = "body" /\ held'[v] = e[1] => e[2] < pos'[v]
    <2>1. CASE e \in emitted
        <3>1. e[2] \in Nat /\ e[1] < cursor /\ \A v \in Crew : pc[v] = "body" /\ held[v] = e[1] => e[2] < pos[v]
            BY <1>2, <2>1, Emissions DEF Descending
        <3>2. \A v \in Crew : pos[v] <= pos'[v] /\ pos[v] \in Nat /\ pos'[v] \in Nat
            BY <1>2, <1>3
        <3> QED
            BY <1>1, <3>1, <3>2
    <2>2. CASE e = <<held[w], pos[w]>>
        <3>1. e[1] = held[w] /\ e[2] = pos[w] /\ e[1] < cursor
            BY <1>1, <2>2, CrewFacts
        <3>2. e[2] < pos'[w]
            BY <1>2, <1>3, <3>1
        <3> QED
            BY <1>1, <1>4, <3>1, <3>2
    <2> QED
        BY <1>1, <2>1, <2>2
<1>6. ASSUME ~discard, NEW v \in Crew, pc[v] = "body", NEW k \in 1 .. pos'[v] - 1
      PROVE  <<held[v], k>> \in emitted'
    <2>1. CASE k \in 1 .. pos[v] - 1
        BY <1>1, <1>6, <2>1 DEF Descending
    <2>2. CASE v = w /\ k = pos[w]
        BY <1>1, <1>6, <2>2
    <2> QED
        BY <1>2, <1>3, <2>1, <2>2
<1>7. ~cancelled' => \A v \in Crew : at'[v] \in {"report", "finish"} => pos'[v] = Len(Leaves[held'[v]]) + 1
    <2>1. at \in [Crew -> {"dfs", "flush", "add", "store", "report", "finish", "flushed"}]
        BY DEF TypeOK
    <2>2. at' = at \/ at' = [at EXCEPT ![w] = IF pending[w] + 1 = Limit THEN "flush" ELSE "dfs"]
        BY EmitMoves
    <2>3. at'[w] \notin {"report", "finish"} /\ \A v \in Crew \ {w} : at'[v] = at[v]
        BY <1>1, <2>1, <2>2
    <2> QED
        BY <1>1, <1>3, <2>3 DEF Descending
<1>8. ~discard' /\ ~cancelled' => \A i \in done' : \A k \in 1 .. Len(Leaves[i]) : <<i, k>> \in emitted'
    BY <1>1 DEF Descending
<1> QED
    BY <1>1, <1>5, <1>6, <1>7, <1>8 DEF Descending

LEMMA DescendingFinish ==
    ASSUME Crewed, TypeOK, Placed, Descending, NEW w \in Crew, ReportTaskCompleted(w)
    PROVE  Descending'
<1>1. /\ pc[w] = "body" /\ at[w] = "finish"
      /\ pc' = [pc EXCEPT ![w] = "check"] /\ at' = [at EXCEPT ![w] = "dfs"]
      /\ held' = [held EXCEPT ![w] = -1] /\ done' = done \cup {held[w]}
      /\ cursor' = cursor /\ cancelled' = cancelled /\ pos' = pos /\ emitted' = emitted /\ discard' = discard
    BY FinishMoves DEF sinkVars
<1>2. /\ pc \in [Crew -> {"check", "claim", "body", "leave", "gone"}] /\ held \in [Crew -> Index \cup {-1}]
      /\ at \in [Crew -> {"dfs", "flush", "add", "store", "report", "finish", "flushed"}]
    BY CrewFacts DEF TypeOK
<1>3. /\ pc'[w] = "check" /\ at'[w] = "dfs"
      /\ \A v \in Crew \ {w} : pc'[v] = pc[v] /\ at'[v] = at[v] /\ held'[v] = held[v]
    BY <1>1, <1>2
<1>4. ASSUME ~discard, ~cancelled, NEW k \in 1 .. Len(Leaves[held[w]])
      PROVE  <<held[w], k>> \in emitted
    <2>1. pos[w] = Len(Leaves[held[w]]) + 1 /\ Len(Leaves[held[w]]) \in Nat
        BY <1>1, <1>4, CrewFacts, Emissions DEF Descending
    <2>2. k \in 1 .. pos[w] - 1
        BY <2>1
    <2> QED
        BY <1>1, <1>4, <2>2 DEF Descending
<1>5. \A e \in emitted' :
          e[1] < cursor' /\ \A v \in Crew : pc'[v] = "body" /\ held'[v] = e[1] => e[2] < pos'[v]
    BY <1>1, <1>3 DEF Descending
<1>6. ~discard' => \A v \in Crew : pc'[v] = "body" => \A k \in 1 .. pos'[v] - 1 : <<held'[v], k>> \in emitted'
    BY <1>1, <1>3 DEF Descending
<1>7. ~cancelled' => \A v \in Crew : at'[v] \in {"report", "finish"} => pos'[v] = Len(Leaves[held'[v]]) + 1
    BY <1>1, <1>3 DEF Descending
<1>8. ~discard' /\ ~cancelled' => \A i \in done' : \A k \in 1 .. Len(Leaves[i]) : <<i, k>> \in emitted'
    BY <1>1, <1>4 DEF Descending
<1> QED
    BY <1>5, <1>6, <1>7, <1>8 DEF Descending

LEMMA DescendingNext == Crewed /\ TypeOK /\ Placed /\ Locked /\ Descending /\ [Next]_vars => Descending'
<1> SUFFICES ASSUME Crewed, TypeOK, Placed, Locked, Descending, [Next]_vars
             PROVE  Descending'
    OBVIOUS
<1>0. /\ pc \in [Crew -> {"check", "claim", "body", "leave", "gone"}]
      /\ at \in [Crew -> {"dfs", "flush", "add", "store", "report", "finish", "flushed"}]
    BY CrewFacts DEF TypeOK
<1>1. CASE Cancel \/ Join \/ UNCHANGED vars
    <2>1. /\ pc' = pc /\ at' = at /\ pos' = pos /\ held' = held /\ emitted' = emitted /\ cursor' = cursor
          /\ done' = done /\ discard' = discard /\ (cancelled => cancelled')
        BY <1>1 DEF Cancel, Join, Pool!Cancel, Pool!Join, sinkVars, vars, poolVars
    <2> QED
        BY <2>1, DescendingKeeps
<1>2. ASSUME NEW w \in Crew, Check(w) \/ Leave(w)
      PROVE  Descending'
    <2>1. /\ at' = at /\ pos' = pos /\ held' = held /\ emitted' = emitted /\ cursor' = cursor
          /\ done' = done /\ discard' = discard /\ cancelled' = cancelled
        BY <1>2, CheckMoves, LeaveMoves DEF sinkVars
    <2>2. \A v \in Crew : pc'[v] = "body" <=> pc[v] = "body"
        BY <1>0, <1>2, CheckMoves, LeaveMoves
    <2> QED
        BY <2>1, <2>2, DescendingKeeps
<1>3. ASSUME NEW w \in Crew, Lock(w) \/ Load(w) \/ Store(w) \/ FlushEnd(w) \/ ReportSubtask(w)
      PROVE  Descending'
    <2>1. /\ pc' = pc /\ pos' = pos /\ held' = held /\ emitted' = emitted /\ cursor' = cursor
          /\ done' = done /\ discard' = discard /\ cancelled' = cancelled
        BY <1>3 DEF Lock, Load, Store, FlushEnd, ReportSubtask, poolVars, sinkVars
    <2>2. \A v \in Crew : at'[v] \in {"report", "finish"} => at[v] \in {"report", "finish"}
        BY <1>0, <1>3, StoreMoves DEF Lock, Load, FlushEnd, ReportSubtask, GoTo
    <2> QED
        BY <2>1, <2>2, DescendingKeeps
<1>4. ASSUME NEW w \in Crew, EndDescent(w)
      PROVE  Descending'
    <2>1. /\ pc' = pc /\ pos' = pos /\ held' = held /\ emitted' = emitted /\ cursor' = cursor
          /\ done' = done /\ discard' = discard /\ cancelled' = cancelled
          /\ pc[w] = "body" /\ (cancelled \/ ~ (pos[w] <= Len(Leaves[held[w]])))
          /\ at' = [at EXCEPT ![w] = "report"]
        BY <1>4 DEF EndDescent, InDescent, More, GoTo, poolVars, sinkVars
    <2>2. cancelled \/ pos[w] = Len(Leaves[held[w]]) + 1
        <3>1. pos[w] \in Nat /\ Len(Leaves[held[w]]) \in Nat /\ pos[w] <= Len(Leaves[held[w]]) + 1
            BY <2>1, CrewFacts, Emissions DEF Placed, TypeOK
        <3> QED
            BY <2>1, <3>1
    <2>3. \A v \in Crew : v = w \/ at'[v] = at[v]
        BY <1>0, <2>1
    <2> QED
        BY <2>1, <2>2, <2>3 DEF Descending
<1> QED
    BY <1>1, <1>2, <1>3, <1>4, DescendingClaim, DescendingEmit, DescendingFinish DEF Next, Step

-----------------------------------------------------------------------------
(* The locks of the shards.                                                *)
LEMMA BasketKeeps ==
    ASSUME NEW v, staged'[v] = staged[v]
    PROVE  NextBasket(v)' = NextBasket(v) /\ \A s : Basket(v, s)' = Basket(v, s)
<1>1. \A s : Basket(v, s)' = Basket(v, s)
    BY DEF Basket
<1> QED
    BY <1>1 DEF NextBasket

LEMMA LockedKeeps ==
    ASSUME Locked, lock' = lock, table' = table,
           \A v \in Crew : /\ Adding(v)' <=> Adding(v)
                           /\ Adding(v) => staged'[v] = staged[v]
                           /\ at'[v] = "store" => at[v] = "store" /\ entry'[v] = entry[v] /\ word'[v] = word[v]
    PROVE  Locked'
<1>1. ASSUME NEW v \in Crew, Adding(v)
      PROVE  NextBasket(v)' = NextBasket(v) /\ \A s : Basket(v, s)' = Basket(v, s)
    BY <1>1, BasketKeeps
<1>2. \A v \in Crew : Adding(v)' => staged'[v] # {} /\ lock'[NextBasket(v)'] = v
    BY <1>1 DEF Locked
<1>3. \A s \in Shard, v \in Crew : lock'[s] = v => Adding(v)' /\ NextBasket(v)' = s
    BY <1>1 DEF Locked
<1>4. ASSUME NEW v \in Crew, at'[v] = "store"
      PROVE  entry'[v] \in Basket(v, NextBasket(v))' /\ word'[v] = table'[ClassOf(entry'[v])]
    BY <1>1, <1>4 DEF Locked, Adding
<1> QED
    BY <1>2, <1>3, <1>4 DEF Locked, Adding

LEMMA CrewIsNot == \A v \in Crew : v # Nobody
BY DEF Crew, Pool!Crew, Nobody

LEMMA LockedLock ==
    ASSUME TypeOK, Locked, NEW w \in Crew, Lock(w)
    PROVE  Locked'
<1>1. /\ at[w] \in {"flush", "dfs"} /\ staged[w] # {} /\ NextBasket(w) \in Shard
      /\ lock[NextBasket(w)] = Nobody /\ lock' = [lock EXCEPT ![NextBasket(w)] = w]
      /\ at' = [at EXCEPT ![w] = "add"]
      /\ staged' = staged /\ word' = word /\ entry' = entry /\ table' = table
    BY LockMoves
<1>2. \A v \in Crew : NextBasket(v)' = NextBasket(v) /\ \A s : Basket(v, s)' = Basket(v, s)
    BY <1>1, BasketKeeps
<1>3. at'[w] = "add" /\ lock'[NextBasket(w)] = w /\ ~Adding(w)
      /\ (\A v \in Crew \ {w} : at'[v] = at[v]) /\ \A s \in Shard \ {NextBasket(w)} : lock'[s] = lock[s]
    BY <1>1 DEF TypeOK, Adding
<1>4. ASSUME NEW v \in Crew, Adding(v)'
      PROVE  staged'[v] # {} /\ lock'[NextBasket(v)'] = v
    <2>1. CASE v = w
        BY <1>1, <1>2, <1>3, <2>1
    <2>2. CASE v # w
        <3>1. Adding(v)
            BY <1>3, <1>4, <2>2 DEF Adding
        <3>2. staged[v] # {} /\ lock[NextBasket(v)] = v /\ NextBasket(v) \in Shard
            BY <3>1, NextBasketIs DEF Locked, TypeOK
        <3>3. NextBasket(v) # NextBasket(w)
            BY <1>1, <3>2, CrewIsNot
        <3> QED
            BY <1>1, <1>2, <1>3, <3>2, <3>3
    <2> QED
        BY <2>1, <2>2
<1>5. ASSUME NEW s \in Shard, NEW v \in Crew, lock'[s] = v
      PROVE  Adding(v)' /\ NextBasket(v)' = s
    <2>1. CASE s = NextBasket(w)
        BY <1>2, <1>3, <1>5, <2>1 DEF Adding
    <2>2. CASE s # NextBasket(w)
        <3>1. lock[s] = v
            BY <1>3, <1>5, <2>2
        <3>2. Adding(v) /\ NextBasket(v) = s
            BY <3>1 DEF Locked
        <3>3. at'[v] = at[v]
            BY <1>3, <3>2
        <3> QED
            BY <1>2, <3>2, <3>3 DEF Adding
    <2> QED
        BY <2>1, <2>2
<1>6. ASSUME NEW v \in Crew, at'[v] = "store"
      PROVE  entry'[v] \in Basket(v, NextBasket(v))' /\ word'[v] = table'[ClassOf(entry'[v])]
    <2>1. at[v] = "store"
        BY <1>3, <1>6
    <2> QED
        BY <1>1, <1>2, <2>1 DEF Locked
<1> QED
    BY <1>4, <1>5, <1>6 DEF Locked

LEMMA LockedLoad ==
    ASSUME TypeOK, Locked, NEW w \in Crew, Load(w)
    PROVE  Locked'
<1>1. PICK e \in Basket(w, NextBasket(w)) :
          entry' = [entry EXCEPT ![w] = e] /\ word' = [word EXCEPT ![w] = table[ClassOf(e)]]
    BY DEF Load
<1>2. at[w] = "add" /\ at' = [at EXCEPT ![w] = "store"] /\ staged' = staged /\ lock' = lock /\ table' = table
    BY DEF Load, GoTo
<1>3. \A v \in Crew : NextBasket(v)' = NextBasket(v) /\ \A s : Basket(v, s)' = Basket(v, s)
    BY <1>2, BasketKeeps
<1>4. /\ at'[w] = "store" /\ entry'[w] = e /\ word'[w] = table[ClassOf(e)]
      /\ \A v \in Crew \ {w} : at'[v] = at[v] /\ entry'[v] = entry[v] /\ word'[v] = word[v]
    BY <1>1, <1>2 DEF TypeOK
<1>5. \A v \in Crew : Adding(v)' <=> Adding(v)
    BY <1>2, <1>4 DEF Adding
<1>6. \A v \in Crew : Adding(v)' => staged'[v] # {} /\ lock'[NextBasket(v)'] = v
    BY <1>2, <1>3, <1>5 DEF Locked
<1>7. \A s \in Shard, v \in Crew : lock'[s] = v => Adding(v)' /\ NextBasket(v)' = s
    BY <1>2, <1>3, <1>5 DEF Locked
<1>8. ASSUME NEW v \in Crew, at'[v] = "store"
      PROVE  entry'[v] \in Basket(v, NextBasket(v))' /\ word'[v] = table'[ClassOf(entry'[v])]
    <2>1. CASE v = w
        BY <1>1, <1>2, <1>3, <1>4, <2>1
    <2>2. CASE v # w
        BY <1>2, <1>3, <1>4, <1>8, <2>2 DEF Locked
    <2> QED
        BY <2>1, <2>2
<1> QED
    BY <1>6, <1>7, <1>8 DEF Locked

(* The write-back meets no other writer of its slot: that one would hold   *)
(* the same lock.                                                          *)
LEMMA LockedStore ==
    ASSUME TypeOK, Locked, NEW w \in Crew, Store(w)
    PROVE  Locked'
<1> DEFINE x == entry[w]
<1>0. PICK b \in Shard : b = NextBasket(w)
    BY StoreMoves
<1>1. /\ at[w] = "store" /\ x \in Basket(w, b) /\ ClassOf(x) \in Class /\ ShardOf[ClassOf(x)] = b /\ b \in Shard
      /\ table' = [table EXCEPT ![ClassOf(x)] = @ \cup {x}]
      /\ staged' = [staged EXCEPT ![w] = @ \ {x}]
      /\ \/ /\ \A e \in staged[w] \ {x} : ShardOf[ClassOf(e)] # b
            /\ lock' = [lock EXCEPT ![b] = Nobody] /\ at' = [at EXCEPT ![w] = "flush"]
         \/ /\ \E e \in staged[w] \ {x} : ShardOf[ClassOf(e)] = b
            /\ lock' = lock /\ at' = [at EXCEPT ![w] = "add"]
      /\ word' = word /\ entry' = entry
    BY <1>0, StoreMoves
<1>2. lock[b] = w
    BY <1>0, <1>1 DEF Locked, Adding
<1>3. staged'[w] = staged[w] \ {x} /\ \A v \in Crew \ {w} : staged'[v] = staged[v] /\ at'[v] = at[v]
    BY <1>1 DEF TypeOK
<1>4. \A v \in Crew \ {w} : NextBasket(v)' = NextBasket(v) /\ \A s : Basket(v, s)' = Basket(v, s)
    BY <1>3, BasketKeeps
<1>5. \A s \in Shard \ {b} : lock'[s] = lock[s]
    BY <1>1 DEF TypeOK
<1>6. ASSUME NEW v \in Crew \ {w}, Adding(v)
      PROVE  NextBasket(v) # b /\ NextBasket(v) \in Shard /\ lock[NextBasket(v)] = v /\ staged[v] # {}
    BY <1>2, <1>6, NextBasketIs DEF Locked, TypeOK
<1>7. ASSUME Adding(w)'
      PROVE  /\ lock' = lock /\ staged'[w] # {} /\ NextBasket(w)' = b
    <2>1. PICK e \in staged[w] \ {x} : ShardOf[ClassOf(e)] = b
        BY <1>1, <1>7 DEF Adding, TypeOK
    <2>2. lock' = lock /\ e \in staged'[w]
        BY <1>1, <1>3, <2>1
    <2>3. Basket(w, b)' # {}
        BY <2>1, <2>2 DEF Basket
    <2>4. ASSUME NEW t \in Shard, Basket(w, t)' # {}
          PROVE  b <= t
        <3>1. Basket(w, t)' \subseteq Basket(w, t)
            BY <1>3 DEF Basket
        <3>2. Basket(w, t) # {}
            BY <2>4, <3>1
        <3>3. staged[w] # {} /\ staged[w] \subseteq Emission
            BY <2>1 DEF TypeOK
        <3> QED
            BY <1>0, <3>2, <3>3, NextBasketIs
    <2>5. PICK c \in Shard : /\ c = NextBasket(w)' /\ Basket(w, c)' # {}
                            /\ \A t \in Shard : Basket(w, t)' # {} => c <= t
        BY <2>3, <2>4 DEF NextBasket
    <2>6. b <= c /\ c <= b /\ b \in Nat /\ c \in Nat
        BY <2>3, <2>4, <2>5, GenAssumption
    <2> QED
        BY <2>2, <2>5, <2>6
<1>8. ASSUME NEW v \in Crew, Adding(v)'
      PROVE  staged'[v] # {} /\ lock'[NextBasket(v)'] = v
    <2>1. CASE v = w
        BY <1>2, <1>7, <1>8, <2>1
    <2>2. CASE v # w
        <3>1. Adding(v)
            BY <1>3, <1>8, <2>2 DEF Adding
        <3> QED
            BY <1>3, <1>4, <1>5, <1>6, <2>2, <3>1
    <2> QED
        BY <2>1, <2>2
<1>9. ASSUME NEW s \in Shard, NEW v \in Crew, lock'[s] = v
      PROVE  Adding(v)' /\ NextBasket(v)' = s
    <2>1. CASE s = b
        <3>1. CASE lock' = lock
            <4>1. v = w /\ Adding(w)'
                BY <1>1, <1>2, <1>9, <2>1, <3>1, CrewIsNot DEF Adding, TypeOK
            <4> QED
                BY <1>7, <2>1, <4>1
        <3>2. CASE lock' = [lock EXCEPT ![b] = Nobody]
            BY <1>1, <1>9, <2>1, <3>2, CrewIsNot DEF TypeOK
        <3> QED
            BY <1>1, <3>1, <3>2
    <2>2. CASE s # b
        <3>1. lock[s] = v
            BY <1>5, <1>9, <2>2
        <3>2. Adding(v) /\ NextBasket(v) = s /\ v # w
            BY <1>0, <2>2, <3>1 DEF Locked
        <3> QED
            BY <1>3, <1>4, <3>2 DEF Adding
    <2> QED
        BY <2>1, <2>2
<1>10. ASSUME NEW v \in Crew, at'[v] = "store"
       PROVE  entry'[v] \in Basket(v, NextBasket(v))' /\ word'[v] = table'[ClassOf(entry'[v])]
    <2>1. v # w
        BY <1>1, <1>10 DEF TypeOK
    <2>2. at[v] = "store" /\ Adding(v)
        BY <1>3, <1>10, <2>1 DEF Adding
    <2>3. entry[v] \in Basket(v, NextBasket(v)) /\ word[v] = table[ClassOf(entry[v])]
        BY <2>2 DEF Locked
    <2>4. ClassOf(entry[v]) \in Class /\ ShardOf[ClassOf(entry[v])] = NextBasket(v)
        BY <2>3, Emissions DEF Basket, TypeOK
    <2>5. ClassOf(entry[v]) # ClassOf(x)
        BY <1>1, <1>6, <2>1, <2>2, <2>4
    <2>6. table'[ClassOf(entry[v])] = table[ClassOf(entry[v])]
        BY <1>1, <2>4, <2>5 DEF TypeOK
    <2> QED
        BY <1>1, <1>4, <2>1, <2>3, <2>6
<1> QED
    BY <1>8, <1>9, <1>10 DEF Locked

LEMMA LockedNext == Crewed /\ TypeOK /\ Placed /\ Locked /\ [Next]_vars => Locked'
<1> SUFFICES ASSUME Crewed, TypeOK, Placed, Locked, [Next]_vars
             PROVE  Locked'
    OBVIOUS
<1>1. CASE Cancel \/ Join \/ UNCHANGED vars
    <2>1. lock' = lock /\ table' = table /\ at' = at /\ staged' = staged /\ entry' = entry /\ word' = word
        BY <1>1 DEF Cancel, Join, sinkVars, vars
    <2> QED
        BY <2>1, LockedKeeps DEF Adding
<1>2. ASSUME NEW w \in Crew, Step(w), ~Lock(w), ~Load(w), ~Store(w)
      PROVE  Locked'
    <2>1. lock' = lock /\ table' = table
        BY <1>2, EmitMoves, ClaimMoves DEF Step, Check, Claim, EndDescent, ReportSubtask, ReportTaskCompleted, FlushEnd,
            Leave, sinkVars
    <2>2. at \in [Crew -> {"dfs", "flush", "add", "store", "report", "finish", "flushed"}]
        BY DEF TypeOK
    <2>3. ~Adding(w) /\ ~Adding(w)'
        <3>1. CASE Check(w) \/ Claim(w) \/ Leave(w)
            <4>1. pc[w] \in {"check", "claim"} \/ at[w] = "flushed"
                BY <3>1, CheckMoves, ClaimMoves, LeaveMoves
            <4>2. at' = at
                BY <3>1, CheckMoves, ClaimMoves, LeaveMoves
            <4> QED
                BY <4>1, <4>2 DEF Placed, Adding
        <3>2. CASE Emit(w)
            <4>1. at[w] = "dfs" /\ (at' = at \/ \E to \in {"dfs", "flush"} : at' = [at EXCEPT ![w] = to])
                BY <3>2, EmitMoves
            <4> QED
                BY <2>2, <4>1 DEF Adding
        <3>3. CASE EndDescent(w) \/ ReportSubtask(w) \/ ReportTaskCompleted(w) \/ FlushEnd(w)
            BY <2>2, <3>3 DEF EndDescent, ReportSubtask, ReportTaskCompleted, FlushEnd, InDescent, Flushing, GoTo, Adding
        <3> QED
            BY <1>2, <3>1, <3>2, <3>3 DEF Step
    <2>4. \A v \in Crew \ {w} : at'[v] = at[v] /\ staged'[v] = staged[v] /\ entry'[v] = entry[v] /\ word'[v] = word[v]
        BY <1>2, Others
    <2>5. \A v \in Crew : /\ Adding(v)' <=> Adding(v)
                          /\ Adding(v) => staged'[v] = staged[v]
                          /\ at'[v] = "store" => at[v] = "store" /\ entry'[v] = entry[v] /\ word'[v] = word[v]
        BY <2>3, <2>4 DEF Adding
    <2> QED
        BY <2>1, <2>5, LockedKeeps
<1> QED
    BY <1>1, <1>2, LockedLock, LockedLoad, LockedStore DEF Next

-----------------------------------------------------------------------------
(* Where the emissions are.                                                *)
LEMMA PlacewiseEmit ==
    ASSUME Crewed, TypeOK, Placed, Descending, Placewise, NEW w \in Crew, Emit(w)
    PROVE  Placewise'
<1>1. CASE discard
    <2>1. staged' = staged /\ table' = table /\ emitted' = emitted
        BY <1>1, EmitMoves
    <2> QED
        BY <2>1 DEF Placewise, Folded
<1>2. CASE ~discard
    <2>1. PICK e \in Emission : e = <<held[w], pos[w]>>
        BY EmitMoves
    <2>2. /\ pc[w] = "body" /\ staged' = [staged EXCEPT ![w] = @ \cup {e}]
          /\ emitted' = emitted \cup {e} /\ table' = table
        BY <1>2, <2>1, EmitMoves
    <2>3. ClassOf(e) \in Class /\ e \notin emitted
        <3>1. SUFFICES ASSUME e \in emitted
                       PROVE  FALSE
            BY Emissions
        <3>2. e[2] < pos[w]
            BY <2>1, <2>2, <3>1 DEF Descending
        <3> QED
            BY <2>1, <3>2 DEF TypeOK
    <2>4. ~Folded(e) /\ \A v \in Crew : e \notin staged[v]
        BY <2>3 DEF Placewise, Folded
    <2>5. staged'[w] = staged[w] \cup {e} /\ \A v \in Crew \ {w} : staged'[v] = staged[v]
        BY <2>2 DEF TypeOK
    <2>6. \A y : Folded(y)' <=> Folded(y)
        BY <2>2 DEF Folded
    <2>7. \A c \in Class : \A y \in table'[c] : ClassOf(y) = c /\ y \in emitted'
        BY <2>2 DEF Placewise
    <2>8. \A v \in Crew : \A y \in staged'[v] : y \in emitted' /\ ~Folded(y)'
        BY <2>2, <2>4, <2>5, <2>6 DEF Placewise
    <2>9. \A u, v \in Crew : u # v => staged'[u] \cap staged'[v] = {}
        BY <2>4, <2>5 DEF Placewise
    <2>10. \A y \in emitted' : Folded(y)' \/ \E v \in Crew : y \in staged'[v]
        <3>1. ASSUME NEW v \in Crew
              PROVE  staged[v] \subseteq staged'[v]
            BY <2>5
        <3> QED
            BY <2>2, <2>5, <2>6, <3>1 DEF Placewise
    <2> QED
        BY <2>7, <2>8, <2>9, <2>10 DEF Placewise
<1> QED
    BY <1>1, <1>2

LEMMA PlacewiseStore ==
    ASSUME TypeOK, Locked, Placewise, NEW w \in Crew, Store(w)
    PROVE  Placewise'
<1>1. PICK e \in Emission : e = entry[w]
    BY StoreMoves
<1>2. /\ e \in staged[w] /\ ClassOf(e) \in Class
      /\ table' = [table EXCEPT ![ClassOf(e)] = @ \cup {e}]
      /\ staged' = [staged EXCEPT ![w] = @ \ {e}] /\ emitted' = emitted
    BY <1>1, StoreMoves DEF Basket
<1>3. staged'[w] = staged[w] \ {e} /\ \A v \in Crew \ {w} : staged'[v] = staged[v]
    BY <1>2 DEF TypeOK
<1>4. table'[ClassOf(e)] = table[ClassOf(e)] \cup {e} /\ \A c \in Class \ {ClassOf(e)} : table'[c] = table[c]
    BY <1>2 DEF TypeOK
<1>5. \A v \in Crew : staged'[v] \subseteq staged[v] /\ staged[v] \subseteq Emission
    BY <1>3 DEF TypeOK
<1>6. e \in emitted /\ \A v \in Crew : e \notin staged'[v]
    BY <1>2, <1>3 DEF Placewise
<1>7. \A y \in Emission : Folded(y)' <=> (Folded(y) \/ y = e)
    <2>1. ASSUME NEW y \in Emission
          PROVE  y \in table'[ClassOf(y)] <=> (y \in table[ClassOf(y)] \/ y = e)
        BY <1>4, Emissions
    <2>2. \A y : ClassOf(y)' = ClassOf(y)
        BY DEF ClassOf
    <2> QED
        BY <2>1, <2>2 DEF Folded
<1>8. \A c \in Class : \A y \in table'[c] : ClassOf(y) = c /\ y \in emitted'
    BY <1>2, <1>4, <1>6 DEF Placewise
<1>9. \A v \in Crew : \A y \in staged'[v] : y \in emitted' /\ ~Folded(y)'
    BY <1>2, <1>5, <1>6, <1>7 DEF Placewise
<1>10. \A u, v \in Crew : u # v => staged'[u] \cap staged'[v] = {}
    BY <1>5 DEF Placewise
<1>11. \A y \in emitted' : Folded(y)' \/ \E v \in Crew : y \in staged'[v]
    <2>1. ASSUME NEW y \in emitted, y # e, NEW v \in Crew, y \in staged[v]
          PROVE  y \in staged'[v]
        BY <1>3, <2>1
    <2>2. \A y \in emitted : y \in Emission
        BY DEF TypeOK
    <2> QED
        BY <1>2, <1>7, <2>1, <2>2 DEF Placewise
<1> QED
    BY <1>8, <1>9, <1>10, <1>11 DEF Placewise

LEMMA PlacewiseNext ==
    Crewed /\ TypeOK /\ Placed /\ Descending /\ Locked /\ Placewise /\ [Next]_vars => Placewise'
<1> SUFFICES ASSUME Crewed, TypeOK, Placed, Descending, Locked, Placewise, [Next]_vars
             PROVE  Placewise'
    OBVIOUS
<1>1. ASSUME staged' = staged, table' = table, emitted' = emitted
      PROVE  Placewise'
    BY <1>1 DEF Placewise, Folded
<1>2. CASE Cancel \/ Join \/ UNCHANGED vars
    BY <1>1, <1>2 DEF Cancel, Join, sinkVars, vars
<1>3. ASSUME NEW w \in Crew, Step(w), ~Emit(w), ~Store(w)
      PROVE  staged' = staged /\ table' = table /\ emitted' = emitted
    BY <1>3 DEF Step, Check, Claim, EndDescent, ReportSubtask, ReportTaskCompleted, Lock, Load, FlushEnd, Leave, sinkVars
<1> QED
    BY <1>1, <1>2, <1>3, PlacewiseEmit, PlacewiseStore DEF Next

(* How much a Staging holds.                                               *)
LEMMA StagedFinite == TypeOK => \A w \in Crew : IsFiniteSet(staged[w]) /\ Cardinality(staged[w]) \in Nat
<1> SUFFICES ASSUME TypeOK, NEW w \in Crew
             PROVE  IsFiniteSet(staged[w]) /\ Cardinality(staged[w]) \in Nat
    OBVIOUS
<1>1. staged[w] \in SUBSET Emission
    BY DEF TypeOK
<1>2. IsFiniteSet(staged[w])
    BY <1>1, EmissionFinite, FS_Subset
<1> QED
    BY <1>2, FS_CardinalityType

BoundOf(w) ==
    /\ Cardinality(staged[w]) <= Limit
    /\ at[w] \in {"dfs", "report", "finish"} => pending[w] = Cardinality(staged[w]) /\ pending[w] < Limit

LEMMA BoundedNext ==
    Crewed /\ TypeOK /\ Placed /\ Descending /\ Locked /\ Placewise /\ Bounded /\ [Next]_vars => Bounded'
<1> SUFFICES ASSUME Crewed, TypeOK, Placed, Descending, Locked, Placewise, Bounded, [Next]_vars
             PROVE  Bounded'
    OBVIOUS
<1>0. /\ at \in [Crew -> {"dfs", "flush", "add", "store", "report", "finish", "flushed"}]
      /\ staged \in [Crew -> SUBSET Emission] /\ pending \in [Crew -> Nat] /\ Limit \in Nat \ {0}
    BY GenAssumption DEF TypeOK
<1>1. CASE Cancel \/ Join \/ UNCHANGED vars
    <2>1. at' = at /\ staged' = staged /\ pending' = pending
        BY <1>1 DEF Cancel, Join, sinkVars, vars
    <2> QED
        BY <2>1 DEF Bounded
<1>2. ASSUME NEW w \in Crew, Step(w)
      PROVE  BoundOf(w)'
    <2>0. BoundOf(w)
        BY DEF Bounded, BoundOf
    <2>1. CASE Check(w) \/ Claim(w) \/ Leave(w)
        <3>1. at' = at /\ staged' = staged /\ pending' = pending
            BY <2>1 DEF Check, Claim, Leave, sinkVars
        <3> QED
            BY <2>0, <3>1 DEF BoundOf
    <2>2. CASE EndDescent(w) \/ ReportSubtask(w) \/ ReportTaskCompleted(w)
        <3>1. at[w] \in {"dfs", "report", "finish"} /\ staged' = staged /\ pending' = pending
            BY <2>2 DEF EndDescent, InDescent, ReportSubtask, ReportTaskCompleted, sinkVars
        <3> QED
            BY <2>0, <3>1 DEF BoundOf
    <2>3. CASE Lock(w) \/ Load(w)
        <3>1. staged' = staged /\ at'[w] \in {"add", "store"}
            BY <1>0, <2>3 DEF Lock, Load, GoTo
        <3> QED
            BY <2>0, <3>1 DEF BoundOf
    <2>4. CASE Store(w)
        <3>1. staged'[w] = staged[w] \ {entry[w]} /\ at'[w] \in {"add", "flush"}
            BY <1>0, <2>4, StoreMoves
        <3>2. staged'[w] \in SUBSET staged[w] /\ IsFiniteSet(staged[w])
            BY <3>1, StagedFinite
        <3>3. Cardinality(staged'[w]) <= Cardinality(staged[w])
            BY <3>2, FS_Subset
        <3>4. Cardinality(staged'[w]) \in Nat /\ Cardinality(staged[w]) \in Nat
            BY <3>2, FS_Subset, FS_CardinalityType
        <3> QED
            BY <1>0, <2>0, <3>1, <3>3, <3>4 DEF BoundOf
    <2>5. CASE FlushEnd(w)
        <3>1. staged'[w] = {} /\ pending'[w] = 0
            BY <1>0, <2>5 DEF FlushEnd, PendingAfterFlush
        <3>2. Cardinality(staged'[w]) = 0
            BY <3>1, FS_EmptySet
        <3> QED
            BY <1>0, <3>1, <3>2 DEF BoundOf
    <2>6. CASE Emit(w)
        <3>1. CASE discard
            <4>1. at' = at /\ staged' = staged /\ pending' = pending
                BY <2>6, <3>1, EmitMoves
            <4> QED
                BY <2>0, <4>1 DEF BoundOf
        <3>2. CASE ~discard
            <4>1. PICK e \in Emission : e = <<held[w], pos[w]>>
                BY <2>6, EmitMoves
            <4>2. /\ pc[w] = "body" /\ at[w] = "dfs" /\ staged'[w] = staged[w] \cup {e}
                  /\ pending'[w] = pending[w] + 1
                  /\ at'[w] = IF pending[w] + 1 = Limit THEN "flush" ELSE "dfs"
                BY <1>0, <2>6, <3>2, <4>1, EmitMoves
            <4>3. e \notin staged[w]
                <5>1. SUFFICES ASSUME e \in staged[w]
                               PROVE  FALSE
                    OBVIOUS
                <5>2. e \in emitted
                    BY <5>1 DEF Placewise
                <5>3. e[2] < pos[w]
                    BY <4>1, <4>2, <5>2 DEF Descending
                <5> QED
                    BY <4>1, <5>3 DEF TypeOK
            <4>4. Cardinality(staged'[w]) = Cardinality(staged[w]) + 1
                BY <4>2, <4>3, StagedFinite, FS_AddElement
            <4>5. pending[w] = Cardinality(staged[w]) /\ pending[w] < Limit /\ pending[w] \in Nat
                BY <1>0, <2>0, <4>2 DEF BoundOf
            <4> QED
                BY <1>0, <4>2, <4>4, <4>5 DEF BoundOf
        <3> QED
            BY <3>1, <3>2
    <2> QED
        BY <1>2, <2>1, <2>2, <2>3, <2>4, <2>5, <2>6 DEF Step
<1>3. ASSUME NEW w \in Crew, Step(w), NEW v \in Crew \ {w}
      PROVE  BoundOf(v)'
    <2>1. at'[v] = at[v] /\ staged'[v] = staged[v] /\ pending'[v] = pending[v]
        BY <1>3, Others
    <2> QED
        BY <2>1 DEF Bounded, BoundOf
<1>4. ASSUME NEW w \in Crew, Step(w)
      PROVE  Bounded'
    <2>1. \A v \in Crew : BoundOf(v)'
        BY <1>2, <1>3, <1>4
    <2> QED
        BY <2>1 DEF Bounded, BoundOf
<1> QED
    BY <1>1, <1>4 DEF Next

-----------------------------------------------------------------------------
(* The monitor's books.                                                    *)
LEMMA BooksFinite ==
    /\ IsFiniteSet(Unreported) /\ IsFiniteSet(Reported)
    /\ Cardinality(Unreported) \in Nat /\ Cardinality(Reported) \in Nat
<1>1. Unreported \in SUBSET Emission /\ Reported \in SUBSET Emission
    BY DEF Unreported, Reported
<1>2. IsFiniteSet(Unreported) /\ IsFiniteSet(Reported)
    BY <1>1, EmissionFinite, FS_Subset
<1> QED
    BY <1>2, FS_CardinalityType

LEMMA BookedKeeps ==
    ASSUME Booked, done' = done, completed' = completed, discard' = discard, writes' = writes, emitted' = emitted,
           cancelled => cancelled',
           \A w \in Crew, e \in Emission : Passed(w, e)' <=> Passed(w, e),
           \A i : Finishing(i)' <=> Finishing(i)
    PROVE  Booked'
<1>1. Unreported' = Unreported
    BY DEF Unreported
<1>2. Reported' = Reported
    BY DEF Reported
<1> QED
    BY <1>1, <1>2 DEF Booked

(* The first n emissions of a task.                                        *)
LEMMA Prefix ==
    ASSUME NEW i, NEW n \in Nat
    PROVE  IsFiniteSet({i} \X (1 .. n)) /\ Cardinality({i} \X (1 .. n)) = n
<1>1. IsFiniteSet({i}) /\ Cardinality({i}) = 1
    BY FS_Singleton
<1>2. 1 \in Int /\ n \in Int
    OBVIOUS
<1>3. IsFiniteSet(1 .. n) /\ Cardinality(1 .. n) = IF 1 > n THEN 0 ELSE n - 1 + 1
    BY <1>2, FS_Interval
<1>4. Cardinality(1 .. n) = n
    BY <1>3
<1> DEFINE one == {i}
           up == 1 .. n
<1>5. IsFiniteSet(one) /\ IsFiniteSet(up) /\ Cardinality(one) = 1 /\ Cardinality(up) = n
    BY <1>1, <1>3, <1>4
<1> HIDE DEF one, up
<1>6. IsFiniteSet(one \X up) /\ Cardinality(one \X up) = Cardinality(one) * Cardinality(up)
    BY <1>5, FS_Product
<1>7. IsFiniteSet(one \X up) /\ Cardinality(one \X up) = n
    BY <1>5, <1>6
<1> QED
    BY <1>7 DEF one, up

LEMMA Apart ==
    ASSUME NEW S, NEW T, IsFiniteSet(S), IsFiniteSet(T), S \cap T = {}
    PROVE  Cardinality(S \cup T) = Cardinality(S) + Cardinality(T)
<1>1. Cardinality(S \cup T) = Cardinality(S) + Cardinality(T) - Cardinality(S \cap T)
    BY FS_Union
<1>2. Cardinality(S \cap T) = 0
    BY FS_EmptySet
<1>3. Cardinality(S) \in Nat /\ Cardinality(T) \in Nat
    BY FS_CardinalityType
<1> QED
    BY <1>1, <1>2, <1>3

(* A task that is being reported is still in a worker's hands.             *)
LEMMA ReportingIsBody ==
    ASSUME Crewed, TypeOK, Placed, NEW w \in Crew, at[w] \in {"report", "finish"}
    PROVE  pc[w] = "body"
<1>1. pc[w] \in {"check", "claim", "body", "leave", "gone"}
    BY CrewFacts
<1> QED
    BY <1>1 DEF Placed

LEMMA BookedEmit ==
    ASSUME Crewed, TypeOK, Placed, Descending, Booked, NEW w \in Crew, Emit(w)
    PROVE  Booked'
<1>1. PICK e \in Emission : e = <<held[w], pos[w]>>
    BY EmitMoves
<1>2. /\ pc[w] = "body" /\ at[w] = "dfs" /\ pos' = [pos EXCEPT ![w] = @ + 1]
      /\ pc' = pc /\ held' = held /\ done' = done /\ cancelled' = cancelled
      /\ discard' = discard /\ completed' = completed /\ writes' = writes
    BY EmitMoves DEF poolVars
<1>3. pos'[w] = pos[w] + 1 /\ \A v \in Crew \ {w} : pos'[v] = pos[v]
    BY <1>2 DEF TypeOK
<1>4. \A v \in Crew : at'[v] = "finish" <=> at[v] = "finish"
    <2>1. at' = at \/ \E to \in {"dfs", "flush"} : at' = [at EXCEPT ![w] = to]
        BY EmitMoves
    <2>2. at \in [Crew -> {"dfs", "flush", "add", "store", "report", "finish", "flushed"}]
        BY DEF TypeOK
    <2> QED
        BY <1>2, <2>1, <2>2
<1>5. Reported' = Reported
    BY <1>2, <1>4 DEF Reported, Finishing
<1>6. CASE discard
    BY <1>2, <1>5, <1>6 DEF Booked
<1>7. CASE ~discard
    <2>1. emitted' = emitted \cup {e}
        BY <1>1, <1>7, EmitMoves
    <2>2. e[1] = held[w] /\ e[2] = pos[w] /\ pos[w] \in Nat
        BY <1>1 DEF TypeOK
    <2>3. e \notin emitted
        BY <1>2, <2>2 DEF Descending
    <2>4. e \notin Unreported
        <3>1. \A v \in Crew : pc[v] = "body" /\ held[v] = e[1] => v = w
            BY <1>2, <2>2, CrewFacts
        <3> QED
            BY <2>2, <3>1 DEF Unreported, Passed
    <2>5. ASSUME NEW y \in Emission
          PROVE  y \in Unreported' <=> (y \in Unreported \/ y = e)
        <3>1. \A v \in Crew \ {w} : Passed(v, y)' <=> Passed(v, y)
            BY <1>2, <1>3, <1>4 DEF Passed
        <3>2. Passed(w, y)' <=> (Passed(w, y) \/ y = e)
            <4>1. Passed(w, y)' <=> (held[w] = y[1] /\ y[2] < pos[w] + 1)
                BY <1>2, <1>3, <1>4 DEF Passed
            <4>2. Passed(w, y) <=> (held[w] = y[1] /\ y[2] < pos[w])
                BY <1>2 DEF Passed
            <4>3. y[2] \in Nat /\ y = <<y[1], y[2]>>
                BY Emissions
            <4>4. (y = e) <=> (y[1] = held[w] /\ y[2] = pos[w])
                BY <1>1, <4>3
            <4> QED
                BY <2>2, <4>1, <4>2, <4>3, <4>4
        <3> QED
            BY <3>1, <3>2 DEF Unreported
    <2>6. Unreported' = Unreported \cup {e}
        <3>1. Unreported' \subseteq Emission /\ Unreported \subseteq Emission
            BY DEF Unreported
        <3> QED
            BY <2>5, <3>1
    <2>7. Cardinality(Unreported') = Cardinality(Unreported) + 1
        BY <2>4, <2>6, BooksFinite, FS_AddElement
    <2>8. emitted \in SUBSET Emission
        BY DEF TypeOK
    <2>9. IsFiniteSet(emitted)
        BY <2>8, EmissionFinite, FS_Subset
    <2>10. Cardinality(emitted') = Cardinality(emitted) + 1 /\ Cardinality(emitted) \in Nat
        BY <2>1, <2>3, <2>9, FS_AddElement, FS_CardinalityType
    <2>11. writes + Cardinality(Unreported) = Cardinality(emitted)
        BY <1>7 DEF Booked
    <2>12. writes' + Cardinality(Unreported') = Cardinality(emitted')
        BY <1>2, <2>7, <2>10, <2>11, BooksFinite DEF TypeOK
    <2> QED
        BY <1>2, <1>5, <2>12 DEF Booked
<1> QED
    BY <1>6, <1>7

LEMMA BookedReport ==
    ASSUME Crewed, TypeOK, Placed, Descending, Booked, NEW w \in Crew, ReportSubtask(w)
    PROVE  Booked'
<1> DEFINE n == pos[w] - 1
<1>1. /\ at[w] = "report" /\ at' = [at EXCEPT ![w] = "finish"] /\ writes' = writes + pos[w] - 1
      /\ pc' = pc /\ held' = held /\ done' = done /\ cancelled' = cancelled /\ pos' = pos
      /\ discard' = discard /\ completed' = completed /\ emitted' = emitted
    BY DEF ReportSubtask, GoTo, poolVars, sinkVars
<1>2. pc[w] = "body"
    BY <1>1, ReportingIsBody
<1>3. PICK i \in Index : i = held[w] /\ i \notin done
    BY <1>2, CrewFacts
<1>4. \A v \in Crew : pc[v] = "body" /\ held[v] = i => v = w
    BY <1>2, <1>3, CrewFacts
<1>5. n \in Nat /\ pos[w] = n + 1 /\ n <= Len(Leaves[i]) /\ Len(Leaves[i]) \in Nat
    BY <1>2, <1>3, Emissions DEF TypeOK, Placed
<1>6. PICK P : P = {i} \X (1 .. n)
    OBVIOUS
<1>7. IsFiniteSet(P) /\ Cardinality(P) = n
    BY <1>5, <1>6, Prefix
<1>8. P \subseteq Emission /\ \A e \in Emission : e \in P <=> (e[1] = i /\ e[2] < pos[w])
    <2>1. ASSUME NEW e \in P
          PROVE  e \in Emission
        <3>1. e[1] = i /\ e[2] \in 1 .. n /\ e = <<e[1], e[2]>>
            BY <1>6
        <3>2. e[2] \in 1 .. Len(Leaves[i])
            BY <1>5, <3>1
        <3> QED
            BY <3>1, <3>2, Emissions
    <2>2. ASSUME NEW e \in Emission
          PROVE  e \in P <=> (e[1] = i /\ e[2] < pos[w])
        <3>1. e = <<e[1], e[2]>> /\ e[2] \in Nat \ {0}
            BY Emissions
        <3>2. e \in P <=> (e[1] = i /\ e[2] \in 1 .. n)
            BY <1>6, <3>1
        <3> QED
            BY <1>5, <3>1, <3>2
    <2> QED
        BY <2>1, <2>2
<1>9. at'[w] = "finish" /\ \A v \in Crew \ {w} : at'[v] = at[v]
    BY <1>1 DEF TypeOK
<1>10. ~discard => writes' + Cardinality(Unreported') = Cardinality(emitted')
    <2>1. ASSUME NEW e \in Emission
          PROVE  /\ e \in Unreported <=> (e \in Unreported' \/ e \in P)
                 /\ ~ (e \in Unreported' /\ e \in P)
        <3>1. \A v \in Crew \ {w} : Passed(v, e)' <=> Passed(v, e)
            BY <1>1, <1>9 DEF Passed
        <3>2. ~Passed(w, e)'
            BY <1>9 DEF Passed
        <3>3. Passed(w, e) <=> e \in P
            BY <1>1, <1>2, <1>3, <1>8 DEF Passed
        <3>4. \A v \in Crew \ {w} : e \in P => ~Passed(v, e)
            BY <1>4, <1>8 DEF Passed
        <3> QED
            BY <3>1, <3>2, <3>3, <3>4 DEF Unreported
    <2>2. PICK U : U = Unreported'
        OBVIOUS
    <2>3. U \subseteq Emission /\ Unreported \subseteq Emission
        BY <2>2 DEF Unreported
    <2>4. Unreported = U \cup P /\ U \cap P = {}
        BY <1>8, <2>1, <2>2, <2>3
    <2>5. U \in SUBSET Unreported
        BY <2>4
    <2>6. IsFiniteSet(U)
        BY <2>5, BooksFinite, FS_Subset
    <2>7. Cardinality(Unreported) = Cardinality(U) + n /\ Cardinality(U) \in Nat
        BY <1>7, <2>4, <2>6, Apart, FS_CardinalityType
    <2>8. ~discard => writes + Cardinality(Unreported) = Cardinality(emitted)
        BY DEF Booked
    <2>9. writes \in Nat /\ pos[w] \in Nat
        BY DEF TypeOK
    <2>10. writes' + Cardinality(U) = writes + Cardinality(Unreported)
        BY <1>1, <2>7, <2>9
    <2> QED
        BY <1>1, <2>2, <2>8, <2>10
<1>11. ~cancelled => writes' = Cardinality(Reported')
    <2>1. SUFFICES ASSUME ~cancelled
                   PROVE  writes' = Cardinality(Reported')
        OBVIOUS
    <2>2. pos[w] = Len(Leaves[i]) + 1
        BY <1>1, <1>3, <2>1 DEF Descending
    <2>3. ASSUME NEW e \in Emission
          PROVE  /\ e \in Reported' <=> (e \in Reported \/ e \in P)
                 /\ ~ (e \in Reported /\ e \in P)
        <3>1. e \in P <=> e[1] = i
            <4>1. e[1] = i => e[2] \in 1 .. Len(Leaves[i])
                BY Emissions
            <4> QED
                BY <1>5, <1>8, <2>2, <4>1
        <3>2. Finishing(e[1])' <=> (Finishing(e[1]) \/ e[1] = i)
            BY <1>1, <1>3, <1>9 DEF Finishing
        <3>3. ~ (Finishing(i) \/ i \in done)
            <4>1. ASSUME NEW v \in Crew, at[v] = "finish", held[v] = i
                  PROVE  FALSE
                BY <1>1, <1>4, <4>1, ReportingIsBody
            <4> QED
                BY <1>3, <4>1 DEF Finishing
        <3> QED
            BY <1>1, <3>1, <3>2, <3>3 DEF Reported
    <2>4. Reported' \subseteq Emission /\ Reported \subseteq Emission
        BY DEF Reported
    <2>5. Reported' = Reported \cup P /\ Reported \cap P = {}
        BY <1>8, <2>3, <2>4
    <2>6. Cardinality(Reported') = Cardinality(Reported) + n
        BY <1>7, <2>5, BooksFinite, Apart
    <2>7. writes = Cardinality(Reported)
        BY <2>1 DEF Booked
    <2> QED
        BY <1>1, <2>6, <2>7 DEF TypeOK
<1> QED
    BY <1>1, <1>10, <1>11 DEF Booked

LEMMA BookedFinish ==
    ASSUME Crewed, TypeOK, Placed, Booked, NEW w \in Crew, ReportTaskCompleted(w)
    PROVE  Booked'
<1>1. /\ pc[w] = "body" /\ at[w] = "finish"
      /\ pc' = [pc EXCEPT ![w] = "check"] /\ at' = [at EXCEPT ![w] = "dfs"]
      /\ held' = [held EXCEPT ![w] = -1] /\ done' = done \cup {held[w]} /\ completed' = completed + 1
      /\ pos' = pos /\ cancelled' = cancelled /\ discard' = discard /\ writes' = writes /\ emitted' = emitted
    BY FinishMoves DEF sinkVars
<1>2. PICK i \in Index : i = held[w] /\ i \notin done
    BY <1>1, CrewFacts
<1>3. /\ pc \in [Crew -> {"check", "claim", "body", "leave", "gone"}] /\ held \in [Crew -> Index \cup {-1}]
      /\ at \in [Crew -> {"dfs", "flush", "add", "store", "report", "finish", "flushed"}] /\ done \in SUBSET Index
    BY CrewFacts DEF TypeOK
<1>4. /\ pc'[w] = "check" /\ at'[w] = "dfs"
      /\ \A v \in Crew \ {w} : pc'[v] = pc[v] /\ at'[v] = at[v] /\ held'[v] = held[v]
    BY <1>1, <1>3
<1>5. completed' = Cardinality(done')
    <2>1. IsFiniteSet(done)
        BY <1>3, EmissionFinite, FS_Subset
    <2>2. Cardinality(done \cup {i}) = Cardinality(done) + 1
        BY <1>2, <2>1, FS_AddElement
    <2> QED
        BY <1>1, <1>2, <2>2 DEF Booked
<1>6. Unreported' = Unreported
    <2>1. \A e \in Emission, v \in Crew : Passed(v, e)' <=> Passed(v, e)
        BY <1>1, <1>4 DEF Passed
    <2> QED
        BY <2>1 DEF Unreported
<1>7. Reported' = Reported
    <2>1. \A k : (k \in done' \/ Finishing(k)') <=> (k \in done \/ Finishing(k))
        <3>1. \A k : Finishing(k)' <=> \E v \in Crew \ {w} : at[v] = "finish" /\ held[v] = k
            BY <1>4 DEF Finishing
        <3>2. \A k : Finishing(k) <=> (k = i \/ \E v \in Crew \ {w} : at[v] = "finish" /\ held[v] = k)
            BY <1>1, <1>2 DEF Finishing
        <3> QED
            BY <1>1, <1>2, <3>1, <3>2
    <2> QED
        BY <2>1 DEF Reported
<1> QED
    BY <1>1, <1>5, <1>6, <1>7 DEF Booked

LEMMA BookedNext ==
    Crewed /\ TypeOK /\ Placed /\ Descending /\ Locked /\ Booked /\ [Next]_vars => Booked'
<1> SUFFICES ASSUME Crewed, TypeOK, Placed, Descending, Locked, Booked, [Next]_vars
             PROVE  Booked'
    OBVIOUS
<1>0. /\ pc \in [Crew -> {"check", "claim", "body", "leave", "gone"}] /\ held \in [Crew -> Index \cup {-1}]
      /\ at \in [Crew -> {"dfs", "flush", "add", "store", "report", "finish", "flushed"}] /\ pos \in [Crew -> Nat \ {0}]
    BY CrewFacts DEF TypeOK
<1>1. CASE Cancel \/ Join \/ UNCHANGED vars
    <2>1. /\ pc' = pc /\ at' = at /\ pos' = pos /\ held' = held /\ emitted' = emitted /\ completed' = completed
          /\ done' = done /\ discard' = discard /\ writes' = writes /\ (cancelled => cancelled')
        BY <1>1 DEF Cancel, Join, Pool!Cancel, Pool!Join, sinkVars, vars, poolVars
    <2>2. (\A v \in Crew, e \in Emission : Passed(v, e)' <=> Passed(v, e)) /\ \A i : Finishing(i)' <=> Finishing(i)
        BY <2>1 DEF Passed, Finishing
    <2> QED
        BY <2>1, <2>2, BookedKeeps
<1>2. ASSUME NEW w \in Crew, Check(w) \/ Leave(w)
      PROVE  Booked'
    <2>1. /\ at' = at /\ pos' = pos /\ held' = held /\ emitted' = emitted /\ completed' = completed
          /\ done' = done /\ discard' = discard /\ writes' = writes /\ cancelled' = cancelled
        BY <1>2, CheckMoves, LeaveMoves DEF sinkVars
    <2>2. \A v \in Crew : pc'[v] = "body" <=> pc[v] = "body"
        BY <1>0, <1>2, CheckMoves, LeaveMoves
    <2>3. (\A v \in Crew, e \in Emission : Passed(v, e)' <=> Passed(v, e)) /\ \A i : Finishing(i)' <=> Finishing(i)
        BY <2>1, <2>2 DEF Passed, Finishing
    <2> QED
        BY <2>1, <2>3, BookedKeeps
<1>3. ASSUME NEW w \in Crew, Claim(w)
      PROVE  Booked'
    <2>1. /\ at' = at /\ emitted' = emitted /\ completed' = completed /\ pc[w] = "claim"
          /\ done' = done /\ discard' = discard /\ writes' = writes /\ cancelled' = cancelled
        BY <1>3, ClaimMoves DEF sinkVars
    <2>2. pos'[w] = 1
        BY <1>0, <1>3, ClaimMoves
    <2>3. at[w] = "dfs"
        BY <2>1 DEF Placed
    <2>4. \A v \in Crew \ {w} : pc'[v] = pc[v] /\ held'[v] = held[v] /\ pos'[v] = pos[v]
        BY <1>3, Others DEF Step
    <2>5. ASSUME NEW v \in Crew, NEW e \in Emission
          PROVE  Passed(v, e)' <=> Passed(v, e)
        <3>1. e[2] \in Nat \ {0}
            BY Emissions
        <3>2. ~Passed(w, e) /\ ~Passed(w, e)'
            BY <2>1, <2>2, <3>1 DEF Passed
        <3> QED
            BY <2>1, <2>4, <3>2 DEF Passed
    <2>6. \A i : Finishing(i)' <=> Finishing(i)
        BY <2>1, <2>3, <2>4 DEF Finishing
    <2> QED
        BY <2>1, <2>5, <2>6, BookedKeeps
<1>4. ASSUME NEW w \in Crew, Lock(w) \/ Load(w) \/ Store(w) \/ FlushEnd(w) \/ EndDescent(w)
      PROVE  Booked'
    <2>1. /\ pc' = pc /\ pos' = pos /\ held' = held /\ emitted' = emitted /\ completed' = completed
          /\ done' = done /\ discard' = discard /\ writes' = writes /\ cancelled' = cancelled
        BY <1>4 DEF Lock, Load, Store, FlushEnd, EndDescent, poolVars, sinkVars
    <2>2. \A v \in Crew : at'[v] = "finish" <=> at[v] = "finish"
        <3>1. at[w] # "finish" /\ at'[w] # "finish"
            <4>1. CASE Store(w)
                BY <1>0, <4>1, StoreMoves
            <4>2. CASE Lock(w) \/ FlushEnd(w)
                <5>1. at[w] \in {"flush", "dfs"}
                    BY <4>2 DEF Lock, FlushEnd, Flushing
                <5> QED
                    BY <1>0, <4>2, <5>1 DEF Lock, FlushEnd, GoTo
            <4>3. CASE Load(w) \/ EndDescent(w)
                BY <1>0, <4>3 DEF Load, EndDescent, InDescent, GoTo
            <4> QED
                BY <1>4, <4>1, <4>2, <4>3
        <3>2. \A v \in Crew \ {w} : at'[v] = at[v]
            BY <1>4, Others DEF Step
        <3> QED
            BY <3>1, <3>2
    <2>3. (\A v \in Crew, e \in Emission : Passed(v, e)' <=> Passed(v, e)) /\ \A i : Finishing(i)' <=> Finishing(i)
        BY <2>1, <2>2 DEF Passed, Finishing
    <2> QED
        BY <2>1, <2>3, BookedKeeps
<1> QED
    BY <1>1, <1>2, <1>3, <1>4, BookedEmit, BookedReport, BookedFinish DEF Next, Step

-----------------------------------------------------------------------------
LEMMA PoolStarts == Init => Run!Init
BY Zenon DEF Init, Pool!Init, Pool!Crew, Pool!CrewSize, Pool!NoIndex, Pool!Index,
    Run!Init, Run!Crew, Run!CrewSize, Run!NoIndex, Run!Index

LEMMA IInvInit == Init => IInv
<1> SUFFICES ASSUME Init
             PROVE  IInv
    OBVIOUS
<1>1. Crewed
    <2>1. Run!Init
        BY PoolStarts
    <2> QED
        BY <2>1, PoolSizes, Run!InvInit DEF Crewed, Run!Init
<1>2. /\ at = [w \in Crew |-> "dfs"] /\ pos = [w \in Crew |-> 1]
      /\ staged = [w \in Crew |-> {}] /\ pending = [w \in Crew |-> 0]
      /\ lock = [s \in Shard |-> Nobody] /\ word = [w \in Crew |-> {}] /\ entry = [w \in Crew |-> << >>]
      /\ table = [c \in Class |-> {}] /\ emitted = {} /\ writes = 0 /\ completed = 0
    BY DEF Init
<1>3. discard \in BOOLEAN
    BY DEF Init
<1>4. done = {} /\ \A w \in Crew : pc[w] = "check"
    BY DEF Init, Pool!Init, Crew
<1>5. TypeOK
    <2>1. Pool!TypeOK
        BY <1>1 DEF Crewed, Run!Inv, Run!TypeOK, Pool!TypeOK, Run!Crew, Run!CrewSize, Pool!Crew, Pool!CrewSize,
            Run!Index, Pool!Index, Run!NoIndex, Pool!NoIndex
    <2> QED
        BY <1>2, <1>3, <2>1 DEF TypeOK
<1>6. Placed /\ Discarded /\ Descending
    BY <1>2, <1>4 DEF Placed, Discarded, Descending
<1>7. Locked
    BY <1>2, CrewIsNot DEF Locked, Adding
<1>8. Placewise
    BY <1>2 DEF Placewise
<1>9. Bounded
    BY <1>2, FS_EmptySet, GenAssumption DEF Bounded
<1>10. Booked
    <2>1. Unreported = {} /\ Reported = {}
        BY <1>2, <1>4 DEF Unreported, Passed, Reported, Finishing
    <2> QED
        BY <1>2, <1>4, <2>1, FS_EmptySet DEF Booked
<1> QED
    BY <1>1, <1>5, <1>6, <1>7, <1>8, <1>9, <1>10 DEF IInv

LEMMA IInvNext == IInv /\ [Next]_vars => IInv'
<1> SUFFICES ASSUME IInv, [Next]_vars
             PROVE  IInv'
    OBVIOUS
<1>1. Crewed /\ TypeOK /\ Placed /\ Discarded /\ Descending /\ Locked /\ Placewise /\ Bounded /\ Booked
    BY DEF IInv
<1>2. Crewed'
    BY <1>1, CrewedNext
<1>3. TypeOK'
    BY <1>1, <1>2, TypeNext
<1>4. Placed' /\ Discarded' /\ Descending' /\ Locked'
    BY <1>1, <1>3, PlacedNext, DiscardedNext, DescendingNext, LockedNext
<1>5. Placewise' /\ Bounded' /\ Booked'
    BY <1>1, PlacewiseNext, BoundedNext, BookedNext
<1> QED
    BY <1>2, <1>3, <1>4, <1>5 DEF IInv

LEMMA Invariant == Spec => []IInv
BY IInvInit, IInvNext, PTL DEF Spec

(* A generation phase is a run of the pool: what is inside its loop body   *)
(* changes nothing in which index is handed to whom (workerpool.go:38-65). *)
THEOREM PhaseIsARun == Spec => Run!Spec
<1>1. Init => Run!Init
    BY PoolStarts
<1>2. [Next]_vars => [Run!Next]_Run!vars
    BY PoolSteps
<1> QED
    BY <1>1, <1>2, PTL DEF Spec, Run!Spec

(* The state of a generation phase always has its types.                   *)
THEOREM TypeCorrect == Spec => []TypeOK
BY Invariant, PTL DEF IInv

(* No emission is lost or doubled on its way from a descent through a      *)
(* Staging into its slot, however the workers contend for the shards       *)
(* (cache.go:308-366).                                                     *)
THEOREM EmissionsConservedAlways == Spec => []EmissionsConserved
<1>1. IInv => EmissionsConserved
    <2> SUFFICES ASSUME IInv
                 PROVE  EmissionsConserved
        OBVIOUS
    <2>1. Placewise
        BY DEF IInv
    <2>2. ASSUME NEW e \in emitted, ~Folded(e)
          PROVE  \E w \in Crew : StagedBy(e) = {w}
        <3>1. PICK w \in Crew : e \in staged[w]
            BY <2>1, <2>2 DEF Placewise
        <3>2. \A v \in Crew : e \in staged[v] => v = w
            BY <2>1, <3>1 DEF Placewise
        <3> QED
            BY <3>1, <3>2 DEF StagedBy
    <2>3. ASSUME NEW e \in emitted, Folded(e)
          PROVE  StagedBy(e) = {}
        BY <2>1, <2>3 DEF Placewise, StagedBy
    <2> QED
        BY <2>1, <2>2, <2>3 DEF EmissionsConserved, Placewise
<1> QED
    BY <1>1, Invariant, PTL

(* What the crew leaves behind when Run returns.                           *)
LEMMA AllGone ==
    ASSUME IInv, returned
    PROVE  /\ \A w \in Crew : pc[w] = "gone" /\ at[w] = "flushed" /\ staged[w] = {}
           /\ \A e \in emitted : Folded(e)
           /\ Unreported = {}
<1>1. Crewed /\ Placed /\ Placewise
    BY DEF IInv
<1>2. \A w \in Crew : pc[w] = "gone"
    BY <1>1, CrewFacts
<1>3. \A w \in Crew : at[w] = "flushed" /\ staged[w] = {}
    BY <1>1, <1>2 DEF Placed
<1>4. \A e \in emitted : Folded(e)
    BY <1>1, <1>3 DEF Placewise
<1> QED
    BY <1>2, <1>3, <1>4 DEF Unreported, Passed

(* When Run returns, also from a cancelled phase, the table holds all that *)
(* was emitted and nothing is staged or locked (counter.go:141-145).       *)
THEOREM BarrierSeesAllAlways == Spec => []BarrierSeesAll
<1>1. IInv => BarrierSeesAll
    <2> SUFFICES ASSUME IInv, returned
                 PROVE  /\ \A e \in emitted : Folded(e)
                        /\ ~discard => writes = Cardinality(emitted)
                        /\ \A w \in Crew : staged[w] = {}
                        /\ \A s \in Shard : lock[s] = Nobody
        BY DEF BarrierSeesAll
    <2>1. TypeOK /\ Locked /\ Booked
        BY DEF IInv
    <2>2. ~discard => writes = Cardinality(emitted)
        <3>1. Cardinality(Unreported) = 0
            BY AllGone, FS_EmptySet
        <3>2. ~discard => writes + Cardinality(Unreported) = Cardinality(emitted)
            BY <2>1 DEF Booked
        <3>3. writes \in Nat
            BY <2>1 DEF TypeOK
        <3> QED
            BY <3>1, <3>2, <3>3
    <2>3. ASSUME NEW s \in Shard
          PROVE  lock[s] = Nobody
        <3>1. ASSUME NEW w \in Crew, lock[s] = w
              PROVE  FALSE
            BY <2>1, <3>1, AllGone DEF Locked, Adding
        <3> QED
            BY <2>1, <3>1 DEF TypeOK
    <2> QED
        BY <2>2, <2>3, AllGone
<1> QED
    BY <1>1, Invariant, PTL

(* A phase that ctx did not end builds the same table for every crew and   *)
(* interleaving, and its progress ends at the whole of it                  *)
(* (cache.go:346-350, counter.go:138-176).                                 *)
THEOREM CompleteRunAlways == Spec => []CompleteRun
<1>1. IInv => CompleteRun
    <2> SUFFICES ASSUME IInv, returned, ~cancelled
                 PROVE  /\ \A c \in Class :
                              table[c] = IF discard THEN {} ELSE {e \in Emission : ClassOf(e) = c}
                        /\ completed = tasks
                        /\ writes = Cardinality(Emission)
        BY DEF CompleteRun
    <2>1. Crewed /\ TypeOK /\ Placed /\ Discarded /\ Descending /\ Placewise /\ Booked
        BY DEF IInv
    <2>2. done = Index
        <3>1. ASSUME NEW i \in Index
              PROVE  i \in done
            <4>1. i \in Nat /\ i < N /\ N \in Nat /\ cursor \in Nat /\ Workers \in Nat \ {0}
                BY <2>1, CrewFacts, GenAssumption DEF Index, Pool!Index
            <4>2. \E w : w \in Crew
                BY <4>1 DEF Crew, Pool!Crew, Pool!CrewSize
            <4>3. cursor > N
                BY <2>1, <4>2, AllGone, CrewFacts
            <4>4. i < cursor
                BY <4>1, <4>3
            <4> QED
                BY <2>1, <4>4, AllGone, CrewFacts
        <3> QED
            BY <2>1, <3>1, CrewFacts
    <2>3. completed = tasks
        BY <2>1, <2>2, EmissionFinite DEF Booked, tasks
    <2>4. Reported = Emission
        BY <2>2, Emissions DEF Reported
    <2>5. writes = Cardinality(Emission)
        BY <2>1, <2>4 DEF Booked
    <2>6. ASSUME NEW c \in Class
          PROVE  table[c] = IF discard THEN {} ELSE {e \in Emission : ClassOf(e) = c}
        <3>1. CASE discard
            BY <2>1, <3>1 DEF Discarded, Placewise
        <3>2. CASE ~discard
            <4>1. \A e \in Emission : e \in emitted
                BY <2>1, <2>2, <3>2, Emissions DEF Descending
            <4>2. \A e \in Emission : e \in table[ClassOf(e)]
                BY <4>1, AllGone DEF Folded
            <4>3. \A e \in table[c] : e \in Emission /\ ClassOf(e) = c
                BY <2>1 DEF Placewise, TypeOK
            <4> QED
                BY <3>2, <4>2, <4>3
        <3> QED
            BY <3>1, <3>2
    <2> QED
        BY <2>3, <2>5, <2>6
<1> QED
    BY <1>1, Invariant, PTL

(* No Staging ever holds more than the limit it flushes at, whatever its   *)
(* worker is doing (cache.go:334-344).                                     *)
THEOREM StagingBoundedAlways == Spec => []StagingBounded
<1>1. IInv => StagingBounded
    BY DEF IInv, Bounded, StagingBounded, InDescent
<1> QED
    BY <1>1, Invariant, PTL
=============================================================================
